--------------------------- MODULE SlotOrderProofs ---------------------------
(* Lemmas about the list operators of SlotOrder: what they return, for lists *)
(* of any length.                                                            *)
EXTENDS SlotOrder, FiniteSetTheorems, SequenceTheorems, WellFoundedInduction, TLAPS

(* Every nonempty set of natural numbers has a least element. *)
LEMMA LeastNat ==
  ASSUME NEW T \in SUBSET Nat, T # {}
  PROVE  \E n \in T : \A m \in T : n <= m
<1>1. PICK x \in T : \A y \in T : ~(<<y, x>> \in OpToRel(<, Nat))
  BY NatLessThanWellFounded, WFMin
<1>2. ASSUME NEW m \in T PROVE x <= m
  <2>1. ~(<<m, x>> \in OpToRel(<, Nat))
    BY <1>1
  <2>2. m \in Nat /\ x \in Nat
    OBVIOUS
  <2>3. ~(m < x)
    BY <2>1, <2>2 DEF OpToRel
  <2> QED BY <2>2, <2>3
<1> QED BY <1>2

(* The elements of a finite set K of naturals that are at most m, counted.   *)
AtMost(K, m) == {k \in K : k <= m}

(* A set of n naturals has an element with exactly i members up to it, for   *)
(* each i from 1 to n: the i-th smallest.                                    *)
LEMMA RankExists ==
  ASSUME NEW n \in Nat, NEW K, \A k \in K : k \in 1..n, NEW i \in 1..Cardinality(K)
  PROVE  \E j \in K : Cardinality(AtMost(K, j)) = i
<1>0. \A k \in K : k \in Nat /\ 1 <= k /\ k <= n
  OBVIOUS
<1>1. IsFiniteSet(K) /\ Cardinality(K) \in Nat
  <2>1. IsFiniteSet(1..n)
    BY FS_Interval
  <2>2. IsFiniteSet(K)
    BY <2>1, FS_Subset
  <2> QED BY <2>2, FS_CardinalityType
<1>2. ASSUME NEW m \in Int
      PROVE  IsFiniteSet(AtMost(K, m)) /\ Cardinality(AtMost(K, m)) \in Nat
  <2>1. AtMost(K, m) \in SUBSET K
    BY DEF AtMost
  <2>2. IsFiniteSet(AtMost(K, m))
    BY <2>1, <1>1, FS_Subset
  <2> QED BY <2>2, FS_CardinalityType
<1> DEFINE T == {m \in Nat : Cardinality(AtMost(K, m)) >= i}
<1>3. n \in T
  <2>1. AtMost(K, n) = K
    BY <1>0 DEF AtMost
  <2> QED BY <1>1, <2>1
<1>4. PICK m \in T : \A l \in T : m <= l
  BY <1>3, LeastNat
<1>5. m # 0
  <2>1. AtMost(K, 0) = {}
    BY <1>0 DEF AtMost
  <2>2. Cardinality(AtMost(K, 0)) = 0
    BY <2>1, FS_EmptySet
  <2>3. Cardinality(AtMost(K, m)) >= i
    BY <1>4
  <2> QED BY <2>2, <2>3, <1>1
<1>6. m - 1 \in Nat /\ m - 1 \notin T
  <2>1. m - 1 \in Nat
    BY <1>5
  <2>2. ~(m <= m - 1)
    BY <2>1
  <2> QED BY <2>1, <2>2, <1>4
<1>7. Cardinality(AtMost(K, m - 1)) < i
  BY <1>6, <1>2, <1>1
<1>8. m \in K
  <2> SUFFICES ASSUME m \notin K PROVE FALSE
    OBVIOUS
  <2>1. AtMost(K, m) = AtMost(K, m - 1)
    BY <1>0, <1>4 DEF AtMost
  <2>2. Cardinality(AtMost(K, m)) >= i
    BY <1>4
  <2> QED BY <2>1, <2>2, <1>7, <1>2, <1>1, <1>6
<1>9. m \in Nat /\ Cardinality(AtMost(K, m)) >= i
  BY <1>4
<1> HIDE DEF T
<1>10. AtMost(K, m) = AtMost(K, m - 1) \cup {m} /\ m \notin AtMost(K, m - 1)
  <2>1. \A k \in K : k <= m <=> k <= m - 1 \/ k = m
    BY <1>0, <1>9
  <2>2. ~(m <= m - 1)
    BY <1>9
  <2> QED BY <2>1, <2>2, <1>8 DEF AtMost
<1>11. Cardinality(AtMost(K, m)) = Cardinality(AtMost(K, m - 1)) + 1
  <2>1. IsFiniteSet(AtMost(K, m - 1))
    BY <1>2, <1>6
  <2>2. Cardinality(AtMost(K, m - 1) \cup {m}) = Cardinality(AtMost(K, m - 1)) + 1
    BY <2>1, <1>10, FS_AddElement
  <2> QED BY <2>2, <1>10
<1>12. Cardinality(AtMost(K, m)) = i
  BY <1>1, <1>2, <1>6, <1>7, <1>9, <1>11
<1> QED BY <1>8, <1>12

(* Restriction picks list elements at positions of K. *)
LEMMA RestrictionElement ==
  ASSUME NEW S, NEW list \in Seq(S), NEW K, K \subseteq DOMAIN list
  PROVE  /\ Cardinality(K) \in Nat
         /\ Restriction(list, K) \in Seq(S)
         /\ Len(Restriction(list, K)) = Cardinality(K)
         /\ \A i \in 1..Cardinality(K) :
               \E j \in K : Restriction(list, K)[i] = list[j]
<1>1. DOMAIN list = 1..Len(list) /\ Len(list) \in Nat
  OBVIOUS
<1>2. Cardinality(K) \in Nat
  <2>1. IsFiniteSet(1..Len(list))
    BY <1>1, FS_Interval
  <2>2. IsFiniteSet(K)
    BY <1>1, <2>1, FS_Subset
  <2> QED BY <2>2, FS_CardinalityType
<1>3. ASSUME NEW i \in 1..Cardinality(K)
      PROVE  \E j \in K : Restriction(list, K)[i] = list[j]
  <2>1. \E j \in K : Cardinality({k \in K : k <= j}) = i
    BY <1>1, RankExists DEF AtMost
  <2> QED BY <2>1 DEF Restriction
<1>4. ASSUME NEW i \in 1..Cardinality(K)
      PROVE  Restriction(list, K)[i] \in S
  BY <1>1, <1>3
<1>5. Restriction(list, K) \in [1..Cardinality(K) -> S]
  BY <1>4 DEF Restriction
<1> QED BY <1>2, <1>3, <1>5

(* Erasing nodes leaves a list of the same nodes. *)
LEMMA WithoutType ==
  ASSUME NEW S, NEW list \in Seq(S), NEW R
  PROVE  Without(list, R) \in Seq(S)
BY RestrictionElement DEF Without

(* The iterators that Begin, NodeAt and Successor return are nodes or end(). *)
LEMMA BeginType ==
  ASSUME NEW S, NEW list \in Seq(S)
  PROVE  Begin(list) \in ToSet(list) \cup {End}
<1>1. CASE list = << >>
  BY <1>1 DEF Begin
<1>2. CASE list # << >>
  <2>1. 1 \in DOMAIN list
    BY <1>2
  <2> QED BY <1>2, <2>1 DEF Begin, ToSet
<1> QED BY <1>1, <1>2

LEMMA NodeAtType ==
  ASSUME NEW list, NEW i
  PROVE  NodeAt(list, i) \in ToSet(list) \cup {End}
BY DEF NodeAt, ToSet

LEMMA SuccessorType ==
  ASSUME NEW list, NEW it
  PROVE  Successor(list, it) \in ToSet(list) \cup {End}
BY NodeAtType DEF Successor

LEMMA ToSetType ==
  ASSUME NEW S, NEW list \in Seq(S)
  PROVE  ToSet(list) \subseteq S
BY DEF ToSet

(* The places that lower_bound and upper_bound look for exist, whether or    *)
(* not the list is sorted.                                                   *)
LEMMA LowerBoundExists ==
  ASSUME NEW S, NEW list \in Seq(S), NEW keyOf, NEW key
  PROVE  LET i == LowerBoundIndex(list, keyOf, key)
         IN  /\ i \in 0..Len(list)
             /\ \A j \in 1..i : KeyLess(keyOf[list[j]], key)
             /\ i < Len(list) => ~KeyLess(keyOf[list[i + 1]], key)
<1> DEFINE T == {i \in 0..Len(list) : i < Len(list) => ~KeyLess(keyOf[list[i + 1]], key)}
<1>1. Len(list) \in T
  OBVIOUS
<1>2. T \in SUBSET Nat
  OBVIOUS
<1>3. PICK m \in T : \A i \in T : m <= i
  BY <1>1, <1>2, LeastNat
<1>4. ASSUME NEW j \in 1..m PROVE KeyLess(keyOf[list[j]], key)
  <2>1. j - 1 \in 0..Len(list) /\ j - 1 < m /\ (j - 1) + 1 = j /\ j - 1 < Len(list)
    OBVIOUS
  <2>2. j - 1 \notin T
    BY <1>3, <2>1
  <2> QED BY <2>1, <2>2
<1>5. \E i \in 0..Len(list) : /\ \A j \in 1..i : KeyLess(keyOf[list[j]], key)
                              /\ i < Len(list) => ~KeyLess(keyOf[list[i + 1]], key)
  BY <1>4
<1> QED BY <1>5 DEF LowerBoundIndex

LEMMA UpperBoundExists ==
  ASSUME NEW S, NEW list \in Seq(S), NEW keyOf, NEW key
  PROVE  LET i == UpperBoundIndex(list, keyOf, key)
         IN  /\ i \in 0..Len(list)
             /\ \A j \in 1..i : ~KeyLess(key, keyOf[list[j]])
             /\ i < Len(list) => KeyLess(key, keyOf[list[i + 1]])
<1> DEFINE T == {i \in 0..Len(list) : i < Len(list) => KeyLess(key, keyOf[list[i + 1]])}
<1>1. Len(list) \in T
  OBVIOUS
<1>2. T \in SUBSET Nat
  OBVIOUS
<1>3. PICK m \in T : \A i \in T : m <= i
  BY <1>1, <1>2, LeastNat
<1>4. ASSUME NEW j \in 1..m PROVE ~KeyLess(key, keyOf[list[j]])
  <2>1. j - 1 \in 0..Len(list) /\ j - 1 < m /\ (j - 1) + 1 = j /\ j - 1 < Len(list)
    OBVIOUS
  <2>2. j - 1 \notin T
    BY <1>3, <2>1
  <2> QED BY <2>1, <2>2
<1>5. \E i \in 0..Len(list) : /\ \A j \in 1..i : ~KeyLess(key, keyOf[list[j]])
                              /\ i < Len(list) => KeyLess(key, keyOf[list[i + 1]])
  BY <1>4
<1> QED BY <1>5 DEF UpperBoundIndex

LEMMA InsertedType ==
  ASSUME NEW S, NEW list \in Seq(S), NEW keyOf, NEW n \in S, NEW position
  PROVE  Inserted(list, keyOf, n, position) \in Seq(S)
<1>1. ASSUME NEW i \in 0..Len(list)
      PROVE  SubSeq(list, 1, i) \o <<n>> \o SubSeq(list, i + 1, Len(list)) \in Seq(S)
  OBVIOUS
<1> QED BY <1>1, LowerBoundExists, UpperBoundExists DEF Inserted

-----------------------------------------------------------------------------
(* Erasing nodes and inserting one, for lists without repetition.            *)

(* A slot is in a list at most once. *)
Unrepeated(list) == \A i, j \in DOMAIN list : i < j => list[i] # list[j]

(* The elements of a finite set of naturals are counted in their order. *)
LEMMA RankOrder ==
  ASSUME NEW n \in Nat, NEW K, \A k \in K : k \in 1..n, NEW i \in K, NEW j \in K
  PROVE  /\ Cardinality(AtMost(K, i)) \in 1..Cardinality(K)
         /\ i < j <=> Cardinality(AtMost(K, i)) < Cardinality(AtMost(K, j))
<1>0. \A k \in K : k \in Nat /\ 1 <= k /\ k <= n
  OBVIOUS
<1>1. IsFiniteSet(K) /\ Cardinality(K) \in Nat
  <2>1. IsFiniteSet(1..n)
    BY FS_Interval
  <2>2. IsFiniteSet(K)
    BY <2>1, FS_Subset
  <2> QED BY <2>2, FS_CardinalityType
<1>2. ASSUME NEW k \in K
      PROVE  /\ IsFiniteSet(AtMost(K, k))
             /\ Cardinality(AtMost(K, k)) \in 1..Cardinality(K)
  <2>1. AtMost(K, k) \in SUBSET K
    BY DEF AtMost
  <2>2. IsFiniteSet(AtMost(K, k)) /\ Cardinality(AtMost(K, k)) <= Cardinality(K)
    BY <2>1, <1>1, FS_Subset
  <2>3. k \in AtMost(K, k)
    BY <1>0 DEF AtMost
  <2>4. Cardinality(AtMost(K, k)) \in Nat /\ Cardinality(AtMost(K, k)) # 0
    BY <2>2, <2>3, FS_CardinalityType, FS_EmptySet
  <2> QED BY <1>1, <2>2, <2>4
<1>3. ASSUME NEW k \in K, NEW m \in K, k < m
      PROVE  Cardinality(AtMost(K, k)) < Cardinality(AtMost(K, m))
  <2>1. AtMost(K, k) \in SUBSET AtMost(K, m)
    BY <1>0, <1>3 DEF AtMost
  <2>2. m \in AtMost(K, m) /\ m \notin AtMost(K, k)
    BY <1>0, <1>3 DEF AtMost
  <2>3. AtMost(K, k) # AtMost(K, m)
    BY <2>2
  <2>4. Cardinality(AtMost(K, k)) <= Cardinality(AtMost(K, m))
        /\ (Cardinality(AtMost(K, k)) = Cardinality(AtMost(K, m))
               => AtMost(K, k) = AtMost(K, m))
    BY <2>1, <1>2, FS_Subset
  <2> QED BY <1>2, <2>3, <2>4
<1>4. i < j => Cardinality(AtMost(K, i)) < Cardinality(AtMost(K, j))
  BY <1>3
<1>5. j < i => Cardinality(AtMost(K, j)) < Cardinality(AtMost(K, i))
  BY <1>3
<1> QED BY <1>0, <1>2, <1>4, <1>5

(* Restriction takes the positions of K in their order and leaves none out.  *)
LEMMA RestrictionPositions ==
  ASSUME NEW S, NEW list \in Seq(S), NEW K, K \subseteq DOMAIN list
  PROVE  \E at \in [1..Cardinality(K) -> K] :
            /\ \A i \in 1..Cardinality(K) : Restriction(list, K)[i] = list[at[i]]
            /\ \A i, j \in 1..Cardinality(K) : i < j => at[i] < at[j]
            /\ \A k \in K : \E i \in 1..Cardinality(K) : at[i] = k
<1> DEFINE n == Cardinality(K)
           at == [i \in 1..n |-> CHOOSE j \in K : Cardinality(AtMost(K, j)) = i]
<1>1. Len(list) \in Nat /\ \A k \in K : k \in 1..Len(list)
  OBVIOUS
<1>2. \A i \in 1..n : at[i] \in K /\ Cardinality(AtMost(K, at[i])) = i
  BY <1>1, RankExists
<1>3. \A i \in 1..n : Restriction(list, K)[i] = list[at[i]]
  BY DEF Restriction, AtMost
<1>4. at \in [1..n -> K]
  BY <1>2
<1>5. Cardinality(K) \in Nat
  BY RestrictionElement
<1> HIDE DEF at
<1>6. ASSUME NEW i \in 1..n, NEW j \in 1..n, i < j
      PROVE  at[i] < at[j]
  BY <1>1, <1>2, <1>6, RankOrder
<1>7. ASSUME NEW k \in K
      PROVE  \E i \in 1..n : at[i] = k
  <2> DEFINE i == Cardinality(AtMost(K, k))
  <2>1. i \in 1..n
    BY <1>1, RankOrder
  <2>2. at[i] \in K /\ Cardinality(AtMost(K, at[i])) = i
    BY <2>1, <1>2
  <2>3. ~(at[i] < k) /\ ~(k < at[i])
    BY <1>1, <2>1, <2>2, RankOrder
  <2>4. at[i] = k
    BY <1>1, <2>2, <2>3
  <2> QED BY <2>1, <2>4
<1> QED BY <1>3, <1>4, <1>6, <1>7

(* The list after the nodes of R have been erased: the other nodes of the    *)
(* list, as they were ordered.                                               *)
LEMMA WithoutPositions ==
  ASSUME NEW S, NEW list \in Seq(S), NEW R
  PROVE  LET new == Without(list, R)
         IN  /\ new \in Seq(S)
             /\ \E at \in [DOMAIN new -> DOMAIN list] :
                   /\ \A i \in DOMAIN new : new[i] = list[at[i]] /\ list[at[i]] \notin R
                   /\ \A i, j \in DOMAIN new : i < j => at[i] < at[j]
                   /\ \A k \in DOMAIN list : list[k] \notin R =>
                         \E i \in DOMAIN new : at[i] = k
<1> DEFINE K == {k \in DOMAIN list : list[k] \notin R}
           new == Without(list, R)
<1>1. K \subseteq DOMAIN list /\ new = Restriction(list, K)
  BY DEF Without
<1>2. \A k : k \in K <=> k \in DOMAIN list /\ list[k] \notin R
  OBVIOUS
<1> HIDE DEF K, new
<1>3. new \in Seq(S) /\ DOMAIN new = 1..Cardinality(K)
  BY <1>1, RestrictionElement
<1>4. PICK at \in [1..Cardinality(K) -> K] :
            /\ \A i \in 1..Cardinality(K) : Restriction(list, K)[i] = list[at[i]]
            /\ \A i, j \in 1..Cardinality(K) : i < j => at[i] < at[j]
            /\ \A k \in K : \E i \in 1..Cardinality(K) : at[i] = k
  BY <1>1, RestrictionPositions
<1>5. at \in [DOMAIN new -> DOMAIN list]
  BY <1>2, <1>3
<1>6. \A i \in DOMAIN new : new[i] = list[at[i]] /\ list[at[i]] \notin R
  BY <1>1, <1>2, <1>3, <1>4
<1>7. \A k \in DOMAIN list : list[k] \notin R => \E i \in DOMAIN new : at[i] = k
  BY <1>2, <1>3, <1>4
<1>8. \A i, j \in DOMAIN new : i < j => at[i] < at[j]
  BY <1>3, <1>4
<1> QED BY <1>3, <1>5, <1>6, <1>7, <1>8 DEF new

LEMMA WithoutSet ==
  ASSUME NEW S, NEW list \in Seq(S), NEW R
  PROVE  ToSet(Without(list, R)) = ToSet(list) \ R
<1> DEFINE new == Without(list, R)
<1>1. PICK at \in [DOMAIN new -> DOMAIN list] :
        /\ \A i \in DOMAIN new : new[i] = list[at[i]] /\ list[at[i]] \notin R
        /\ \A k \in DOMAIN list : list[k] \notin R => \E i \in DOMAIN new : at[i] = k
  BY WithoutPositions
<1> HIDE DEF new
<1>2. ToSet(new) = ToSet(list) \ R
  BY <1>1 DEF ToSet
<1> QED BY <1>2 DEF new

LEMMA WithoutKeepsOrder ==
  ASSUME NEW S, NEW list \in Seq(S), NEW R
  PROVE  /\ Unrepeated(list) => Unrepeated(Without(list, R))
         /\ \A keyOf : Sorted(list, keyOf) => Sorted(Without(list, R), keyOf)
<1> DEFINE new == Without(list, R)
<1>1. PICK at \in [DOMAIN new -> DOMAIN list] :
        /\ \A i \in DOMAIN new : new[i] = list[at[i]]
        /\ \A i, j \in DOMAIN new : i < j => at[i] < at[j]
  BY WithoutPositions
<1> HIDE DEF new
<1>2. Unrepeated(list) => Unrepeated(new)
  BY <1>1 DEF Unrepeated
<1>3. \A keyOf : Sorted(list, keyOf) => Sorted(new, keyOf)
  BY <1>1 DEF Sorted
<1> QED BY <1>2, <1>3 DEF new

(* A node between two lists. *)
LEMMA JoinedElements ==
  ASSUME NEW S, NEW front \in Seq(S), NEW n \in S, NEW back \in Seq(S)
  PROVE  LET new == front \o <<n>> \o back
         IN  /\ new \in Seq(S)
             /\ Len(new) = Len(front) + 1 + Len(back)
             /\ \A j \in 1..Len(front) + 1 + Len(back) :
                   new[j] = IF j <= Len(front) THEN front[j]
                            ELSE IF j = Len(front) + 1 THEN n
                            ELSE back[j - (Len(front) + 1)]
<1> DEFINE head == front \o <<n>>
           i    == Len(front)
           new  == head \o back
<1>1. i \in Nat /\ Len(back) \in Nat
  OBVIOUS
<1>2. <<n>> \in Seq(S) /\ Len(<<n>>) = 1 /\ <<n>>[1] = n
  OBVIOUS
<1>3. /\ head \in Seq(S) /\ Len(head) = i + 1
      /\ \A j \in 1..i + 1 : head[j] = IF j <= i THEN front[j] ELSE <<n>>[j - i]
  BY <1>2, ConcatProperties
<1>4. \A j \in 1..i + 1 : head[j] = IF j <= i THEN front[j] ELSE n
  BY <1>1, <1>2, <1>3
<1> HIDE DEF head
<1>5. /\ new \in Seq(S) /\ Len(new) = i + 1 + Len(back)
      /\ \A j \in 1..i + 1 + Len(back) :
            new[j] = IF j <= i + 1 THEN head[j] ELSE back[j - (i + 1)]
  <2>1. head \in Seq(S) /\ back \in Seq(S)
    BY <1>3
  <2>2. /\ head \o back \in Seq(S)
        /\ Len(head \o back) = Len(head) + Len(back)
        /\ \A j \in 1..Len(head) + Len(back) :
              (head \o back)[j] = IF j <= Len(head) THEN head[j] ELSE back[j - Len(head)]
    BY <2>1, ConcatProperties
  <2> QED BY <1>3, <2>2
<1> HIDE DEF i, new
<1>6. \A j \in 1..i + 1 + Len(back) :
         new[j] = IF j <= i THEN front[j]
                  ELSE IF j = i + 1 THEN n ELSE back[j - (i + 1)]
  BY <1>1, <1>4, <1>5
<1> QED BY <1>5, <1>6 DEF head, i, new

(* The node n has entered the list behind its first i nodes. *)
Entered(new, list, n, i) ==
    /\ Len(new) = Len(list) + 1
    /\ DOMAIN new = 1..Len(list) + 1
    /\ \A j \in 1..Len(list) + 1 :
          new[j] = IF j <= i THEN list[j] ELSE IF j = i + 1 THEN n ELSE list[j - 1]

LEMMA InsertedElements ==
  ASSUME NEW S, NEW list \in Seq(S), NEW n \in S, NEW i \in 0..Len(list)
  PROVE  LET new == SubSeq(list, 1, i) \o <<n>> \o SubSeq(list, i + 1, Len(list))
         IN  new \in Seq(S) /\ Entered(new, list, n, i)
<1> DEFINE front == SubSeq(list, 1, i)
           back  == SubSeq(list, i + 1, Len(list))
           new   == front \o <<n>> \o back
<1>1. Len(list) \in Nat /\ i \in Nat /\ i <= Len(list)
  OBVIOUS
<1>2. front \in Seq(S) /\ Len(front) = i /\ \A j \in 1..i : front[j] = list[j]
  BY <1>1, SubSeqProperties
<1>3. /\ back \in Seq(S) /\ Len(back) = Len(list) - i
      /\ \A j \in 1..Len(list) - i : back[j] = list[i + j]
  <2>1. CASE i = Len(list)
    BY <1>1, <2>1
  <2>2. CASE i < Len(list)
    BY <1>1, <2>2, SubSeqProperties
  <2> QED BY <1>1, <2>1, <2>2
<1> HIDE DEF front, back
<1>4. /\ new \in Seq(S) /\ Len(new) = Len(front) + 1 + Len(back)
      /\ \A j \in 1..Len(front) + 1 + Len(back) :
            new[j] = IF j <= Len(front) THEN front[j]
                     ELSE IF j = Len(front) + 1 THEN n ELSE back[j - (Len(front) + 1)]
  <2>1. front \in Seq(S) /\ back \in Seq(S)
    BY <1>2, <1>3
  <2> QED BY <2>1, JoinedElements
<1> HIDE DEF new
<1>5. Len(front) + 1 + Len(back) = Len(list) + 1
  BY <1>1, <1>2, <1>3
<1>6. new \in Seq(S) /\ Len(new) = Len(list) + 1 /\ DOMAIN new = 1..Len(list) + 1
  BY <1>4, <1>5
<1>7. ASSUME NEW j \in 1..Len(list) + 1
      PROVE  new[j] = IF j <= i THEN list[j] ELSE IF j = i + 1 THEN n ELSE list[j - 1]
  <2>1. new[j] = IF j <= i THEN front[j] ELSE IF j = i + 1 THEN n ELSE back[j - (i + 1)]
    BY <1>2, <1>4, <1>5
  <2>2. j <= i => front[j] = list[j]
    BY <1>1, <1>2
  <2>3. CASE j > i + 1
    <3>1. j - (i + 1) \in 1..Len(list) - i /\ i + (j - (i + 1)) = j - 1
      BY <1>1, <2>3
    <3>2. back[j - (i + 1)] = list[j - 1]
      BY <1>3, <3>1
    <3> QED BY <1>1, <2>1, <2>3, <3>2
  <2> QED BY <1>1, <2>1, <2>2, <2>3
<1> QED BY <1>6, <1>7 DEF front, back, new, Entered

(* The place where push_back and push_front put a node. *)
Place(list, keyOf, n, position, i) ==
    IF position = "at_back"
    THEN /\ \A j \in 1..i : ~KeyLess(keyOf[n], keyOf[list[j]])
         /\ i < Len(list) => KeyLess(keyOf[n], keyOf[list[i + 1]])
    ELSE /\ \A j \in 1..i : KeyLess(keyOf[list[j]], keyOf[n])
         /\ i < Len(list) => ~KeyLess(keyOf[list[i + 1]], keyOf[n])

LEMMA InsertedPlace ==
  ASSUME NEW S, NEW list \in Seq(S), NEW keyOf, NEW n \in S, NEW position
  PROVE  LET new == Inserted(list, keyOf, n, position)
         IN  /\ new \in Seq(S)
             /\ \E i \in 0..Len(list) :
                   Entered(new, list, n, i) /\ Place(list, keyOf, n, position, i)
<1> DEFINE low == LowerBoundIndex(list, keyOf, keyOf[n])
           up  == UpperBoundIndex(list, keyOf, keyOf[n])
           i   == IF position = "at_back" THEN up ELSE low
           new == SubSeq(list, 1, i) \o <<n>> \o SubSeq(list, i + 1, Len(list))
<1>1. /\ low \in 0..Len(list)
      /\ \A j \in 1..low : KeyLess(keyOf[list[j]], keyOf[n])
      /\ low < Len(list) => ~KeyLess(keyOf[list[low + 1]], keyOf[n])
  BY LowerBoundExists
<1>2. /\ up \in 0..Len(list)
      /\ \A j \in 1..up : ~KeyLess(keyOf[n], keyOf[list[j]])
      /\ up < Len(list) => KeyLess(keyOf[n], keyOf[list[up + 1]])
  BY UpperBoundExists
<1>3. Inserted(list, keyOf, n, position) = new
  BY DEF Inserted
<1> HIDE DEF low, up
<1>4. i \in 0..Len(list) /\ Place(list, keyOf, n, position, i)
  BY <1>1, <1>2 DEF Place
<1> HIDE DEF i
<1>5. new \in Seq(S) /\ Entered(new, list, n, i)
  BY <1>4, InsertedElements
<1> HIDE DEF new
<1> QED BY <1>3, <1>4, <1>5

LEMMA InsertedSet ==
  ASSUME NEW S, NEW list \in Seq(S), NEW keyOf, NEW n \in S, NEW position
  PROVE  /\ ToSet(Inserted(list, keyOf, n, position)) = ToSet(list) \cup {n}
         /\ Unrepeated(list) /\ n \notin ToSet(list) =>
               Unrepeated(Inserted(list, keyOf, n, position))
<1> DEFINE new == Inserted(list, keyOf, n, position)
<1>1. PICK i \in 0..Len(list) : Entered(new, list, n, i)
  BY InsertedPlace
<1>2. /\ DOMAIN new = 1..Len(list) + 1
      /\ \A j \in DOMAIN new :
            new[j] = IF j <= i THEN list[j] ELSE IF j = i + 1 THEN n ELSE list[j - 1]
  BY <1>1 DEF Entered
<1> HIDE DEF new
<1>3. i \in Nat /\ Len(list) \in Nat /\ i <= Len(list) /\ DOMAIN list = 1..Len(list)
  OBVIOUS
<1>4. ToSet(new) = ToSet(list) \cup {n}
  <2>1. ASSUME NEW j \in DOMAIN list PROVE list[j] \in ToSet(new)
    <3>1. CASE j <= i
      BY <1>2, <1>3, <3>1 DEF ToSet
    <3>2. CASE j > i
      <4>1. j + 1 \in DOMAIN new /\ new[j + 1] = list[j]
        BY <1>2, <1>3, <3>2
      <4> QED BY <4>1 DEF ToSet
    <3> QED BY <1>3, <3>1, <3>2
  <2>2. n \in ToSet(new)
    <3>1. i + 1 \in DOMAIN new /\ new[i + 1] = n
      BY <1>2, <1>3
    <3> QED BY <3>1 DEF ToSet
  <2>3. ASSUME NEW j \in DOMAIN new PROVE new[j] \in ToSet(list) \cup {n}
    BY <1>2, <1>3 DEF ToSet
  <2> QED BY <2>1, <2>2, <2>3 DEF ToSet
<1>5. ASSUME Unrepeated(list), n \notin ToSet(list)
      PROVE  Unrepeated(new)
  BY <1>2, <1>3, <1>5 DEF Unrepeated, ToSet
<1> QED BY <1>4, <1>5 DEF new

(* group_key_less is a strict weak order. *)
LEMMA KeyLessWeakOrder ==
  ASSUME NEW k1 \in GroupKeys, NEW k2 \in GroupKeys, NEW k3 \in GroupKeys
  PROVE  /\ KeyLess(k1, k2) => ~KeyLess(k2, k1)
         /\ KeyLess(k1, k3) => KeyLess(k1, k2) \/ KeyLess(k2, k3)
<1> DEFINE rank(k) == IF k.meta = grouped_slots THEN Rank[k.group] ELSE 0
<1>1. ASSUME NEW k \in GroupKeys
      PROVE  k.meta \in Int /\ rank(k) \in Int
  BY <1>1, RankAssumption
     DEF GroupKeys, FrontKey, BackKey, GroupKey, front_ungrouped_slots, grouped_slots,
         back_ungrouped_slots
<1>2. \A j, k \in GroupKeys :
         KeyLess(j, k) <=> j.meta < k.meta \/ (j.meta = k.meta /\ rank(j) < rank(k))
  BY RankAssumption DEF KeyLess
<1> HIDE DEF rank
<1> QED BY <1>1, <1>2

(* The list stays sorted when a slot enters it. *)
LEMMA InsertedSorted ==
  ASSUME NEW S, NEW list \in Seq(S), NEW keyOf \in [S -> GroupKeys], NEW n \in S,
         NEW position, Sorted(list, keyOf)
  PROVE  Sorted(Inserted(list, keyOf, n, position), keyOf)
<1> DEFINE new == Inserted(list, keyOf, n, position)
<1>1. /\ Len(list) \in Nat /\ DOMAIN list = 1..Len(list)
      /\ \A j \in DOMAIN list : list[j] \in S /\ keyOf[list[j]] \in GroupKeys
      /\ keyOf[n] \in GroupKeys
  OBVIOUS
<1>2. PICK i \in 0..Len(list) :
        Entered(new, list, n, i) /\ Place(list, keyOf, n, position, i)
  BY InsertedPlace
<1>3. /\ DOMAIN new = 1..Len(list) + 1
      /\ \A j \in DOMAIN new :
            new[j] = IF j <= i THEN list[j] ELSE IF j = i + 1 THEN n ELSE list[j - 1]
  BY <1>2 DEF Entered
<1> HIDE DEF new
<1>4. i \in Nat /\ i <= Len(list)
  BY <1>1
<1>5. /\ \A j \in 1..i : ~KeyLess(keyOf[n], keyOf[list[j]])
      /\ i < Len(list) => ~KeyLess(keyOf[list[i + 1]], keyOf[n])
  <2>1. \A j \in 1..i : j \in DOMAIN list
    BY <1>1, <1>4
  <2>2. i < Len(list) => i + 1 \in DOMAIN list
    BY <1>1, <1>4
  <2> QED BY <1>1, <1>2, <2>1, <2>2, KeyLessWeakOrder DEF Place
<1>6. ASSUME NEW j \in DOMAIN list, j > i
      PROVE  ~KeyLess(keyOf[list[j]], keyOf[n])
  <2>1. i + 1 \in DOMAIN list /\ ~KeyLess(keyOf[list[i + 1]], keyOf[n])
    BY <1>1, <1>5, <1>4, <1>6
  <2>2. CASE j = i + 1
    BY <2>1, <2>2
  <2>3. CASE j > i + 1
    <3>1. ~KeyLess(keyOf[list[j]], keyOf[list[i + 1]])
      BY <2>1, <2>3 DEF Sorted
    <3> QED BY <1>1, <2>1, <3>1, KeyLessWeakOrder
  <2> QED BY <1>1, <1>4, <1>6, <2>2, <2>3
<1>7. ASSUME NEW j \in DOMAIN new, NEW k \in DOMAIN new, j < k
      PROVE  ~KeyLess(keyOf[new[k]], keyOf[new[j]])
  <2>1. CASE j = i + 1
    <3>1. new[j] = n /\ new[k] = list[k - 1] /\ k - 1 \in DOMAIN list /\ k - 1 > i
      BY <1>1, <1>3, <1>4, <1>7, <2>1
    <3> QED BY <1>6, <3>1
  <2>2. CASE k = i + 1
    <3>1. new[k] = n /\ new[j] = list[j] /\ j \in 1..i
      BY <1>1, <1>3, <1>4, <1>7, <2>2
    <3> QED BY <1>5, <3>1
  <2>3. CASE j # i + 1 /\ k # i + 1
    <3>1. \E l, m \in DOMAIN list : l < m /\ new[j] = list[l] /\ new[k] = list[m]
      <4>1. CASE k <= i
        BY <1>1, <1>3, <1>4, <1>7, <4>1
      <4>2. CASE j <= i /\ k > i + 1
        <5>1. k - 1 \in DOMAIN list /\ j < k - 1 /\ j \in DOMAIN list
          BY <1>1, <1>3, <1>4, <1>7, <4>2
        <5>2. new[j] = list[j] /\ new[k] = list[k - 1]
          BY <1>1, <1>3, <1>4, <1>7, <4>2
        <5> QED BY <5>1, <5>2
      <4>3. CASE j > i + 1
        <5>1. k - 1 \in DOMAIN list /\ j - 1 < k - 1 /\ j - 1 \in DOMAIN list
          BY <1>1, <1>3, <1>4, <1>7, <4>3
        <5>2. new[j] = list[j - 1] /\ new[k] = list[k - 1]
          BY <1>1, <1>3, <1>4, <1>7, <4>3
        <5> QED BY <5>1, <5>2
      <4> QED BY <1>1, <1>3, <1>4, <1>7, <2>3, <4>1, <4>2, <4>3
    <3> QED BY <3>1 DEF Sorted
  <2> QED BY <2>1, <2>2, <2>3
<1> QED BY <1>7 DEF Sorted, new

(* The slots of a list without repetition are as many as its nodes. *)
LEMMA UnrepeatedCardinality ==
  ASSUME NEW S, NEW list \in Seq(S), Unrepeated(list)
  PROVE  Cardinality(ToSet(list)) = Len(list)
<1>1. Len(list) \in Nat /\ DOMAIN list = 1..Len(list)
  OBVIOUS
<1>2. IsFiniteSet(1..Len(list)) /\ Cardinality(1..Len(list)) = Len(list)
  BY <1>1, FS_Interval
<1>3. list \in Bijection(1..Len(list), ToSet(list))
  <2>1. list \in [1..Len(list) -> ToSet(list)]
    BY <1>1 DEF ToSet
  <2>2. \A s \in ToSet(list) : \E i \in 1..Len(list) : list[i] = s
    BY <1>1 DEF ToSet
  <2>3. \A i, j \in 1..Len(list) : list[i] = list[j] => i = j
    BY <1>1 DEF Unrepeated
  <2> QED BY <2>1, <2>2, <2>3 DEF Bijection, Injection, Surjection, IsInjective
<1>4. ExistsBijection(1..Len(list), ToSet(list))
  BY <1>3 DEF ExistsBijection
<1> QED BY <1>2, <1>4, FS_Bijection

-----------------------------------------------------------------------------
(* The position of an iterator.                                              *)

LEMMA IndexExists ==
  ASSUME NEW S, NEW list \in Seq(S), NEW it \in ToSet(list) \cup {End}
  PROVE  /\ Index(list, it) \in 1..Len(list) + 1
         /\ it = End => Index(list, it) = Len(list) + 1
         /\ it # End => Index(list, it) \in DOMAIN list /\ list[Index(list, it)] = it
<1> DEFINE P(i) == IF it = End THEN i = Len(list) + 1 ELSE i <= Len(list) /\ list[i] = it
<1>1. Len(list) \in Nat /\ DOMAIN list = 1..Len(list)
  OBVIOUS
<1>2. \E i \in 1..Len(list) + 1 : P(i)
  <2>1. CASE it = End
    BY <1>1, <2>1
  <2>2. CASE it # End
    <3>1. PICK i \in DOMAIN list : list[i] = it
      BY <2>2 DEF ToSet
    <3> QED BY <1>1, <2>2, <3>1
  <2> QED BY <2>1, <2>2
<1>3. Index(list, it) = CHOOSE i \in 1..Len(list) + 1 : P(i)
  BY DEF Index
<1>4. Index(list, it) \in 1..Len(list) + 1 /\ P(Index(list, it))
  BY <1>2, <1>3
<1> HIDE DEF Index
<1> QED BY <1>1, <1>4

(* In a list without repetition an iterator has one position. *)
LEMMA IndexUnique ==
  ASSUME NEW S, NEW list \in Seq(S), Unrepeated(list), End \notin S,
         NEW i \in 1..Len(list) + 1
  PROVE  /\ NodeAt(list, i) \in ToSet(list) \cup {End}
         /\ NodeAt(list, i) = IF i = Len(list) + 1 THEN End ELSE list[i]
         /\ Index(list, NodeAt(list, i)) = i
<1> DEFINE it == NodeAt(list, i)
           k  == Index(list, it)
<1>1. Len(list) \in Nat /\ DOMAIN list = 1..Len(list)
  OBVIOUS
<1>2. it \in ToSet(list) \cup {End}
  BY NodeAtType
<1>3. it = IF i = Len(list) + 1 THEN End ELSE list[i]
  BY <1>1 DEF NodeAt
<1>4. /\ k \in 1..Len(list) + 1
      /\ it = End => k = Len(list) + 1
      /\ it # End => k \in DOMAIN list /\ list[k] = it
  BY <1>2, IndexExists
<1> HIDE DEF it, k
<1>5. it = End <=> i = Len(list) + 1
  BY <1>1, <1>3
<1>6. k = i
  BY <1>1, <1>3, <1>4, <1>5 DEF Unrepeated
<1> QED BY <1>2, <1>3, <1>6 DEF it, k

(* ++it and begin(), by position. *)
LEMMA SuccessorIndex ==
  ASSUME NEW S, NEW list \in Seq(S), Unrepeated(list), End \notin S,
         NEW it \in ToSet(list)
  PROVE  Index(list, Successor(list, it)) = Index(list, it) + 1
<1>1. Len(list) \in Nat /\ DOMAIN list = 1..Len(list) /\ it # End
  BY ToSetType
<1>2. Index(list, it) \in DOMAIN list
  BY <1>1, IndexExists
<1>3. Index(list, it) + 1 \in 1..Len(list) + 1
  BY <1>1, <1>2
<1> QED BY <1>3, IndexUnique DEF Successor

LEMMA BeginIndex ==
  ASSUME NEW S, NEW list \in Seq(S), Unrepeated(list), End \notin S
  PROVE  Index(list, Begin(list)) = 1
<1>1. 1 \in 1..Len(list) + 1
  OBVIOUS
<1>2. Begin(list) = NodeAt(list, 1)
  BY DEF Begin, NodeAt
<1> QED BY <1>1, <1>2, IndexUnique

(* disconnect(group): from the lower to the upper bound of a key lie, in a   *)
(* sorted list, exactly the slots whose key is equivalent to it.             *)
LEMMA GroupBounds ==
  ASSUME NEW S, NEW list \in Seq(S), NEW keyOf \in [S -> GroupKeys], NEW key \in GroupKeys,
         Sorted(list, keyOf)
  PROVE  LET low == LowerBoundIndex(list, keyOf, key)
             up  == UpperBoundIndex(list, keyOf, key)
         IN  /\ low \in 0..Len(list) /\ up \in 0..Len(list) /\ low <= up
             /\ \A j \in DOMAIN list :
                   WeaklyEquivalent(keyOf[list[j]], key) <=> low < j /\ j <= up
<1> DEFINE low  == LowerBoundIndex(list, keyOf, key)
           up   == UpperBoundIndex(list, keyOf, key)
           k(j) == keyOf[list[j]]
<1>1. /\ Len(list) \in Nat /\ DOMAIN list = 1..Len(list)
      /\ \A j \in DOMAIN list : k(j) \in GroupKeys
  OBVIOUS
<1>2. /\ low \in 0..Len(list)
      /\ \A j \in 1..low : KeyLess(k(j), key)
      /\ low < Len(list) => ~KeyLess(k(low + 1), key)
  BY LowerBoundExists
<1>3. /\ up \in 0..Len(list)
      /\ \A j \in 1..up : ~KeyLess(key, k(j))
      /\ up < Len(list) => KeyLess(key, k(up + 1))
  BY UpperBoundExists
<1>4. \A i, j \in DOMAIN list : i < j => ~KeyLess(k(j), k(i))
  BY DEF Sorted
<1> HIDE DEF low, up, k
<1>5. low <= up
  <2> SUFFICES ASSUME up < low PROVE FALSE
    BY <1>1, <1>2, <1>3
  <2>1. up + 1 \in 1..low /\ up < Len(list) /\ up + 1 \in DOMAIN list
    BY <1>1, <1>2, <1>3
  <2>2. KeyLess(k(up + 1), key) /\ KeyLess(key, k(up + 1))
    BY <1>2, <1>3, <2>1
  <2> QED BY <1>1, <2>1, <2>2, KeyLessWeakOrder
<1>6. ASSUME NEW j \in DOMAIN list, j <= low
      PROVE  KeyLess(k(j), key)
  BY <1>1, <1>2, <1>6
<1>7. ASSUME NEW j \in DOMAIN list, up < j
      PROVE  KeyLess(key, k(j))
  <2>1. up < Len(list) /\ up + 1 \in DOMAIN list /\ (up + 1 = j \/ up + 1 < j)
    BY <1>1, <1>3, <1>7
  <2>2. KeyLess(key, k(up + 1)) /\ (up + 1 < j => ~KeyLess(k(j), k(up + 1)))
    BY <1>3, <1>4, <2>1
  <2> QED BY <1>1, <2>1, <2>2, KeyLessWeakOrder
<1>8. ASSUME NEW j \in DOMAIN list, low < j, j <= up
      PROVE  WeaklyEquivalent(k(j), key)
  <2>1. ~KeyLess(key, k(j))
    BY <1>1, <1>3, <1>8
  <2>2. low < Len(list) /\ low + 1 \in DOMAIN list /\ (low + 1 = j \/ low + 1 < j)
    BY <1>1, <1>2, <1>8
  <2>3. ~KeyLess(k(low + 1), key) /\ (low + 1 < j => ~KeyLess(k(j), k(low + 1)))
    BY <1>2, <1>4, <2>2
  <2>4. ~KeyLess(k(j), key)
    BY <1>1, <2>2, <2>3, KeyLessWeakOrder
  <2> QED BY <2>1, <2>4 DEF WeaklyEquivalent
<1>9. \A j \in DOMAIN list : WeaklyEquivalent(k(j), key) <=> low < j /\ j <= up
  BY <1>1, <1>2, <1>3, <1>6, <1>7, <1>8 DEF WeaklyEquivalent
<1> QED BY <1>2, <1>3, <1>5, <1>9 DEF low, up, k

-----------------------------------------------------------------------------
(* The order of a list, and what erasing and inserting make of it.           *)

(* a comes before b in the list. *)
Precedes(list, a, b) ==
    \E i, j \in DOMAIN list : i < j /\ list[i] = a /\ list[j] = b

LEMMA PrecedesElements ==
  ASSUME NEW list, NEW a, NEW b, Precedes(list, a, b)
  PROVE  a \in ToSet(list) /\ b \in ToSet(list)
BY DEF Precedes, ToSet

(* Of two nodes of a list without repetition, one comes before the other. *)
LEMMA PrecedesTotal ==
  ASSUME NEW S, NEW list \in Seq(S), NEW a \in ToSet(list), NEW b \in ToSet(list), a # b
  PROVE  /\ Precedes(list, a, b) \/ Precedes(list, b, a)
         /\ Unrepeated(list) => ~(Precedes(list, a, b) /\ Precedes(list, b, a))
<1>1. PICK i \in DOMAIN list : list[i] = a
  BY DEF ToSet
<1>2. PICK j \in DOMAIN list : list[j] = b
  BY DEF ToSet
<1>3. DOMAIN list = 1..Len(list)
  OBVIOUS
<1>4. i < j \/ j < i
  BY <1>1, <1>2, <1>3
<1>5. Precedes(list, a, b) \/ Precedes(list, b, a)
  BY <1>1, <1>2, <1>4 DEF Precedes
<1>6. ASSUME Unrepeated(list), Precedes(list, a, b), Precedes(list, b, a)
      PROVE  FALSE
  <2>1. PICK k, l \in DOMAIN list : k < l /\ list[k] = a /\ list[l] = b
    BY <1>6 DEF Precedes
  <2>2. PICK k2, l2 \in DOMAIN list : k2 < l2 /\ list[k2] = b /\ list[l2] = a
    BY <1>6 DEF Precedes
  <2>3. k = l2 /\ l = k2
    BY <1>3, <1>6, <2>1, <2>2 DEF Unrepeated
  <2> QED BY <1>3, <2>1, <2>2, <2>3
<1> QED BY <1>5, <1>6

(* A list without repetition is known by its nodes and their order. *)
LEMMA SameList ==
  ASSUME NEW S, NEW s \in Seq(S), NEW t \in Seq(S), Unrepeated(s), Unrepeated(t),
         ToSet(s) = ToSet(t), \A a, b : Precedes(s, a, b) => Precedes(t, a, b)
  PROVE  s = t
<1>1. Len(s) = Len(t)
  BY UnrepeatedCardinality
<1>2. /\ Len(s) \in Nat /\ DOMAIN s = 1..Len(s) /\ DOMAIN t = 1..Len(s)
      /\ s = [i \in 1..Len(s) |-> s[i]] /\ t = [i \in 1..Len(s) |-> t[i]]
  BY <1>1
<1>3. SUFFICES ASSUME NEW k \in DOMAIN s, s[k] # t[k] PROVE FALSE
  BY <1>2
<1> DEFINE T == {i \in DOMAIN s : s[i] # t[i]}
<1>4. PICK i \in T : \A m \in T : i <= m
  <2>1. T \in SUBSET Nat /\ T # {}
    BY <1>2, <1>3
  <2> QED BY <2>1, LeastNat
<1>5. i \in DOMAIN s /\ s[i] # t[i] /\ \A m \in DOMAIN s : m < i => s[m] = t[m]
  BY <1>2, <1>4
<1> HIDE DEF T
<1>6. PICK j \in DOMAIN t : t[j] = s[i]
  BY <1>5 DEF ToSet
<1>7. PICK l \in DOMAIN s : s[l] = t[i]
  <2>1. t[i] \in ToSet(t)
    BY <1>2, <1>5 DEF ToSet
  <2> QED BY <2>1 DEF ToSet
<1>8. i < l
  <2>1. l # i
    BY <1>5, <1>7
  <2>2. ~(l < i)
    BY <1>2, <1>5, <1>7 DEF Unrepeated
  <2> QED BY <1>2, <1>5, <2>1, <2>2
<1>9. i < j
  <2>1. j # i
    BY <1>5, <1>6
  <2>2. ~(j < i)
    BY <1>2, <1>5, <1>6 DEF Unrepeated
  <2> QED BY <1>2, <1>5, <2>1, <2>2
<1>10. Precedes(t, s[i], t[i])
  <2>1. Precedes(s, s[i], t[i])
    BY <1>5, <1>7, <1>8 DEF Precedes
  <2> QED BY <2>1
<1>11. PICK m, n \in DOMAIN t : m < n /\ t[m] = s[i] /\ t[n] = t[i]
  BY <1>10 DEF Precedes
<1>12. m = j /\ n = i
  BY <1>2, <1>5, <1>6, <1>11 DEF Unrepeated
<1> QED BY <1>2, <1>5, <1>9, <1>11, <1>12

(* Erasing nodes keeps the order of the others. *)
LEMMA WithoutPrecedes ==
  ASSUME NEW S, NEW list \in Seq(S), NEW R, NEW a, NEW b
  PROVE  Precedes(Without(list, R), a, b) <=> Precedes(list, a, b) /\ a \notin R /\ b \notin R
<1> DEFINE new == Without(list, R)
<1>1. PICK at \in [DOMAIN new -> DOMAIN list] :
        /\ \A i \in DOMAIN new : new[i] = list[at[i]] /\ list[at[i]] \notin R
        /\ \A i, j \in DOMAIN new : i < j => at[i] < at[j]
        /\ \A k \in DOMAIN list : list[k] \notin R => \E i \in DOMAIN new : at[i] = k
  BY WithoutPositions
<1>2. new \in Seq(S)
  BY WithoutType
<1> HIDE DEF new
<1>3. /\ DOMAIN new \subseteq Nat /\ DOMAIN list \subseteq Nat
      /\ \A i, j \in DOMAIN new : at[i] < at[j] => i < j
  <2>1. DOMAIN new = 1..Len(new) /\ DOMAIN list = 1..Len(list)
    BY <1>2
  <2>2. ASSUME NEW i \in DOMAIN new, NEW j \in DOMAIN new, at[i] < at[j], ~(i < j)
        PROVE  FALSE
    <3>1. CASE i = j
      BY <1>1, <2>1, <2>2, <3>1
    <3>2. CASE j < i
      <4>1. at[j] < at[i] /\ at[i] \in Nat /\ at[j] \in Nat
        BY <1>1, <2>1, <3>2
      <4> QED BY <2>2, <4>1
    <3> QED BY <2>1, <2>2, <3>1, <3>2
  <2> QED BY <2>1, <2>2
<1>4. ASSUME Precedes(new, a, b)
      PROVE  Precedes(list, a, b) /\ a \notin R /\ b \notin R
  <2>1. PICK i, j \in DOMAIN new : i < j /\ new[i] = a /\ new[j] = b
    BY <1>4 DEF Precedes
  <2>2. at[i] \in DOMAIN list /\ at[j] \in DOMAIN list /\ at[i] < at[j]
    BY <1>1, <2>1
  <2> QED BY <1>1, <2>1, <2>2 DEF Precedes
<1>5. ASSUME Precedes(list, a, b), a \notin R, b \notin R
      PROVE  Precedes(new, a, b)
  <2>1. PICK k, l \in DOMAIN list : k < l /\ list[k] = a /\ list[l] = b
    BY <1>5 DEF Precedes
  <2>2. PICK i \in DOMAIN new : at[i] = k
    BY <1>1, <1>5, <2>1
  <2>3. PICK j \in DOMAIN new : at[j] = l
    BY <1>1, <1>5, <2>1
  <2>4. i < j /\ new[i] = a /\ new[j] = b
    BY <1>1, <1>3, <2>1, <2>2, <2>3
  <2> QED BY <2>4 DEF Precedes
<1> QED BY <1>4, <1>5 DEF new

(* Erasing twice. *)
LEMMA WithoutTwice ==
  ASSUME NEW S, NEW list \in Seq(S), Unrepeated(list), NEW A, NEW B
  PROVE  Without(Without(list, A), B) = Without(list, A \cup B)
<1> DEFINE once  == Without(list, A)
           twice == Without(once, B)
           both  == Without(list, A \cup B)
<1>1. once \in Seq(S) /\ Unrepeated(once) /\ ToSet(once) = ToSet(list) \ A
  BY WithoutType, WithoutKeepsOrder, WithoutSet
<1>2. both \in Seq(S) /\ Unrepeated(both) /\ ToSet(both) = ToSet(list) \ (A \cup B)
  BY WithoutType, WithoutKeepsOrder, WithoutSet
<1>3. \A a, b : Precedes(once, a, b) <=> Precedes(list, a, b) /\ a \notin A /\ b \notin A
  BY WithoutPrecedes
<1>4. \A a, b : Precedes(both, a, b) <=>
                  Precedes(list, a, b) /\ a \notin A \cup B /\ b \notin A \cup B
  BY WithoutPrecedes
<1> HIDE DEF once, both
<1>5. twice \in Seq(S) /\ Unrepeated(twice) /\ ToSet(twice) = ToSet(once) \ B
  BY <1>1, WithoutType, WithoutKeepsOrder, WithoutSet
<1>6. \A a, b : Precedes(twice, a, b) <=> Precedes(once, a, b) /\ a \notin B /\ b \notin B
  BY <1>1, WithoutPrecedes
<1> HIDE DEF twice
<1>7. ToSet(twice) = ToSet(both)
  BY <1>1, <1>2, <1>5
<1>8. \A a, b : Precedes(twice, a, b) => Precedes(both, a, b)
  BY <1>3, <1>4, <1>6
<1>9. twice = both
  BY <1>2, <1>5, <1>7, <1>8, SameList
<1> QED BY <1>9 DEF twice, both, once

(* Only the nodes of the list count. *)
LEMMA WithoutSame ==
  ASSUME NEW list, NEW A, NEW B, \A n \in ToSet(list) : n \in A <=> n \in B
  PROVE  Without(list, A) = Without(list, B)
<1>1. {i \in DOMAIN list : list[i] \notin A} = {i \in DOMAIN list : list[i] \notin B}
  BY DEF ToSet
<1> QED BY <1>1 DEF Without

LEMMA WithoutNone ==
  ASSUME NEW S, NEW R
  PROVE  Without(<< >>, R) = << >>
<1>1. << >> \in Seq(S)
  OBVIOUS
<1>2. ToSet(Without(<< >>, R)) = ToSet(<< >>) \ R /\ Without(<< >>, R) \in Seq(S)
  BY <1>1, WithoutSet, WithoutType
<1>3. ToSet(<< >>) = {}
  BY DEF ToSet
<1> HIDE DEF ToSet
<1> PICK new \in Seq(S) : new = Without(<< >>, R)
  BY <1>2
<1>4. DOMAIN new = {}
  BY <1>2, <1>3 DEF ToSet
<1> QED BY <1>4

(* The rest of a list from a position on, as an invocation has it before it. *)
Rest(list, i) == SubSeq(list, i, Len(list))

LEMMA RestElements ==
  ASSUME NEW S, NEW list \in Seq(S), NEW i \in 1..Len(list) + 1
  PROVE  /\ Rest(list, i) \in Seq(S)
         /\ DOMAIN Rest(list, i) = 1..Len(list) - i + 1
         /\ \A j \in 1..Len(list) - i + 1 : Rest(list, i)[j] = list[i + j - 1]
<1>1. Len(list) \in Nat /\ DOMAIN list = 1..Len(list)
  OBVIOUS
<1>2. \A k \in i..Len(list) : list[k] \in S
  BY <1>1
<1> QED BY <1>1, <1>2 DEF Rest

LEMMA RestUnrepeated ==
  ASSUME NEW S, NEW list \in Seq(S), NEW i \in 1..Len(list) + 1
  PROVE  /\ ToSet(Rest(list, i)) = {list[j] : j \in i..Len(list)}
         /\ ToSet(Rest(list, i)) \subseteq ToSet(list)
         /\ Unrepeated(list) => Unrepeated(Rest(list, i))
<1> DEFINE rest == Rest(list, i)
<1>1. /\ DOMAIN rest = 1..Len(list) - i + 1
      /\ \A j \in DOMAIN rest : rest[j] = list[i + j - 1]
  BY RestElements
<1>2. Len(list) \in Nat /\ DOMAIN list = 1..Len(list)
  OBVIOUS
<1> HIDE DEF rest
<1>3. ASSUME NEW j \in i..Len(list)
      PROVE  j - i + 1 \in DOMAIN rest /\ rest[j - i + 1] = list[j]
  <2>1. j - i + 1 \in 1..Len(list) - i + 1 /\ i + (j - i + 1) - 1 = j
    BY <1>2
  <2> QED BY <1>1, <2>1
<1>4. ASSUME NEW j \in DOMAIN rest
      PROVE  i + j - 1 \in i..Len(list) /\ rest[j] = list[i + j - 1]
  BY <1>1, <1>2
<1>5. ToSet(rest) = {list[j] : j \in i..Len(list)}
  <2>1. \A j \in i..Len(list) : list[j] \in ToSet(rest)
    BY <1>3 DEF ToSet
  <2>2. \A j \in DOMAIN rest : rest[j] \in {list[k] : k \in i..Len(list)}
    BY <1>4
  <2> QED BY <2>1, <2>2 DEF ToSet
<1>6. ToSet(rest) \subseteq ToSet(list)
  <2>1. \A j \in i..Len(list) : j \in DOMAIN list
    BY <1>2
  <2>2. \A j \in i..Len(list) : list[j] \in ToSet(list)
    BY <2>1 DEF ToSet
  <2> QED BY <1>5, <2>2
<1>7. Unrepeated(list) => Unrepeated(rest)
  BY <1>1, <1>2 DEF Unrepeated
<1> QED BY <1>5, <1>6, <1>7 DEF rest

(* A list that begins with n. *)
LEMMA ListWithHead ==
  ASSUME NEW S, NEW n \in S, NEW list \in Seq(S)
  PROVE  LET new == <<n>> \o list
         IN  /\ new \in Seq(S) /\ new # << >> /\ Head(new) = n /\ Tail(new) = list
             /\ DOMAIN new = 1..Len(list) + 1
             /\ \A i \in 1..Len(list) + 1 : new[i] = IF i = 1 THEN n ELSE list[i - 1]
OBVIOUS

LEMMA HeadPrecedes ==
  ASSUME NEW S, NEW n \in S, NEW list \in Seq(S)
  PROVE  /\ ToSet(<<n>> \o list) = {n} \cup ToSet(list)
         /\ Unrepeated(list) /\ n \notin ToSet(list) => Unrepeated(<<n>> \o list)
         /\ \A a, b : Precedes(list, a, b) => Precedes(<<n>> \o list, a, b)
         /\ \A b \in ToSet(list) : Precedes(<<n>> \o list, n, b)
<1> DEFINE new == <<n>> \o list
<1>1. /\ DOMAIN new = 1..Len(list) + 1
      /\ \A i \in 1..Len(list) + 1 : new[i] = IF i = 1 THEN n ELSE list[i - 1]
  BY ListWithHead
<1>2. Len(list) \in Nat /\ DOMAIN list = 1..Len(list)
  OBVIOUS
<1> HIDE DEF new
<1>3. 1 \in DOMAIN new /\ new[1] = n
  BY <1>1, <1>2
<1>4. ASSUME NEW i \in DOMAIN list
      PROVE  i + 1 \in DOMAIN new /\ 1 < i + 1 /\ new[i + 1] = list[i]
  BY <1>1, <1>2
<1>5. ToSet(new) = {n} \cup ToSet(list)
  <2>1. \A i \in DOMAIN new : new[i] \in {n} \cup ToSet(list)
    BY <1>1, <1>2 DEF ToSet
  <2> QED BY <1>3, <1>4, <2>1 DEF ToSet
<1>6. ASSUME Unrepeated(list), n \notin ToSet(list) PROVE Unrepeated(new)
  <2>1. \A i \in DOMAIN list : list[i] # n
    BY <1>6 DEF ToSet
  <2>2. \A i, j \in DOMAIN list : i < j => list[i] # list[j]
    BY <1>6 DEF Unrepeated
  <2> SUFFICES ASSUME NEW i \in DOMAIN new, NEW j \in DOMAIN new, i < j
               PROVE  new[i] # new[j]
    BY DEF Unrepeated
  <2>3. j - 1 \in DOMAIN list /\ new[j] = list[j - 1]
    BY <1>1, <1>2
  <2>4. CASE i = 1
    BY <1>3, <2>1, <2>3, <2>4
  <2>5. CASE i # 1
    <3>1. i - 1 \in DOMAIN list /\ new[i] = list[i - 1] /\ i - 1 < j - 1
      BY <1>1, <1>2, <2>5
    <3> QED BY <2>2, <2>3, <3>1
  <2> QED BY <2>4, <2>5
<1>7. ASSUME NEW a, NEW b, Precedes(list, a, b) PROVE Precedes(new, a, b)
  <2>1. PICK i, j \in DOMAIN list : i < j /\ list[i] = a /\ list[j] = b
    BY <1>7 DEF Precedes
  <2>2. i + 1 < j + 1
    BY <1>2, <2>1
  <2>3. /\ i + 1 \in DOMAIN new /\ new[i + 1] = a
        /\ j + 1 \in DOMAIN new /\ new[j + 1] = b
    BY <1>4, <2>1
  <2> QED BY <2>2, <2>3 DEF Precedes
<1>8. ASSUME NEW b \in ToSet(list) PROVE Precedes(new, n, b)
  <2>1. PICK i \in DOMAIN list : list[i] = b
    BY DEF ToSet
  <2>2. i + 1 \in DOMAIN new /\ 1 < i + 1 /\ new[i + 1] = b
    BY <1>4, <2>1
  <2> QED BY <1>3, <2>2 DEF Precedes
<1> QED BY <1>5, <1>6, <1>7, <1>8 DEF new

(* What an invocation has before it when it has passed one node more: without *)
(* the nodes of R nothing changes if the node is one of them, and otherwise  *)
(* the node was the first.                                                   *)
LEMMA RestStep ==
  ASSUME NEW S, NEW list \in Seq(S), Unrepeated(list), NEW i \in DOMAIN list, NEW R
  PROVE  LET this == Without(Rest(list, i), R)
             next == Without(Rest(list, i + 1), R)
         IN  /\ next \in Seq(S)
             /\ list[i] \in R => this = next
             /\ list[i] \notin R => this = <<list[i]>> \o next
<1> DEFINE n    == list[i]
           one  == Rest(list, i)
           two  == Rest(list, i + 1)
           this == Without(one, R)
           next == Without(two, R)
           new  == <<n>> \o next
<1>1. Len(list) \in Nat /\ DOMAIN list = 1..Len(list) /\ n \in S
  OBVIOUS
<1>2. i \in 1..Len(list) + 1 /\ i + 1 \in 1..Len(list) + 1
  BY <1>1
<1>3. /\ one \in Seq(S) /\ Unrepeated(one) /\ ToSet(one) = {list[j] : j \in i..Len(list)}
      /\ DOMAIN one = 1..Len(list) - i + 1
      /\ \A j \in 1..Len(list) - i + 1 : one[j] = list[i + j - 1]
  BY <1>2, RestElements, RestUnrepeated
<1>4. /\ two \in Seq(S) /\ Unrepeated(two)
      /\ ToSet(two) = {list[j] : j \in i + 1..Len(list)}
      /\ DOMAIN two = 1..Len(list) - (i + 1) + 1
      /\ \A j \in 1..Len(list) - (i + 1) + 1 : two[j] = list[i + 1 + j - 1]
  BY <1>2, RestElements, RestUnrepeated
<1>5. ToSet(one) = {n} \cup ToSet(two) /\ n \notin ToSet(two)
  <2>1. \A j : j \in i..Len(list) <=> j = i \/ j \in i + 1..Len(list)
    BY <1>1
  <2>2. \A j \in i + 1..Len(list) : list[j] # n
    BY <1>1 DEF Unrepeated
  <2> HIDE DEF one, two
  <2> QED BY <1>3, <1>4, <2>1, <2>2
<1>6. \A a, b : Precedes(one, a, b) => b \in ToSet(two) /\ (a = n \/ Precedes(two, a, b))
  <2> SUFFICES ASSUME NEW a, NEW b, Precedes(one, a, b)
               PROVE  b \in ToSet(two) /\ (a = n \/ Precedes(two, a, b))
    OBVIOUS
  <2>1. PICK k, l \in DOMAIN one : k < l /\ one[k] = a /\ one[l] = b
    BY DEF Precedes
  <2>2. l - 1 \in DOMAIN two /\ two[l - 1] = b
    <3>1. /\ l \in 1..Len(list) - i + 1 /\ l - 1 \in 1..Len(list) - (i + 1) + 1
          /\ i + l - 1 = i + 1 + (l - 1) - 1
      BY <1>1, <1>3, <2>1
    <3> QED BY <1>3, <1>4, <2>1, <3>1
  <2>3. b \in ToSet(two)
    BY <2>2 DEF ToSet
  <2>4. CASE k = 1
    <3>1. 1 \in 1..Len(list) - i + 1 /\ i + 1 - 1 = i
      BY <1>1
    <3>2. one[1] = n
      BY <1>3, <3>1
    <3> QED BY <2>1, <2>3, <2>4, <3>2
  <2>5. CASE k # 1
    <3>1. k - 1 \in DOMAIN two /\ two[k - 1] = a /\ k - 1 < l - 1
      <4>1. /\ k \in 1..Len(list) - i + 1 /\ k - 1 \in 1..Len(list) - (i + 1) + 1
            /\ i + k - 1 = i + 1 + (k - 1) - 1 /\ k - 1 < l - 1
        <5>1. /\ k \in 1..Len(list) - i + 1 /\ l \in 1..Len(list) - i + 1
              /\ k < l /\ k # 1 /\ i \in Nat /\ Len(list) \in Nat
          BY <1>1, <1>3, <2>1, <2>5
        <5>2. k - 1 < l - 1 /\ i + k - 1 = i + 1 + (k - 1) - 1
          BY <5>1
        <5>3. k - 1 \in 1..Len(list) - (i + 1) + 1
          BY <5>1
        <5> QED BY <5>1, <5>2, <5>3
      <4> QED BY <1>3, <1>4, <2>1, <4>1
    <3> QED BY <2>2, <2>3, <3>1 DEF Precedes
  <2> QED BY <2>4, <2>5
<1> HIDE DEF one, two
<1>7. /\ this \in Seq(S) /\ Unrepeated(this) /\ ToSet(this) = ToSet(one) \ R
      /\ \A a, b : Precedes(this, a, b) <=> Precedes(one, a, b) /\ a \notin R /\ b \notin R
  BY <1>3, WithoutType, WithoutKeepsOrder, WithoutSet, WithoutPrecedes
<1>8. /\ next \in Seq(S) /\ Unrepeated(next) /\ ToSet(next) = ToSet(two) \ R
      /\ \A a, b : Precedes(next, a, b) <=> Precedes(two, a, b) /\ a \notin R /\ b \notin R
  BY <1>4, WithoutType, WithoutKeepsOrder, WithoutSet, WithoutPrecedes
<1> HIDE DEF this, next, n
<1>9. ASSUME n \in R PROVE this = next
  <2>1. ToSet(this) = ToSet(next)
    BY <1>5, <1>7, <1>8, <1>9
  <2>2. \A a, b : Precedes(this, a, b) => Precedes(next, a, b)
    BY <1>6, <1>7, <1>8, <1>9
  <2> QED BY <1>7, <1>8, <2>1, <2>2, SameList
<1>10. ASSUME n \notin R PROVE this = new
  <2>1. /\ new \in Seq(S) /\ Unrepeated(new) /\ ToSet(new) = {n} \cup ToSet(next)
        /\ \A a, b : Precedes(next, a, b) => Precedes(new, a, b)
        /\ \A b \in ToSet(next) : Precedes(new, n, b)
    BY <1>1, <1>5, <1>8, HeadPrecedes, ListWithHead
  <2> HIDE DEF new
  <2>2. ToSet(this) = ToSet(new)
    BY <1>5, <1>7, <1>8, <1>10, <2>1
  <2>3. \A a, b : Precedes(this, a, b) => Precedes(new, a, b)
    BY <1>6, <1>7, <1>8, <2>1
  <2> QED BY <1>7, <2>1, <2>2, <2>3, SameList
<1> QED BY <1>8, <1>9, <1>10 DEF this, next, one, two, n

(* Where a new node stands among the nodes of a sorted list: the comparison  *)
(* of keys and the position of connect decide, not the list.                 *)
EntersBefore(keyOf, n, position, b) ==
    IF position = "at_back" THEN KeyLess(keyOf[n], keyOf[b]) ELSE ~KeyLess(keyOf[b], keyOf[n])

LEMMA PlaceEntersBefore ==
  ASSUME NEW S, NEW list \in Seq(S), NEW keyOf \in [S -> GroupKeys], NEW n \in S,
         Sorted(list, keyOf), NEW position, NEW i \in 0..Len(list),
         Place(list, keyOf, n, position, i), NEW j \in DOMAIN list
  PROVE  EntersBefore(keyOf, n, position, list[j]) <=> i < j
<1>1. /\ Len(list) \in Nat /\ DOMAIN list = 1..Len(list) /\ i \in Nat /\ j \in Nat
      /\ \A k \in DOMAIN list : list[k] \in S /\ keyOf[list[k]] \in GroupKeys
      /\ keyOf[n] \in GroupKeys
  OBVIOUS
<1>2. CASE j <= i
  <2>1. j \in 1..i
    BY <1>1, <1>2
  <2> QED BY <1>1, <1>2, <2>1 DEF Place, EntersBefore
<1>3. CASE i < j
  <2>1. i < Len(list) /\ i + 1 \in DOMAIN list
    BY <1>1, <1>3
  <2>2. ~KeyLess(keyOf[list[j]], keyOf[list[i + 1]])
    <3>1. CASE j = i + 1
      BY <1>1, <3>1, KeyLessWeakOrder
    <3>2. CASE i + 1 < j
      BY <2>1, <3>2 DEF Sorted
    <3> QED BY <1>1, <1>3, <3>1, <3>2
  <2>3. /\ keyOf[list[j]] \in GroupKeys /\ keyOf[list[i + 1]] \in GroupKeys
    BY <1>1, <2>1
  <2>4. CASE position = "at_back"
    <3>1. KeyLess(keyOf[n], keyOf[list[i + 1]])
      BY <2>1, <2>4 DEF Place
    <3>2. KeyLess(keyOf[n], keyOf[list[j]])
      BY <1>1, <2>2, <2>3, <3>1, KeyLessWeakOrder
    <3> QED BY <1>3, <2>4, <3>2 DEF EntersBefore
  <2>5. CASE position # "at_back"
    <3>1. ~KeyLess(keyOf[list[i + 1]], keyOf[n])
      BY <2>1, <2>5 DEF Place
    <3>2. ~KeyLess(keyOf[list[j]], keyOf[n])
      BY <1>1, <2>2, <2>3, <3>1, KeyLessWeakOrder
    <3> QED BY <1>3, <2>5, <3>2 DEF EntersBefore
  <2> QED BY <2>4, <2>5
<1> QED BY <1>1, <1>2, <1>3

LEMMA InsertedPrecedes ==
  ASSUME NEW S, NEW list \in Seq(S), NEW keyOf \in [S -> GroupKeys], NEW n \in S,
         Sorted(list, keyOf), NEW position,
         NEW a \in ToSet(list), NEW b \in ToSet(list)
  PROVE  LET new == Inserted(list, keyOf, n, position)
         IN  /\ Precedes(list, a, b) => Precedes(new, a, b)
             /\ EntersBefore(keyOf, n, position, b) => Precedes(new, n, b)
             /\ ~EntersBefore(keyOf, n, position, b) => Precedes(new, b, n)
<1> DEFINE new == Inserted(list, keyOf, n, position)
<1>1. PICK i \in 0..Len(list) :
        Entered(new, list, n, i) /\ Place(list, keyOf, n, position, i)
  BY InsertedPlace
<1>2. /\ DOMAIN new = 1..Len(list) + 1
      /\ \A j \in DOMAIN new :
            new[j] = IF j <= i THEN list[j] ELSE IF j = i + 1 THEN n ELSE list[j - 1]
  BY <1>1 DEF Entered
<1> HIDE DEF new
<1>3. Len(list) \in Nat /\ DOMAIN list = 1..Len(list) /\ i \in Nat /\ i <= Len(list)
  OBVIOUS
<1> DEFINE to(j) == IF j <= i THEN j ELSE j + 1
<1>4. ASSUME NEW j \in DOMAIN list
      PROVE  to(j) \in DOMAIN new /\ new[to(j)] = list[j]
  BY <1>2, <1>3
<1>5. i + 1 \in DOMAIN new /\ new[i + 1] = n
  BY <1>2, <1>3
<1>6. ASSUME Precedes(list, a, b) PROVE Precedes(new, a, b)
  <2>1. PICK j, k \in DOMAIN list : j < k /\ list[j] = a /\ list[k] = b
    BY <1>6 DEF Precedes
  <2>2. to(j) < to(k)
    BY <1>3, <2>1
  <2> HIDE DEF to
  <2> QED BY <1>4, <2>1, <2>2 DEF Precedes
<1>7. PICK j \in DOMAIN list : list[j] = b
  BY DEF ToSet
<1>8. EntersBefore(keyOf, n, position, b) <=> i < j
  BY <1>1, <1>7, PlaceEntersBefore
<1>9. IF i < j THEN i + 1 < to(j) ELSE to(j) < i + 1
  BY <1>3, <1>7
<1> HIDE DEF to
<1>10. IF i < j THEN Precedes(new, n, b) ELSE Precedes(new, b, n)
  BY <1>4, <1>5, <1>7, <1>9 DEF Precedes
<1> QED BY <1>6, <1>8, <1>10 DEF new

(* A node enters a list in the same place, whether nodes are erased before   *)
(* or after.                                                                 *)
LEMMA WithoutInserted ==
  ASSUME NEW S, NEW list \in Seq(S), NEW keyOf \in [S -> GroupKeys], NEW n \in S,
         Unrepeated(list), Sorted(list, keyOf), n \notin ToSet(list), NEW position,
         NEW R, n \notin R
  PROVE  Without(Inserted(list, keyOf, n, position), R) =
         Inserted(Without(list, R), keyOf, n, position)
<1> DEFINE less == Without(list, R)
           long == Inserted(list, keyOf, n, position)
           one  == Without(long, R)
           two  == Inserted(less, keyOf, n, position)
<1>1. /\ less \in Seq(S) /\ Unrepeated(less) /\ Sorted(less, keyOf)
      /\ ToSet(less) = ToSet(list) \ R
      /\ \A a, b : Precedes(less, a, b) <=> Precedes(list, a, b) /\ a \notin R /\ b \notin R
  BY WithoutType, WithoutKeepsOrder, WithoutSet, WithoutPrecedes
<1>2. /\ long \in Seq(S) /\ Unrepeated(long) /\ ToSet(long) = ToSet(list) \cup {n}
  BY InsertedType, InsertedSet
<1>3. \A a, b \in ToSet(list) :
        /\ Precedes(list, a, b) => Precedes(long, a, b)
        /\ EntersBefore(keyOf, n, position, b) => Precedes(long, n, b)
        /\ ~EntersBefore(keyOf, n, position, b) => Precedes(long, b, n)
  BY InsertedPrecedes
<1> HIDE DEF less, long
<1>4. /\ one \in Seq(S) /\ Unrepeated(one) /\ ToSet(one) = ToSet(long) \ R
      /\ \A a, b : Precedes(one, a, b) <=> Precedes(long, a, b) /\ a \notin R /\ b \notin R
  BY <1>2, WithoutType, WithoutKeepsOrder, WithoutSet, WithoutPrecedes
<1>5. n \notin ToSet(less)
  BY <1>1
<1>6. /\ two \in Seq(S) /\ Unrepeated(two) /\ ToSet(two) = ToSet(less) \cup {n}
  BY <1>1, <1>5, InsertedType, InsertedSet
<1>7. \A a, b \in ToSet(less) :
        /\ Precedes(less, a, b) => Precedes(two, a, b)
        /\ EntersBefore(keyOf, n, position, b) => Precedes(two, n, b)
        /\ ~EntersBefore(keyOf, n, position, b) => Precedes(two, b, n)
  BY <1>1, InsertedPrecedes
<1> HIDE DEF one, two
<1>8. ToSet(one) = ToSet(two)
  BY <1>1, <1>2, <1>4, <1>6
<1>9. ASSUME NEW a, NEW b, Precedes(one, a, b) PROVE Precedes(two, a, b)
  <2>1. /\ Precedes(long, a, b) /\ a \notin R /\ b \notin R
        /\ a \in ToSet(long) /\ b \in ToSet(long)
    BY <1>4, <1>9, PrecedesElements
  <2>2. a # b
    <3>1. PICK i, j \in DOMAIN long : i < j /\ long[i] = a /\ long[j] = b
      BY <2>1 DEF Precedes
    <3> QED BY <1>2, <3>1 DEF Unrepeated
  <2>3. ~Precedes(long, b, a)
    BY <1>2, <2>1, <2>2, PrecedesTotal
  <2>4. CASE a = n
    <3>1. b \in ToSet(less) /\ b \in ToSet(list)
      BY <1>1, <1>2, <2>1, <2>2, <2>4
    <3>2. EntersBefore(keyOf, n, position, b)
      BY <1>3, <2>3, <2>4, <3>1
    <3> QED BY <1>7, <2>4, <3>1, <3>2
  <2>5. CASE b = n
    <3>1. a \in ToSet(less) /\ a \in ToSet(list)
      BY <1>1, <1>2, <2>1, <2>2, <2>5
    <3>2. ~EntersBefore(keyOf, n, position, a)
      BY <1>3, <2>3, <2>5, <3>1
    <3> QED BY <1>7, <2>5, <3>1, <3>2
  <2>6. CASE a # n /\ b # n
    <3>1. /\ a \in ToSet(less) /\ a \in ToSet(list)
          /\ b \in ToSet(less) /\ b \in ToSet(list)
      BY <1>1, <1>2, <2>1, <2>6
    <3>2. Precedes(list, a, b)
      BY <1>3, <2>2, <2>3, <3>1, PrecedesTotal
    <3> QED BY <1>1, <1>7, <2>1, <3>1, <3>2
  <2> QED BY <2>4, <2>5, <2>6
<1>10. one = two
  BY <1>4, <1>6, <1>8, <1>9, SameList
<1> QED BY <1>10 DEF one, two, long, less
=============================================================================
