-------------------------- MODULE AutoBufferProofs --------------------------
(* The buffers of AutoBuffer are sequences.  In every state of it there is a *)
(* sequence for each buffer that its memory holds element by element, raw    *)
(* behind the last one, in a block that no other buffer has (State).  Each   *)
(* operation leads to such a state again, wherever it throws, and what it    *)
(* does to the sequences is a step of BufferContents (Goes).                 *)
EXTENDS AutoBuffer, SequenceTheorems, FiniteSetTheorems, TLAPS

-----------------------------------------------------------------------------
(* Cells of memory that hold the elements of a sequence, and are raw beyond. *)

Values == Elems \cup {Default}

Cells(c, s) == [k \in 0..c - 1 |-> IF k < Len(s) THEN s[k + 1] ELSE Raw]

(* The part of a sequence from behind element i up to j. *)
LEMMA PartElements ==
  ASSUME NEW S, NEW t \in Seq(S), NEW i \in 0..Len(t), NEW j \in i..Len(t)
  PROVE  /\ Part(t, i, j) \in Seq(S) /\ Len(Part(t, i, j)) = j - i
         /\ \A k \in 1..j - i : Part(t, i, j)[k] = t[i + k]
<1> DEFINE l == Len(t)
<1>1. l \in Nat /\ i \in Nat /\ j \in Nat /\ i <= j /\ j <= l
  OBVIOUS
<1>2. \A k \in 1..l : t[k] \in S
  OBVIOUS
<1> DEFINE p == SubSeq(t, i + 1, j)
<1>3. p = [k \in 1..j - i |-> t[i + k]]
  BY <1>1
<1> HIDE DEF p, l
<1>4. \A k \in 1..j - i : i + k \in 1..l
  BY <1>1
<1>5. p \in Seq(S) /\ Len(p) = j - i /\ \A k \in 1..j - i : p[k] = t[i + k]
  BY <1>1, <1>2, <1>3, <1>4
<1> QED BY <1>5 DEF p, Part

LEMMA FirstElements ==
  ASSUME NEW S, NEW t \in Seq(S), NEW j \in 0..Len(t)
  PROVE  /\ SubSeq(t, 1, j) \in Seq(S) /\ Len(SubSeq(t, 1, j)) = j
         /\ \A k \in 1..j : SubSeq(t, 1, j)[k] = t[k]
<1>1. 0 \in 0..Len(t) /\ j \in 0..Len(t) /\ j - 0 = j /\ 0 + 1 = 1
  OBVIOUS
<1>2. Part(t, 0, j) = SubSeq(t, 1, j)
  BY DEF Part
<1>3. /\ Part(t, 0, j) \in Seq(S) /\ Len(Part(t, 0, j)) = j - 0
      /\ \A k \in 1..j - 0 : Part(t, 0, j)[k] = t[0 + k]
  BY <1>1, PartElements
<1>4. \A k \in 1..j : 0 + k = k
  OBVIOUS
<1> QED BY <1>1, <1>2, <1>3, <1>4

LEMMA ValuesGood == \A e \in Values : Good(e) /\ e # Raw
BY BufferAssumption DEF Values, Good

LEMMA CellsElements ==
  ASSUME NEW c, NEW s
  PROVE  /\ DOMAIN Cells(c, s) = 0..c - 1
         /\ \A k \in 0..c - 1 : Cells(c, s)[k] = IF k < Len(s) THEN s[k + 1] ELSE Raw
BY DEF Cells

LEMMA RawCellsAre ==
  ASSUME NEW c \in Nat
  PROVE  RawCells(c) = Cells(c, << >>)
BY DEF RawCells, Cells

(* Copies constructed behind what there is. *)
LEMMA BuiltCells ==
  ASSUME NEW m, NEW b \in DOMAIN m, NEW c \in Nat,
         NEW t \in Seq(Values), NEW s \in Seq(Values),
         m[b] = Cells(c, t), Len(t) + Len(s) <= c
  PROVE  Built(m, b, Len(t), s) = [m EXCEPT ![b] = Cells(c, t \o s)]
<1> DEFINE from == Len(t)
           n == Len(s)
           old == m[b]
           new == [k \in DOMAIN old |->
                     IF k < from \/ k >= from + n THEN old[k]
                     ELSE IF old[k] = Raw /\ Good(s[k - from + 1]) THEN s[k - from + 1]
                     ELSE Bad]
           u == t \o s
<1>1. from \in Nat /\ n \in Nat
  OBVIOUS
<1>2. DOMAIN old = 0..c - 1 /\ \A k \in 0..c - 1 : old[k] = IF k < from THEN t[k + 1] ELSE Raw
  BY CellsElements
<1>3. /\ Len(u) = from + n /\ \A i \in 1..from : u[i] = t[i]
      /\ \A i \in from + 1..from + n : u[i] = s[i - from]
  BY ConcatProperties
<1>4. \A i \in 1..n : Good(s[i])
  BY ValuesGood
<1> HIDE DEF old, u, from, n
<1>5. \A k \in 0..c - 1 : new[k] = IF k < from + n THEN u[k + 1] ELSE Raw
  <2> TAKE k \in 0..c - 1
  <2>1. CASE k < from
    <3>1. k + 1 \in 1..from /\ k < from + n
      BY <1>1, <2>1
    <3> QED BY <1>2, <1>3, <2>1, <3>1
  <2>2. CASE from <= k /\ k < from + n
    <3>1. k + 1 \in from + 1..from + n /\ (k + 1) - from = k - from + 1
          /\ k - from + 1 \in 1..n /\ ~(k < from) /\ ~(k >= from + n)
      BY <1>1, <2>2
    <3>2. old[k] = Raw
      BY <1>2, <3>1, Zenon
    <3>3. u[k + 1] = s[k - from + 1]
      <4>1. u[k + 1] = s[(k + 1) - from]
        BY <1>3, <3>1
      <4> QED BY <3>1, <4>1, Zenon
    <3>4. Good(s[k - from + 1])
      BY <1>4, <3>1
    <3>5. new[k] = s[k - from + 1]
      BY <1>2, <3>1, <3>2, <3>4
    <3> QED BY <2>2, <3>3, <3>5
  <2>3. CASE k >= from + n
    <3>1. ~(k < from) /\ ~(k < from + n)
      BY <1>1, <2>3
    <3> QED BY <1>2, <2>3, <3>1
  <2> QED BY <1>1, <2>1, <2>2, <2>3
<1>6. new = [k \in 0..c - 1 |-> IF k < from + n THEN u[k + 1] ELSE Raw]
  BY <1>2, <1>5
<1>7. Cells(c, u) = [k \in 0..c - 1 |-> IF k < from + n THEN u[k + 1] ELSE Raw]
  BY <1>3 DEF Cells
<1>8. Built(m, b, from, s) = [m EXCEPT ![b] = new]
  BY DEF Built, old, n
<1> QED BY <1>6, <1>7, <1>8 DEF u, from

(* The last n destroyed. *)
LEMMA DestroyedCells ==
  ASSUME NEW m, NEW b \in DOMAIN m, NEW c \in Nat, NEW t \in Seq(Values),
         NEW n \in 0..Len(t), m[b] = Cells(c, t)
  PROVE  Destroyed(m, b, Len(t) - n, n) = [m EXCEPT ![b] = Cells(c, SubSeq(t, 1, Len(t) - n))]
<1> DEFINE l == Len(t)
           from == l - n
           old == m[b]
           new == [k \in DOMAIN old |->
                     IF k < from \/ k >= from + n THEN old[k]
                     ELSE IF Good(old[k]) THEN Raw ELSE Bad]
           u == SubSeq(t, 1, from)
<1>1. from \in Nat /\ n \in Nat /\ l \in Nat /\ from + n = l /\ from <= l
  OBVIOUS
<1>2. DOMAIN old = 0..c - 1 /\ \A k \in 0..c - 1 : old[k] = IF k < l THEN t[k + 1] ELSE Raw
  BY CellsElements
<1>3. Len(u) = from /\ \A i \in 1..from : u[i] = t[i]
  <2> HIDE DEF from, l
  <2>1. from \in 0..Len(t)
    BY <1>1 DEF l
  <2> QED BY <2>1, FirstElements
<1>4. \A i \in 1..l : Good(t[i])
  BY ValuesGood
<1> HIDE DEF old, u, from, l
<1>5. \A k \in 0..c - 1 : new[k] = IF k < from THEN u[k + 1] ELSE Raw
  <2> TAKE k \in 0..c - 1
  <2>1. CASE k < from
    <3>1. k + 1 \in 1..from /\ k < l
      BY <1>1, <2>1
    <3> QED BY <1>2, <1>3, <2>1, <3>1
  <2>2. CASE from <= k /\ k < l
    <3>1. k + 1 \in 1..l /\ ~(k < from) /\ ~(k >= from + n)
      BY <1>1, <2>2
    <3> QED BY <1>2, <1>4, <2>2, <3>1
  <2>3. CASE k >= l
    <3>1. ~(k < from) /\ ~(k < l) /\ k >= from + n
      BY <1>1, <2>3
    <3> QED BY <1>2, <2>3, <3>1
  <2> QED BY <1>1, <2>1, <2>2, <2>3
<1>6. new = [k \in 0..c - 1 |-> IF k < from THEN u[k + 1] ELSE Raw]
  BY <1>2, <1>5
<1>7. Cells(c, u) = [k \in 0..c - 1 |-> IF k < from THEN u[k + 1] ELSE Raw]
  BY <1>3 DEF Cells
<1>8. Destroyed(m, b, from, n) = [m EXCEPT ![b] = new]
  BY DEF Destroyed, old
<1> QED BY <1>6, <1>7, <1>8 DEF u, from, l

(* The elements after the first i are those of s, as far as s goes. *)
Patched(t, i, s) ==
    [k \in 1..Len(t) |-> IF k <= i \/ k > i + Len(s) THEN t[k] ELSE s[k - i]]

LEMMA PatchedType ==
  ASSUME NEW S, NEW t \in Seq(S), NEW s \in Seq(S), NEW i \in Nat, i + Len(s) <= Len(t)
  PROVE  /\ Patched(t, i, s) \in Seq(S) /\ Len(Patched(t, i, s)) = Len(t)
         /\ \A k \in 1..Len(t) : Patched(t, i, s)[k] = IF k <= i \/ k > i + Len(s) THEN t[k] ELSE s[k - i]
<1> DEFINE p == Patched(t, i, s)
<1>1. \A k \in 1..Len(t) : (IF k <= i \/ k > i + Len(s) THEN t[k] ELSE s[k - i]) \in S
  OBVIOUS
<1>2. p \in [1..Len(t) -> S]
  BY <1>1 DEF Patched
<1>3. \A k \in 1..Len(t) : p[k] = IF k <= i \/ k > i + Len(s) THEN t[k] ELSE s[k - i]
  BY DEF Patched
<1> HIDE DEF p
<1>4. p \in Seq(S) /\ Len(p) = Len(t)
  BY <1>2
<1> QED BY <1>3, <1>4 DEF p

LEMMA AssignedCells ==
  ASSUME NEW m, NEW b \in DOMAIN m, NEW c \in Nat, NEW t \in Seq(Values),
         NEW s \in Seq(Values), NEW i \in Nat, i + Len(s) <= Len(t), m[b] = Cells(c, t)
  PROVE  Assigned(m, b, i, s) = [m EXCEPT ![b] = Cells(c, Patched(t, i, s))]
<1> DEFINE l == Len(t)
           n == Len(s)
           old == m[b]
           new == [k \in DOMAIN old |->
                     IF k < i \/ k >= i + n THEN old[k]
                     ELSE IF Good(old[k]) /\ Good(s[k - i + 1]) THEN s[k - i + 1]
                     ELSE Bad]
           u == Patched(t, i, s)
<1>1. n \in Nat /\ l \in Nat /\ i + n <= l
  OBVIOUS
<1>2. DOMAIN old = 0..c - 1 /\ \A k \in 0..c - 1 : old[k] = IF k < l THEN t[k + 1] ELSE Raw
  BY CellsElements
<1>3. Len(u) = l /\ \A k \in 1..l : u[k] = IF k <= i \/ k > i + n THEN t[k] ELSE s[k - i]
  BY PatchedType
<1>4. (\A k \in 1..l : Good(t[k])) /\ \A k \in 1..n : Good(s[k])
  BY ValuesGood
<1> HIDE DEF old, u, l, n
<1>5. \A k \in 0..c - 1 : new[k] = IF k < l THEN u[k + 1] ELSE Raw
  <2> TAKE k \in 0..c - 1
  <2>1. CASE k < i
    <3>1. k + 1 \in 1..l /\ k < l /\ k + 1 <= i
      BY <1>1, <2>1
    <3> QED BY <1>2, <1>3, <2>1, <3>1
  <2>2. CASE i <= k /\ k < i + n
    <3>1. k + 1 \in 1..l /\ ~(k + 1 <= i) /\ ~(k + 1 > i + n) /\ ~(k < i) /\ ~(k >= i + n)
          /\ k < l /\ k - i + 1 \in 1..n /\ (k + 1) - i = k - i + 1
      BY <1>1, <2>2
    <3> QED BY <1>2, <1>3, <1>4, <2>2, <3>1
  <2>3. CASE i + n <= k /\ k < l
    <3>1. k + 1 \in 1..l /\ k + 1 > i + n /\ k >= i + n
      BY <1>1, <2>3
    <3> QED BY <1>2, <1>3, <2>3, <3>1
  <2>4. CASE k >= l
    <3>1. ~(k < l) /\ k >= i + n
      BY <1>1, <2>4
    <3> QED BY <1>2, <2>4, <3>1
  <2> QED BY <1>1, <2>1, <2>2, <2>3, <2>4
<1>6. new = [k \in 0..c - 1 |-> IF k < l THEN u[k + 1] ELSE Raw]
  BY <1>2, <1>5
<1>7. Cells(c, u) = [k \in 0..c - 1 |-> IF k < l THEN u[k + 1] ELSE Raw]
  BY <1>3 DEF Cells
<1>8. Assigned(m, b, i, s) = [m EXCEPT ![b] = new]
  BY DEF Assigned, old, n
<1> QED BY <1>6, <1>7, <1>8 DEF u

(* What is read is what the cells hold. *)
LEMMA ReadCells ==
  ASSUME NEW m, NEW b, NEW c \in Nat, NEW t \in Seq(Values), Len(t) <= c, m[b] = Cells(c, t)
  PROVE  Read(m, b, 0, Len(t)) = t
<1> DEFINE l == Len(t)
           old == m[b]
<1>1. l \in Nat /\ l <= c
  OBVIOUS
<1>2. \A k \in 0..c - 1 : old[k] = IF k < l THEN t[k + 1] ELSE Raw
  BY CellsElements
<1> HIDE DEF old
<1>3. \A k \in 1..l : old[0 + k - 1] = t[k]
  <2> TAKE k \in 1..l
  <2>1. 0 + k - 1 \in 0..c - 1 /\ 0 + k - 1 < l /\ 0 + k - 1 + 1 = k
    BY <1>1
  <2> QED BY <1>2, <2>1
<1>4. Read(m, b, 0, l) = [k \in 1..l |-> old[0 + k - 1]]
  BY DEF Read, old
<1>5. t = [k \in 1..l |-> t[k]]
  OBVIOUS
<1> QED BY <1>3, <1>4, <1>5

-----------------------------------------------------------------------------
(* The buffers b hold the sequences S, which the memory m stores. *)

Records == [at : Blocks \cup Buffers \cup {None}, cap : Nat, size : Nat]
InUse(b) == {x \in Buffers : b[x] # None}

Fits(x, r, s) ==
    /\ r \in Records /\ r.at # None
    /\ s \in Seq(Values) /\ r.size = Len(s) /\ r.size <= r.cap
    /\ r.cap > N => r.at \in Blocks
    /\ r.cap <= N => r.cap = N /\ r.at = x

Holding(b, S) ==
    /\ b \in [Buffers -> Records \cup {None}]
    /\ S \in [Buffers -> Seq(Values)]
    /\ \A x \in InUse(b) : Fits(x, b[x], S[x])
    /\ \A x \in Buffers \ InUse(b) : S[x] = << >>
    /\ \A x, y \in InUse(b) : b[x].at = b[y].at => x = y

Stored(m, b, S) ==
    /\ DOMAIN m = Buffers \cup {b[x].at : x \in InUse(b)}
    /\ \A x \in InUse(b) : m[b[x].at] = Cells(b[x].cap, S[x])
    /\ \A x \in Buffers : (x \in InUse(b) => b[x].at # x) => m[x] = Cells(N, << >>)

State(m, b, S) == Holding(b, S) /\ Stored(m, b, S)

LEMMA Apart ==
  /\ None \notin Records /\ None \notin Buffers /\ None \notin Blocks
  /\ \A x \in Buffers : x \notin Blocks
  /\ None \notin Seq(Values) /\ N \in Nat
BY BufferAssumption DEF Records, Values

LEMMA FitsFacts ==
  ASSUME NEW x, NEW r, NEW s, Fits(x, r, s)
  PROVE  /\ r \in Records /\ r # None /\ r.at # None
         /\ r.size \in Nat /\ r.cap \in Nat /\ r.size = Len(s) /\ r.size <= r.cap
         /\ r.cap >= N /\ s \in Seq(Values)
         /\ r.cap > N => r.at \in Blocks
         /\ r.cap <= N => r.cap = N /\ r.at = x
BY Apart DEF Fits, Records

LEMMA InUseFacts ==
  ASSUME NEW m, NEW b, NEW S, State(m, b, S), NEW x \in InUse(b)
  PROVE  /\ x \in Buffers /\ b[x] # None /\ Fits(x, b[x], S[x])
         /\ b[x].at \in DOMAIN m /\ m[b[x].at] = Cells(b[x].cap, S[x])
BY DEF State, Holding, Stored, InUse

(* In use or not, what is at an address that another buffer has is not x's. *)
LEMMA Elsewhere ==
  ASSUME NEW m, NEW b, NEW S, State(m, b, S), NEW x \in InUse(b), NEW y \in Buffers, y # x
  PROVE  b[x].at # y
<1>1. Fits(x, b[x], S[x])
  BY InUseFacts
<1> QED BY <1>1, FitsFacts, Apart

(* The buffers with another record and sequence for x. *)
Changed(b, x, r) == [b EXCEPT ![x] = r]

LEMMA ChangedAre ==
  ASSUME NEW b, NEW S, Holding(b, S), NEW x \in Buffers, NEW r, NEW s
  PROVE  /\ Changed(b, x, r)[x] = r /\ Changed(S, x, s)[x] = s
         /\ \A y \in Buffers : y # x => Changed(b, x, r)[y] = b[y]
         /\ \A y \in Buffers : y # x => Changed(S, x, s)[y] = S[y]
BY DEF Changed, Holding

LEMMA InUseChanged ==
  ASSUME NEW b, NEW S, Holding(b, S), NEW x \in Buffers, NEW r
  PROVE  /\ r # None => InUse(Changed(b, x, r)) = InUse(b) \cup {x}
         /\ r = None => InUse(Changed(b, x, r)) = InUse(b) \ {x}
BY ChangedAre DEF InUse

LEMMA HoldingWith ==
  ASSUME NEW b, NEW S, Holding(b, S), NEW x \in Buffers, NEW r, NEW s, Fits(x, r, s),
         \A y \in InUse(b) : y # x => b[y].at # r.at
  PROVE  Holding(Changed(b, x, r), Changed(S, x, s))
<1> DEFINE c == Changed(b, x, r)
           Z == Changed(S, x, s)
<1>0. Holding(b, S)
  BY DEF State
<1>1. r \in Records /\ r # None /\ r.at # None /\ s \in Seq(Values)
  BY FitsFacts
<1>2. b \in [Buffers -> Records \cup {None}] /\ S \in [Buffers -> Seq(Values)]
  BY DEF Holding
<1>3. c \in [Buffers -> Records \cup {None}] /\ Z \in [Buffers -> Seq(Values)]
  BY <1>1, <1>2 DEF Changed
<1>4. c[x] = r /\ Z[x] = s /\ \A y \in Buffers : y # x => c[y] = b[y] /\ Z[y] = S[y]
  BY <1>0, ChangedAre
<1>5. InUse(c) = InUse(b) \cup {x}
  BY <1>0, <1>1, InUseChanged
<1> HIDE DEF c, Z
<1>6. InUse(b) \subseteq Buffers
  BY DEF InUse
<1>7. \A y \in InUse(c) : Fits(y, c[y], Z[y])
  BY <1>4, <1>5, <1>6 DEF Holding
<1>8. \A y \in Buffers \ InUse(c) : Z[y] = << >>
  BY <1>4, <1>5, <1>6 DEF Holding
<1>9. \A y, z \in InUse(c) : c[y].at = c[z].at => y = z
  BY <1>4, <1>5, <1>6 DEF Holding
<1> QED BY <1>3, <1>7, <1>8, <1>9 DEF Holding, c, Z

(* Buffer x has elements s in a memory that no other buffer has. *)
LEMMA Given ==
  ASSUME NEW m, NEW b, NEW S, State(m, b, S), NEW x \in Buffers, NEW r, NEW s, Fits(x, r, s),
         \A y \in InUse(b) : y # x => b[y].at # r.at,
         NEW m2,
         DOMAIN m2 = Buffers \cup {b[y].at : y \in InUse(b) \ {x}} \cup {r.at},
         m2[r.at] = Cells(r.cap, s),
         r.at # x => m2[x] = Cells(N, << >>),
         \A d \in DOMAIN m2 : d # r.at /\ d # x => m2[d] = m[d]
  PROVE  State(m2, Changed(b, x, r), Changed(S, x, s))
<1> DEFINE c == Changed(b, x, r)
           Z == Changed(S, x, s)
<1>0. Holding(b, S)
  BY DEF State
<1>1. r \in Records /\ r # None /\ r.at # None
  BY FitsFacts
<1>2. b \in [Buffers -> Records \cup {None}] /\ S \in [Buffers -> Seq(Values)]
  BY DEF State, Holding
<1>3. c[x] = r /\ Z[x] = s /\ \A y \in Buffers : y # x => c[y] = b[y] /\ Z[y] = S[y]
  BY <1>0, ChangedAre
<1>4. InUse(c) = InUse(b) \cup {x} /\ InUse(b) \subseteq Buffers
  BY <1>0, <1>1, InUseChanged DEF InUse
<1>5. Holding(c, Z)
  BY HoldingWith DEF State
<1> HIDE DEF c, Z
<1>6. DOMAIN m2 = Buffers \cup {c[y].at : y \in InUse(c)}
  BY <1>3, <1>4
<1>7. \A y \in InUse(c) : m2[c[y].at] = Cells(c[y].cap, Z[y])
  <2> SUFFICES ASSUME NEW y \in InUse(b), y # x PROVE m2[c[y].at] = Cells(c[y].cap, Z[y])
    BY <1>3, <1>4
  <2>1. y \in Buffers /\ c[y] = b[y] /\ Z[y] = S[y]
    BY <1>3, <1>4
  <2>2. b[y].at # r.at /\ b[y].at # x /\ b[y].at \in DOMAIN m2
    BY Elsewhere
  <2>3. m[b[y].at] = Cells(b[y].cap, S[y])
    BY InUseFacts
  <2> QED BY <2>1, <2>2, <2>3
<1>8. \A y \in Buffers : (y \in InUse(c) => c[y].at # y) => m2[y] = Cells(N, << >>)
  <2> SUFFICES ASSUME NEW y \in Buffers, y # x, y \in InUse(b) => b[y].at # y
               PROVE  m2[y] = Cells(N, << >>)
    BY <1>3, <1>4
  <2>1. m[y] = Cells(N, << >>)
    BY DEF State, Stored
  <2>2. r.at # y
    BY FitsFacts, Apart
  <2> QED BY <2>1, <2>2
<1> QED BY <1>5, <1>6, <1>7, <1>8 DEF State, Stored, c, Z

(* Buffer x is no more. *)
LEMMA Taken ==
  ASSUME NEW m, NEW b, NEW S, State(m, b, S), NEW x \in Buffers, NEW m2,
         DOMAIN m2 = Buffers \cup {b[y].at : y \in InUse(b) \ {x}},
         m2[x] = Cells(N, << >>),
         \A d \in DOMAIN m2 : d # x => m2[d] = m[d]
  PROVE  State(m2, Changed(b, x, None), Changed(S, x, << >>))
<1> DEFINE c == Changed(b, x, None)
           Z == Changed(S, x, << >>)
<1>0. Holding(b, S)
  BY DEF State
<1>1. << >> \in Seq(Values)
  OBVIOUS
<1>2. b \in [Buffers -> Records \cup {None}] /\ S \in [Buffers -> Seq(Values)]
  BY DEF State, Holding
<1>3. c[x] = None /\ Z[x] = << >> /\ \A y \in Buffers : y # x => c[y] = b[y] /\ Z[y] = S[y]
  BY <1>0, ChangedAre
<1>4. InUse(c) = InUse(b) \ {x} /\ InUse(b) \subseteq Buffers
  BY <1>0, <1>1, InUseChanged DEF InUse
<1>5. c \in [Buffers -> Records \cup {None}] /\ Z \in [Buffers -> Seq(Values)]
  BY <1>1, <1>2 DEF Changed
<1> HIDE DEF c, Z
<1>6. Holding(c, Z)
  <2>1. \A y \in InUse(c) : Fits(y, c[y], Z[y])
    BY <1>3, <1>4 DEF State, Holding
  <2>2. \A y \in Buffers \ InUse(c) : Z[y] = << >>
    BY <1>3, <1>4 DEF State, Holding
  <2>3. \A y, z \in InUse(c) : c[y].at = c[z].at => y = z
    BY <1>3, <1>4 DEF State, Holding
  <2> QED BY <1>5, <2>1, <2>2, <2>3 DEF Holding
<1>7. DOMAIN m2 = Buffers \cup {c[y].at : y \in InUse(c)}
  BY <1>3, <1>4
<1>8. \A y \in InUse(c) : m2[c[y].at] = Cells(c[y].cap, Z[y])
  <2> SUFFICES ASSUME NEW y \in InUse(b), y # x PROVE m2[c[y].at] = Cells(c[y].cap, Z[y])
    BY <1>3, <1>4
  <2>1. y \in Buffers /\ c[y] = b[y] /\ Z[y] = S[y]
    BY <1>3, <1>4
  <2>2. b[y].at # x /\ b[y].at \in DOMAIN m2
    BY Elsewhere
  <2>3. m[b[y].at] = Cells(b[y].cap, S[y])
    BY InUseFacts
  <2> QED BY <2>1, <2>2, <2>3
<1>9. \A y \in Buffers : (y \in InUse(c) => c[y].at # y) => m2[y] = Cells(N, << >>)
  <2> SUFFICES ASSUME NEW y \in Buffers, y # x, y \in InUse(b) => b[y].at # y
               PROVE  m2[y] = Cells(N, << >>)
    BY <1>3, <1>4
  <2>1. m[y] = Cells(N, << >>)
    BY DEF State, Stored
  <2> QED BY <2>1
<1> QED BY <1>6, <1>7, <1>8, <1>9 DEF State, Stored, c, Z

-----------------------------------------------------------------------------
(* The operations within the memory that a buffer has. *)

(* The world w is b and a memory that stores S. *)
Gives(w, b, S) == w = [mem |-> w.mem, buf |-> b] /\ State(w.mem, b, S)

Resized(b, x, n) == [b EXCEPT ![x].size = n]

LEMMA GivesFacts ==
  ASSUME NEW w, NEW b, NEW S, Gives(w, b, S)
  PROVE  /\ w.buf = b /\ State(w.mem, b, S) /\ Holding(b, S) /\ Stored(w.mem, b, S)
         /\ b \in [Buffers -> Records \cup {None}] /\ S \in [Buffers -> Seq(Values)]
BY DEF Gives, State, Holding

LEMMA RecordsAre ==
  ASSUME NEW r \in Records
  PROVE  /\ r.at \in Blocks \cup Buffers \cup {None} /\ r.cap \in Nat /\ r.size \in Nat
         /\ r = [at |-> r.at, cap |-> r.cap, size |-> r.size]
         /\ \A n : [r EXCEPT !.size = n] = [at |-> r.at, cap |-> r.cap, size |-> n]
         /\ \A n : [r EXCEPT !.cap = n] = [at |-> r.at, cap |-> n, size |-> r.size]
         /\ \A n : [r EXCEPT !.at = n] = [at |-> n, cap |-> r.cap, size |-> r.size]
BY DEF Records

LEMMA ResizedIs ==
  ASSUME NEW b, NEW S, Holding(b, S), NEW x \in InUse(b), NEW n
  PROVE  Resized(b, x, n) = Changed(b, x, [at |-> b[x].at, cap |-> b[x].cap, size |-> n])
<1>1. x \in Buffers /\ b[x] \in Records /\ b \in [Buffers -> Records \cup {None}]
  BY DEF Holding, Fits, InUse
<1>2. [b[x] EXCEPT !.size = n] = [at |-> b[x].at, cap |-> b[x].cap, size |-> n]
  BY <1>1, RecordsAre
<1>3. Resized(b, x, n) = [b EXCEPT ![x] = [b[x] EXCEPT !.size = n]]
  BY <1>1 DEF Resized
<1> QED BY <1>2, <1>3 DEF Changed

(* The elements of x become s, in the same memory. *)
LEMMA InPlace ==
  ASSUME NEW m, NEW b, NEW S, State(m, b, S), NEW x \in InUse(b),
         NEW s \in Seq(Values), Len(s) <= b[x].cap
  PROVE  State([m EXCEPT ![b[x].at] = Cells(b[x].cap, s)], Resized(b, x, Len(s)), Changed(S, x, s))
<1> DEFINE r == [at |-> b[x].at, cap |-> b[x].cap, size |-> Len(s)]
           m2 == [m EXCEPT ![b[x].at] = Cells(b[x].cap, s)]
<1>1. x \in Buffers /\ b[x].at \in DOMAIN m /\ Fits(x, b[x], S[x]) /\ Holding(b, S)
  BY InUseFacts DEF State
<1>2. b[x] \in Records
  BY <1>1 DEF Fits
<1>3. /\ b[x].at \in Blocks \cup Buffers \cup {None} /\ b[x].cap \in Nat
      /\ b[x].at # None
      /\ b[x].cap > N => b[x].at \in Blocks
      /\ b[x].cap <= N => b[x].cap = N /\ b[x].at = x
  BY <1>1, <1>2, RecordsAre, FitsFacts
<1>4. r.at = b[x].at /\ r.cap = b[x].cap /\ r.size = Len(s)
  OBVIOUS
<1>5. r \in Records
  BY <1>3 DEF Records
<1>6. DOMAIN m2 = DOMAIN m /\ m2[b[x].at] = Cells(b[x].cap, s)
  BY <1>1
<1>7. \A d \in DOMAIN m : d # b[x].at => m2[d] = m[d]
  OBVIOUS
<1>8. DOMAIN m = Buffers \cup {b[y].at : y \in InUse(b) \ {x}} \cup {b[x].at}
  BY DEF State, Stored
<1>9. b[x].at # x => m[x] = Cells(N, << >>)
  BY <1>1 DEF State, Stored
<1>10. \A y \in InUse(b) : y # x => b[y].at # b[x].at
  BY <1>1 DEF Holding
<1>11. x \in DOMAIN m
  BY <1>1, <1>8
<1>12. Resized(b, x, Len(s)) = Changed(b, x, r)
  BY <1>1, ResizedIs
<1> HIDE DEF r, m2
<1>13. Fits(x, r, s)
  BY <1>3, <1>4, <1>5 DEF Fits
<1>14. State(m2, Changed(b, x, r), Changed(S, x, s))
  <2>1. DOMAIN m2 = Buffers \cup {b[y].at : y \in InUse(b) \ {x}} \cup {r.at}
    BY <1>4, <1>6, <1>8
  <2>2. m2[r.at] = Cells(r.cap, s)
    BY <1>4, <1>6
  <2>3. r.at # x => m2[x] = Cells(N, << >>)
    BY <1>4, <1>7, <1>9, <1>11
  <2>4. \A d \in DOMAIN m2 : d # r.at /\ d # x => m2[d] = m[d]
    BY <1>4, <1>6, <1>7
  <2>5. \A y \in InUse(b) : y # x => b[y].at # r.at
    BY <1>4, <1>10
  <2> QED BY <1>1, <1>13, <2>1, <2>2, <2>3, <2>4, <2>5, Given
<1> QED BY <1>12, <1>14 DEF m2

LEMMA SizesSame ==
  ASSUME NEW b, NEW S, Holding(b, S), NEW x \in InUse(b), NEW n, n = b[x].size
  PROVE  Resized(b, x, n) = b
<1>1. x \in Buffers /\ b[x] \in Records /\ b \in [Buffers -> Records \cup {None}]
  BY DEF Holding, Fits, InUse
<1>2. [at |-> b[x].at, cap |-> b[x].cap, size |-> n] = b[x]
  BY <1>1, RecordsAre
<1>3. Resized(b, x, n) = [b EXCEPT ![x] = b[x]]
  BY <1>2, ResizedIs DEF Changed
<1> QED BY <1>1, <1>3

LEMMA ContentsAre ==
  ASSUME NEW w, NEW b, NEW S, Gives(w, b, S), NEW x \in InUse(b)
  PROVE  Contents(w, x) = S[x]
<1>1. w.buf = b /\ State(w.mem, b, S)
  BY GivesFacts
<1>2. Fits(x, b[x], S[x]) /\ w.mem[b[x].at] = Cells(b[x].cap, S[x])
  BY <1>1, InUseFacts
<1>3. /\ S[x] \in Seq(Values) /\ Len(S[x]) <= b[x].cap /\ b[x].cap \in Nat
      /\ b[x].size = Len(S[x])
  BY <1>2, FitsFacts
<1>4. Read(w.mem, b[x].at, 0, Len(S[x])) = S[x]
  BY <1>2, <1>3, ReadCells
<1> QED BY <1>1, <1>3, <1>4 DEF Contents

LEMMA PushedBack ==
  ASSUME NEW w, NEW b, NEW S, Gives(w, b, S), NEW x \in InUse(b),
         NEW s \in Seq(Values), Len(S[x]) + Len(s) <= b[x].cap
  PROVE  Gives(unchecked_push_back(w, x, s), Resized(b, x, Len(S[x] \o s)), Changed(S, x, S[x] \o s))
<1> DEFINE v == unchecked_push_back(w, x, s)
           t == S[x]
<1>1. w.buf = b /\ State(w.mem, b, S) /\ x \in Buffers /\ b \in [Buffers -> Records \cup {None}]
  BY GivesFacts DEF InUse
<1>2. /\ Fits(x, b[x], t) /\ b[x].at \in DOMAIN w.mem
      /\ w.mem[b[x].at] = Cells(b[x].cap, t)
  BY <1>1, InUseFacts
<1>3. t \in Seq(Values) /\ b[x].cap \in Nat /\ b[x].size = Len(t) /\ b[x] \in Records
  BY <1>2, FitsFacts
<1>4. Built(w.mem, b[x].at, Len(t), s) = [w.mem EXCEPT ![b[x].at] = Cells(b[x].cap, t \o s)]
  <2> DEFINE m == w.mem
             a == b[x].at
             c == b[x].cap
  <2>1. a \in DOMAIN m /\ m[a] = Cells(c, t) /\ c \in Nat /\ t \in Seq(Values) /\ Len(t) + Len(s) <= c
    BY <1>2, <1>3
  <2> HIDE DEF t, m, a, c
  <2>2. Built(m, a, Len(t), s) = [m EXCEPT ![a] = Cells(c, t \o s)]
    BY <2>1, BuiltCells
  <2> QED BY <2>2 DEF m, a, c
<1>5. t \o s \in Seq(Values) /\ Len(t \o s) = Len(t) + Len(s)
  BY <1>3
<1>6. State([w.mem EXCEPT ![b[x].at] = Cells(b[x].cap, t \o s)],
            Resized(b, x, Len(t \o s)), Changed(S, x, t \o s))
  BY <1>1, <1>5, InPlace
<1>7. v = [mem |-> Built(w.mem, b[x].at, b[x].size, s), buf |-> [b EXCEPT ![x].size = @ + Len(s)]]
  BY <1>1 DEF unchecked_push_back
<1>8. [b EXCEPT ![x].size = @ + Len(s)] = Resized(b, x, Len(t \o s))
  BY <1>1, <1>3, <1>5 DEF Resized
<1> HIDE DEF v, t
<1>9. v = [mem |-> v.mem, buf |-> Resized(b, x, Len(t \o s))]
      /\ v.mem = [w.mem EXCEPT ![b[x].at] = Cells(b[x].cap, t \o s)]
  BY <1>3, <1>4, <1>7, <1>8
<1> QED BY <1>6, <1>9 DEF Gives, v, t

LEMMA PoppedBack ==
  ASSUME NEW w, NEW b, NEW S, Gives(w, b, S), NEW x \in InUse(b), NEW n \in 0..Len(S[x])
  PROVE  Gives(pop_back_n(w, x, n), Resized(b, x, Len(S[x]) - n),
               Changed(S, x, SubSeq(S[x], 1, Len(S[x]) - n)))
<1> DEFINE v == pop_back_n(w, x, n)
           t == S[x]
           l == Len(t)
           u == SubSeq(t, 1, l - n)
<1>1. w.buf = b /\ State(w.mem, b, S) /\ x \in Buffers /\ b \in [Buffers -> Records \cup {None}]
  BY GivesFacts DEF InUse
<1>2. /\ Fits(x, b[x], t) /\ b[x].at \in DOMAIN w.mem
      /\ w.mem[b[x].at] = Cells(b[x].cap, t)
  BY <1>1, InUseFacts
<1>3. t \in Seq(Values) /\ b[x].cap \in Nat /\ b[x].size = l /\ l <= b[x].cap /\ b[x] \in Records
  BY <1>2, FitsFacts
<1>4. Destroyed(w.mem, b[x].at, l - n, n) = [w.mem EXCEPT ![b[x].at] = Cells(b[x].cap, u)]
  BY <1>2, <1>3, DestroyedCells
<1>5. u \in Seq(Values) /\ Len(u) = l - n
  <2>1. l - n \in 0..l
    BY <1>3
  <2> QED BY <1>3, <2>1, FirstElements
<1>6. State([w.mem EXCEPT ![b[x].at] = Cells(b[x].cap, u)], Resized(b, x, Len(u)), Changed(S, x, u))
  <2>1. Len(u) <= b[x].cap
    BY <1>3, <1>5
  <2> HIDE DEF u
  <2> QED BY <1>1, <1>5, <2>1, InPlace
<1>7. v = [mem |-> Destroyed(w.mem, b[x].at, b[x].size - n, n), buf |-> [b EXCEPT ![x].size = @ - n]]
  BY <1>1 DEF pop_back_n
<1>8. [b EXCEPT ![x].size = @ - n] = Resized(b, x, l - n)
  BY <1>1, <1>3, <1>5 DEF Resized
<1> HIDE DEF v, t, u, l
<1>9. v = [mem |-> v.mem, buf |-> Resized(b, x, l - n)]
      /\ v.mem = [w.mem EXCEPT ![b[x].at] = Cells(b[x].cap, u)]
  BY <1>3, <1>4, <1>7, <1>8
<1>10. Gives(v, Resized(b, x, l - n), Changed(S, x, u))
  BY <1>5, <1>6, <1>9 DEF Gives
<1> QED BY <1>10 DEF v, t, u, l

(* Assignments to elements of x leave its size. *)
LEMMA AssignedTo ==
  ASSUME NEW w, NEW b, NEW S, Gives(w, b, S), NEW x \in InUse(b),
         NEW s \in Seq(Values), NEW i \in Nat, i + Len(s) <= Len(S[x])
  PROVE  Gives([w EXCEPT !.mem = Assigned(@, w.buf[x].at, i, s)], b, Changed(S, x, Patched(S[x], i, s)))
<1> DEFINE m2 == Assigned(w.mem, b[x].at, i, s)
           v == [w EXCEPT !.mem = m2]
           t == S[x]
           u == Patched(t, i, s)
<1>1. w.buf = b /\ State(w.mem, b, S) /\ x \in Buffers /\ Holding(b, S) /\ w = [mem |-> w.mem, buf |-> b]
  BY GivesFacts DEF InUse, Gives
<1>2. /\ Fits(x, b[x], t) /\ b[x].at \in DOMAIN w.mem
      /\ w.mem[b[x].at] = Cells(b[x].cap, t)
  BY <1>1, InUseFacts
<1>3. /\ t \in Seq(Values) /\ b[x].cap \in Nat /\ b[x].size = Len(t) /\ Len(t) <= b[x].cap
      /\ b[x] \in Records
  BY <1>2, FitsFacts
<1>4. m2 = [w.mem EXCEPT ![b[x].at] = Cells(b[x].cap, u)]
  <2> DEFINE m == w.mem
             a == b[x].at
             c == b[x].cap
  <2>1. a \in DOMAIN m /\ m[a] = Cells(c, t) /\ c \in Nat /\ t \in Seq(Values) /\ i + Len(s) <= Len(t)
    BY <1>2, <1>3
  <2> HIDE DEF t, m, a, c
  <2>2. Assigned(m, a, i, s) = [m EXCEPT ![a] = Cells(c, Patched(t, i, s))]
    BY <2>1, AssignedCells
  <2> QED BY <2>2 DEF m, a, c
<1>5. u \in Seq(Values) /\ Len(u) = Len(t)
  BY <1>3, PatchedType
<1>6. State([w.mem EXCEPT ![b[x].at] = Cells(b[x].cap, u)], Resized(b, x, Len(u)), Changed(S, x, u))
  <2> HIDE DEF u
  <2> QED BY <1>1, <1>3, <1>5, InPlace
<1>7. Resized(b, x, Len(u)) = b
  <2> HIDE DEF u
  <2> QED BY <1>1, <1>3, <1>5, SizesSame
<1>8. v = [mem |-> m2, buf |-> b]
  <2> HIDE DEF m2
  <2> QED BY <1>1
<1> HIDE DEF v, u, m2
<1>9. v = [mem |-> v.mem, buf |-> b] /\ v.mem = [w.mem EXCEPT ![b[x].at] = Cells(b[x].cap, u)]
  BY <1>4, <1>8
<1>10. Gives(v, b, Changed(S, x, u))
  BY <1>6, <1>7, <1>9 DEF Gives
<1>11. v = [w EXCEPT !.mem = Assigned(@, w.buf[x].at, i, s)]
  BY <1>1 DEF v, m2
<1> QED BY <1>10, <1>11 DEF u, t

LEMMA OverwrittenIs ==
  ASSUME NEW w, NEW b, NEW S, Gives(w, b, S), NEW x \in InUse(b),
         NEW s \in Seq(Values), NEW i \in Nat, NEW k \in 0..Len(s), i + k <= Len(S[x])
  PROVE  Gives(Overwritten(w, x, i, s, k), b, Changed(S, x, Patched(S[x], i, SubSeq(s, 1, k))))
<1> DEFINE p == SubSeq(s, 1, k)
<1>1. p \in Seq(Values) /\ Len(p) = k
  BY FirstElements
<1> HIDE DEF p
<1>2. Gives([w EXCEPT !.mem = Assigned(@, w.buf[x].at, i, p)], b, Changed(S, x, Patched(S[x], i, p)))
  BY <1>1, AssignedTo
<1> QED BY <1>2 DEF p, Overwritten

LEMMA MovedUpIs ==
  ASSUME NEW w, NEW b, NEW S, Gives(w, b, S), NEW x \in InUse(b),
         NEW i \in Nat, NEW n \in Nat \ {0}, NEW k \in Nat, i + n + k <= Len(S[x])
  PROVE  \E p \in Seq(Values) : Len(p) = k /\
            Gives(MovedUp(w, x, i, n, k), b, Changed(S, x, Patched(S[x], i + n, p)))
<1> DEFINE t == S[x]
           p == [j \in 1..k |-> t[i + 1 + ((j - 1) % n)]]
<1>1. Contents(w, x) = t
  BY ContentsAre
<1>2. t \in Seq(Values) /\ x \in Buffers
  BY GivesFacts DEF InUse
<1> HIDE DEF t
<1>3. \A j \in 1..k : i + 1 + ((j - 1) % n) \in 1..Len(t)
  <2> TAKE j \in 1..k
  <2>1. j - 1 \in Nat /\ (j - 1) % n \in 0..n - 1
    OBVIOUS
  <2>2. i + n <= Len(t) /\ Len(t) \in Nat
    BY <1>2 DEF t
  <2> QED BY <2>1, <2>2
<1>4. p \in [1..k -> Values]
  BY <1>2, <1>3
<1>5. MovedUp(w, x, i, n, k) = [w EXCEPT !.mem = Assigned(@, w.buf[x].at, i + n, p)]
  BY <1>1 DEF MovedUp
<1> HIDE DEF p
<1>6. p \in Seq(Values) /\ Len(p) = k
  BY <1>4
<1>7. i + n \in Nat /\ (i + n) + Len(p) <= Len(S[x])
  BY <1>6
<1>8. Gives([w EXCEPT !.mem = Assigned(@, w.buf[x].at, i + n, p)], b, Changed(S, x, Patched(S[x], i + n, p)))
  BY <1>6, <1>7, AssignedTo
<1> QED BY <1>5, <1>6, <1>8

-----------------------------------------------------------------------------
(* Memory that is obtained and released. *)

(* There is a block that no buffer has. *)
LEMMA FreeBlock ==
  ASSUME NEW m, NEW b, NEW S, State(m, b, S)
  PROVE  \E d \in Blocks : d \notin DOMAIN m
<1> DEFINE some == CHOOSE d \in Blocks : TRUE
           at == [x \in Buffers |-> IF x \in InUse(b) /\ b[x].at \in Blocks THEN b[x].at ELSE some]
<1>1. some \in Blocks
  BY HeapAssumption
<1> HIDE DEF some
<1>2. at \in [Buffers -> Blocks]
  BY <1>1
<1>3. Blocks # {at[x] : x \in Buffers}
  BY <1>2, HeapAssumption, Zenon
<1>4. {at[x] : x \in Buffers} \subseteq Blocks
  BY <1>2
<1>5. PICK d \in Blocks : d \notin {at[x] : x \in Buffers}
  BY <1>3, <1>4
<1>6. \A x \in InUse(b) : b[x].at # d
  <2> TAKE x \in InUse(b)
  <2>1. x \in Buffers
    BY DEF InUse
  <2>2. b[x].at \in Blocks => at[x] = b[x].at
    BY <2>1
  <2> QED BY <1>5, <2>1, <2>2
<1>7. d \notin Buffers
  BY Apart
<1> QED BY <1>5, <1>6, <1>7 DEF State, Stored

(* Where a buffer that is not there finds c cells, and what they are.        *)
Roomy(c) == IF c > N THEN c ELSE N

LEMMA RoomyIs ==
  ASSUME NEW c \in Nat
  PROVE  /\ Roomy(c) \in Nat /\ Roomy(c) >= c /\ Roomy(c) >= N
         /\ c > N => Roomy(c) = c
         /\ c <= N => Roomy(c) = N
         /\ c >= N => Roomy(c) = c
BY Apart DEF Roomy

LEMMA PlaceIs ==
  ASSUME NEW m, NEW b, NEW S, State(m, b, S), NEW x \in Buffers, NEW c \in Nat
  PROVE  /\ c > N => Place(m, x, c) \in Blocks /\ Place(m, x, c) \notin DOMAIN m
         /\ c <= N => Place(m, x, c) = x
<1>1. c > N => Place(m, x, c) = CHOOSE d \in Blocks : d \notin DOMAIN m
  BY DEF Place
<1>2. \E d \in Blocks : d \notin DOMAIN m
  BY FreeBlock
<1>3. /\ (CHOOSE d \in Blocks : d \notin DOMAIN m) \in Blocks
      /\ (CHOOSE d \in Blocks : d \notin DOMAIN m) \notin DOMAIN m
  BY <1>2
<1>4. c <= N => ~(c > N)
  BY Apart
<1> QED BY <1>1, <1>3, <1>4 DEF Place

(* Memory for c cells that is raw, and what is built in it. *)
LEMMA AllocatedIs ==
  ASSUME NEW m, NEW b, NEW S, State(m, b, S), NEW x \in Buffers, NEW c \in Nat,
         c <= N => m[x] = Cells(N, << >>)
  PROVE  /\ DOMAIN allocate(m, x, c) = DOMAIN m \cup {Place(m, x, c)}
         /\ allocate(m, x, c)[Place(m, x, c)] = Cells(Roomy(c), << >>)
         /\ \A d \in DOMAIN m : d # Place(m, x, c) => allocate(m, x, c)[d] = m[d]
<1>1. CASE c > N
  <2> DEFINE p == Place(m, x, c)
  <2>1. p \in Blocks /\ p \notin DOMAIN m
    BY <1>1, PlaceIs
  <2>2. ~(c <= N) /\ Roomy(c) = c
    BY <1>1, RoomyIs, Apart
  <2> HIDE DEF p
  <2>3. allocate(m, x, c) = [d \in DOMAIN m \cup {p} |-> IF d \in DOMAIN m THEN m[d] ELSE RawCells(c)]
    BY <2>2 DEF allocate, p
  <2>4. RawCells(c) = Cells(c, << >>)
    BY RawCellsAre
  <2>5. allocate(m, x, c)[p] = Cells(Roomy(c), << >>)
    BY <2>1, <2>2, <2>3, <2>4
  <2> QED BY <2>1, <2>3, <2>5 DEF p
<1>2. CASE c <= N
  <2>1. Place(m, x, c) = x /\ Roomy(c) = N /\ allocate(m, x, c) = m
    BY <1>2, PlaceIs, RoomyIs DEF allocate
  <2>2. x \in DOMAIN m
    BY DEF State, Stored
  <2> QED BY <1>2, <2>1, <2>2
<1> QED BY <1>1, <1>2, Apart

(* allocate(c), and s copied there. *)
Made(m, x, c, s) == Built(allocate(m, x, c), Place(m, x, c), 0, s)

LEMMA EmptyFirst ==
  ASSUME NEW s \in Seq(Values)
  PROVE  /\ << >> \o s = s /\ Len(<< >>) = 0 /\ << >> \in Seq(Values)
         /\ SubSeq(s, 1, 0) = << >>
OBVIOUS

LEMMA BuiltFirst ==
  ASSUME NEW m, NEW b \in DOMAIN m, NEW c \in Nat, NEW s \in Seq(Values),
         m[b] = Cells(c, << >>), Len(s) <= c
  PROVE  Built(m, b, 0, s) = [m EXCEPT ![b] = Cells(c, s)]
<1>1. << >> \in Seq(Values) /\ Len(<< >>) = 0 /\ << >> \o s = s
  BY EmptyFirst
<1>0. \A t \in Seq(Values) : m[b] = Cells(c, t) /\ Len(t) + Len(s) <= c
           => Built(m, b, Len(t), s) = [m EXCEPT ![b] = Cells(c, t \o s)]
  BY BuiltCells
<1> DEFINE t == << >>
<1>2. t \in Seq(Values) /\ m[b] = Cells(c, t) /\ Len(t) = 0 /\ Len(t) + Len(s) <= c /\ t \o s = s
  BY <1>1
<1> HIDE DEF t
<1>3. Built(m, b, Len(t), s) = [m EXCEPT ![b] = Cells(c, t \o s)]
  BY <1>0, <1>2
<1> QED BY <1>2, <1>3

LEMMA DestroyedAll ==
  ASSUME NEW m, NEW b \in DOMAIN m, NEW c \in Nat, NEW s \in Seq(Values), m[b] = Cells(c, s)
  PROVE  Destroyed(m, b, 0, Len(s)) = [m EXCEPT ![b] = Cells(c, << >>)]
<1> DEFINE n == Len(s)
<1>1. n \in 0..Len(s) /\ Len(s) - n = 0 /\ SubSeq(s, 1, 0) = << >>
  BY EmptyFirst
<1>2. \A k \in 0..Len(s) : Destroyed(m, b, Len(s) - k, k) = [m EXCEPT ![b] = Cells(c, SubSeq(s, 1, Len(s) - k))]
  BY DestroyedCells
<1> HIDE DEF n
<1>3. Destroyed(m, b, Len(s) - n, n) = [m EXCEPT ![b] = Cells(c, SubSeq(s, 1, Len(s) - n))]
  BY <1>1, <1>2
<1> QED BY <1>1, <1>3 DEF n

LEMMA MadeIs ==
  ASSUME NEW m, NEW b, NEW S, State(m, b, S), NEW x \in Buffers, NEW c \in Nat,
         c <= N => m[x] = Cells(N, << >>), NEW s \in Seq(Values), Len(s) <= Roomy(c)
  PROVE  /\ DOMAIN Made(m, x, c, s) = DOMAIN m \cup {Place(m, x, c)}
         /\ Made(m, x, c, s)[Place(m, x, c)] = Cells(Roomy(c), s)
         /\ \A d \in DOMAIN m : d # Place(m, x, c) => Made(m, x, c, s)[d] = m[d]
<1> DEFINE a == allocate(m, x, c)
           p == Place(m, x, c)
           k == Roomy(c)
<1>1. DOMAIN a = DOMAIN m \cup {p} /\ a[p] = Cells(k, << >>)
      /\ \A d \in DOMAIN m : d # p => a[d] = m[d]
  BY AllocatedIs
<1>2. k \in Nat /\ Len(s) <= k
  BY RoomyIs
<1> HIDE DEF a, p, k
<1>3. p \in DOMAIN a
  BY <1>1
<1>5. Built(a, p, 0, s) = [a EXCEPT ![p] = Cells(k, s)]
  BY <1>1, <1>2, <1>3, BuiltFirst
<1>6. Made(m, x, c, s) = [a EXCEPT ![p] = Cells(k, s)]
  BY <1>5 DEF Made, a, p
<1> DEFINE z == [a EXCEPT ![p] = Cells(k, s)]
<1>7. DOMAIN z = DOMAIN m \cup {p} /\ z[p] = Cells(k, s) /\ \A d \in DOMAIN m : d # p => z[d] = m[d]
  BY <1>1, <1>3
<1> QED BY <1>6, <1>7 DEF p, k

(* The elements and the memory of a buffer with record r are gone. *)
LEMMA DestroyedIs ==
  ASSUME NEW m, NEW x, NEW r, NEW s, Fits(x, r, s), r.at \in DOMAIN m,
         m[r.at] = Cells(r.cap, s)
  PROVE  /\ r.cap > N => auto_buffer_destroy(m, r) = [d \in DOMAIN m \ {r.at} |-> m[d]]
         /\ r.cap <= N => auto_buffer_destroy(m, r) = [m EXCEPT ![r.at] = Cells(N, << >>)]
<1> DEFINE c == r.cap
           a == r.at
           n == Len(s)
           z == [m EXCEPT ![a] = Cells(c, << >>)]
<1>1. /\ a # None /\ c \in Nat /\ n \in Nat /\ s \in Seq(Values) /\ r.size = n
      /\ c <= N => c = N
  BY FitsFacts
<1>2. Destroyed(m, a, 0, n) = z
  <2> HIDE DEF a, c
  <2>1. a \in DOMAIN m /\ m[a] = Cells(c, s)
    BY DEF a, c
  <2> QED BY <1>1, <2>1, DestroyedAll
<1>3. \A k \in DOMAIN z[a] : z[a][k] = Raw
  <2>1. z[a] = Cells(c, << >>)
    OBVIOUS
  <2>2. DOMAIN Cells(c, << >>) = 0..c - 1
        /\ \A k \in 0..c - 1 : Cells(c, << >>)[k] = IF k < Len(<< >>) THEN << >>[k + 1] ELSE Raw
    BY CellsElements
  <2>3. \A k \in 0..c - 1 : ~(k < Len(<< >>))
    OBVIOUS
  <2> QED BY <2>1, <2>2, <2>3
<1>4. auto_buffer_destroy(m, r) = deallocate(z, a, c)
  BY <1>1, <1>2 DEF auto_buffer_destroy
<1>5. deallocate(z, a, c) = IF c <= N THEN z ELSE [d \in DOMAIN z \ {a} |-> z[d]]
  BY <1>3 DEF deallocate
<1>6. [d \in DOMAIN z \ {a} |-> z[d]] = [d \in DOMAIN m \ {a} |-> m[d]]
  OBVIOUS
<1>7. c > N => ~(c <= N)
  BY <1>1, Apart
<1>8. c <= N => z = [m EXCEPT ![a] = Cells(N, << >>)]
  BY <1>1
<1> QED BY <1>4, <1>5, <1>6, <1>7, <1>8

-----------------------------------------------------------------------------
(* Buffers that get memory, other memory, or lose it.                      *)

NewRecord(m, x, c, n) == [at |-> Place(m, x, c), cap |-> Roomy(c), size |-> n]

LEMMA NewRecordFits ==
  ASSUME NEW m, NEW b, NEW S, State(m, b, S), NEW x \in Buffers, NEW c \in Nat,
         NEW s \in Seq(Values), Len(s) <= Roomy(c)
  PROVE  /\ Fits(x, NewRecord(m, x, c, Len(s)), s)
         /\ \A y \in InUse(b) : y # x => b[y].at # Place(m, x, c)
<1> DEFINE r == NewRecord(m, x, c, Len(s))
<1>1. r.at = Place(m, x, c) /\ r.cap = Roomy(c) /\ r.size = Len(s)
      /\ r = [at |-> Place(m, x, c), cap |-> Roomy(c), size |-> Len(s)]
  BY DEF NewRecord
<1>2. /\ Roomy(c) \in Nat /\ Roomy(c) >= N /\ N \in Nat
      /\ c > N => Roomy(c) = c
      /\ c <= N => Roomy(c) = N
  BY RoomyIs, Apart
<1>3. /\ c > N => Place(m, x, c) \in Blocks /\ Place(m, x, c) \notin DOMAIN m
      /\ c <= N => Place(m, x, c) = x
  BY PlaceIs
<1> HIDE DEF r
<1>4. Place(m, x, c) \in Blocks \cup Buffers /\ Place(m, x, c) # None
  BY <1>2, <1>3, Apart
<1>5. r \in Records
  BY <1>1, <1>2, <1>4 DEF Records
<1>6. r.cap > N => r.at \in Blocks
  BY <1>1, <1>2, <1>3
<1>7. r.cap <= N => r.cap = N /\ r.at = x
  BY <1>1, <1>2, <1>3
<1>8. Fits(x, r, s)
  BY <1>1, <1>4, <1>5, <1>6, <1>7 DEF Fits
<1>9. ASSUME NEW y \in InUse(b), y # x PROVE b[y].at # Place(m, x, c)
  <2>1. b[y].at \in DOMAIN m
    BY InUseFacts
  <2>2. b[y].at # x
    BY <1>9, Elsewhere
  <2> QED BY <1>2, <1>3, <2>1, <2>2
<1> QED BY <1>8, <1>9 DEF r

(* A buffer that is not there, or has no memory, gets some. *)
LEMMA MadeState ==
  ASSUME NEW m, NEW b, NEW S, State(m, b, S), NEW x \in Buffers, x \notin InUse(b),
         NEW c \in Nat, NEW s \in Seq(Values), Len(s) <= Roomy(c)
  PROVE  State(Made(m, x, c, s), Changed(b, x, NewRecord(m, x, c, Len(s))), Changed(S, x, s))
<1> DEFINE r == NewRecord(m, x, c, Len(s))
           p == Place(m, x, c)
           z == Made(m, x, c, s)
<1>1. r.at = p /\ r.cap = Roomy(c)
  BY DEF NewRecord
<1>2. Fits(x, r, s) /\ \A y \in InUse(b) : y # x => b[y].at # p
  BY NewRecordFits
<1>3. m[x] = Cells(N, << >>) /\ x \in DOMAIN m /\ DOMAIN m = Buffers \cup {b[y].at : y \in InUse(b)}
  BY DEF State, Stored
<1>4. DOMAIN z = DOMAIN m \cup {p} /\ z[p] = Cells(Roomy(c), s)
      /\ \A d \in DOMAIN m : d # p => z[d] = m[d]
  BY <1>3, MadeIs
<1> HIDE DEF r, p, z
<1>5. DOMAIN z = Buffers \cup {b[y].at : y \in InUse(b) \ {x}} \cup {r.at}
  BY <1>1, <1>3, <1>4
<1>6. z[r.at] = Cells(r.cap, s)
  BY <1>1, <1>4
<1>7. r.at # x => z[x] = Cells(N, << >>)
  BY <1>1, <1>3, <1>4
<1>8. \A d \in DOMAIN z : d # r.at /\ d # x => z[d] = m[d]
  BY <1>1, <1>4
<1>9. \A y \in InUse(b) : y # x => b[y].at # r.at
  BY <1>1, <1>2
<1>10. State(z, Changed(b, x, r), Changed(S, x, s))
  BY <1>2, <1>5, <1>6, <1>7, <1>8, <1>9, Given
<1> QED BY <1>10 DEF r, z

(* A buffer gets other memory, with the elements s, and releases its own. *)
LEMMA MovedState ==
  ASSUME NEW m, NEW b, NEW S, State(m, b, S), NEW x \in InUse(b),
         NEW c \in Nat, c > N \/ b[x].cap > N, NEW s \in Seq(Values), Len(s) <= Roomy(c)
  PROVE  State(auto_buffer_destroy(Made(m, x, c, s), b[x]),
               Changed(b, x, NewRecord(m, x, c, Len(s))), Changed(S, x, s))
<1> DEFINE r == NewRecord(m, x, c, Len(s))
           p == Place(m, x, c)
           o == b[x].at
           z == Made(m, x, c, s)
           v == auto_buffer_destroy(z, b[x])
<1>1. r.at = p /\ r.cap = Roomy(c)
  BY DEF NewRecord
<1>2. x \in Buffers /\ Fits(x, b[x], S[x]) /\ o \in DOMAIN m /\ m[o] = Cells(b[x].cap, S[x])
  BY InUseFacts
<1>3. /\ b[x].cap \in Nat /\ N \in Nat
      /\ b[x].cap > N => o \in Blocks
      /\ b[x].cap <= N => b[x].cap = N /\ o = x
  BY <1>2, FitsFacts, Apart
<1>4. Fits(x, r, s) /\ \A y \in InUse(b) : y # x => b[y].at # p
  BY <1>2, NewRecordFits
<1>5. /\ x \in DOMAIN m /\ DOMAIN m = Buffers \cup {b[y].at : y \in InUse(b)}
      /\ o # x => m[x] = Cells(N, << >>)
  BY <1>2 DEF State, Stored
<1>6. /\ c > N => p \in Blocks /\ p \notin DOMAIN m
      /\ c <= N => p = x
  BY <1>2, PlaceIs
<1>7. o # p
  BY <1>2, <1>3, <1>6, Apart
<1>8. c <= N => m[x] = Cells(N, << >>)
  BY <1>3, <1>5, <1>2, Apart
<1>9. DOMAIN z = DOMAIN m \cup {p} /\ z[p] = Cells(Roomy(c), s)
      /\ \A d \in DOMAIN m : d # p => z[d] = m[d]
  BY <1>2, <1>8, MadeIs
<1>10. o \in DOMAIN z /\ z[o] = Cells(b[x].cap, S[x])
  BY <1>2, <1>7, <1>9
<1>11. /\ b[x].cap > N => v = [d \in DOMAIN z \ {o} |-> z[d]]
       /\ b[x].cap <= N => v = [z EXCEPT ![o] = Cells(N, << >>)]
  BY <1>2, <1>10, DestroyedIs
<1>12. \A y \in InUse(b) : y # x => b[y].at # o
  BY <1>2 DEF State, Holding
<1>13. \A y \in Buffers : y # x => o # y
  BY Elsewhere
<1>14. x \notin Blocks /\ (o \in Blocks => o \notin Buffers)
  BY <1>2, Apart
<1> HIDE DEF r, p, o, z, v
<1>15. DOMAIN v = Buffers \cup {b[y].at : y \in InUse(b) \ {x}} \cup {r.at}
  <2>1. DOMAIN z = Buffers \cup {b[y].at : y \in InUse(b) \ {x}} \cup {o} \cup {r.at}
    BY <1>1, <1>5, <1>9 DEF o
  <2>2. CASE b[x].cap > N
    <3>1. DOMAIN v = DOMAIN z \ {o} /\ o \in Blocks
      BY <1>3, <1>11, <2>2
    <3>2. o \notin Buffers /\ o \notin {b[y].at : y \in InUse(b) \ {x}} /\ o # r.at
      BY <1>1, <1>7, <1>12, <1>14, <3>1
    <3> QED BY <2>1, <3>1, <3>2
  <2>3. CASE b[x].cap <= N
    <3>1. DOMAIN v = DOMAIN z /\ o \in Buffers
      BY <1>2, <1>3, <1>11, <2>3
    <3> QED BY <2>1, <3>1
  <2> QED BY <1>3, <2>2, <2>3
<1>16. v[r.at] = Cells(r.cap, s)
  BY <1>1, <1>3, <1>7, <1>9, <1>11
<1>17. r.at # x => v[x] = Cells(N, << >>)
  <2> SUFFICES ASSUME p # x PROVE v[x] = Cells(N, << >>)
    BY <1>1
  <2>1. CASE b[x].cap > N
    <3>1. x # o /\ m[x] = Cells(N, << >>)
      BY <1>3, <1>5, <1>14, <2>1
    <3>2. z[x] = m[x] /\ x \in DOMAIN z
      BY <1>5, <1>9
    <3> QED BY <1>11, <2>1, <3>1, <3>2
  <2>2. CASE b[x].cap <= N
    <3>1. o = x /\ x \in DOMAIN z
      BY <1>3, <1>10, <2>2
    <3> QED BY <1>11, <2>2, <3>1
  <2> QED BY <1>3, <2>1, <2>2
<1>18. \A d \in DOMAIN v : d # r.at /\ d # x => v[d] = m[d]
  <2> SUFFICES ASSUME NEW d \in DOMAIN v, d # p, d # x PROVE v[d] = m[d]
    BY <1>1
  <2>1. CASE b[x].cap > N
    <3>1. d \in DOMAIN z /\ v[d] = z[d]
      BY <1>11, <2>1
    <3> QED BY <1>9, <3>1
  <2>2. CASE b[x].cap <= N
    <3>1. d \in DOMAIN z /\ o = x
      BY <1>3, <1>11, <2>2
    <3>2. v[d] = z[d]
      BY <1>11, <2>2, <3>1
    <3> QED BY <1>9, <3>1, <3>2
  <2> QED BY <1>3, <2>1, <2>2
<1>19. \A y \in InUse(b) : y # x => b[y].at # r.at
  BY <1>1, <1>4
<1>20. State(v, Changed(b, x, r), Changed(S, x, s))
  BY <1>2, <1>4, <1>15, <1>16, <1>17, <1>18, <1>19, Given
<1> QED BY <1>20 DEF r, z, v

(* A buffer releases its memory and is gone, or has none. *)
LEMMA DestroyedState ==
  ASSUME NEW m, NEW b, NEW S, State(m, b, S), NEW x \in InUse(b)
  PROVE  State(auto_buffer_destroy(m, b[x]), Changed(b, x, None), Changed(S, x, << >>))
<1> DEFINE o == b[x].at
           v == auto_buffer_destroy(m, b[x])
<1>2. x \in Buffers /\ Fits(x, b[x], S[x]) /\ o \in DOMAIN m /\ m[o] = Cells(b[x].cap, S[x])
  BY InUseFacts
<1>3. /\ b[x].cap \in Nat /\ N \in Nat
      /\ b[x].cap > N => o \in Blocks
      /\ b[x].cap <= N => b[x].cap = N /\ o = x
  BY <1>2, FitsFacts, Apart
<1>5. /\ x \in DOMAIN m /\ DOMAIN m = Buffers \cup {b[y].at : y \in InUse(b)}
      /\ o # x => m[x] = Cells(N, << >>)
  BY <1>2 DEF State, Stored
<1>11. /\ b[x].cap > N => v = [d \in DOMAIN m \ {o} |-> m[d]]
       /\ b[x].cap <= N => v = [m EXCEPT ![o] = Cells(N, << >>)]
  BY <1>2, DestroyedIs
<1>12. \A y \in InUse(b) : y # x => b[y].at # o
  BY <1>2 DEF State, Holding
<1>14. x \notin Blocks /\ (o \in Blocks => o \notin Buffers)
  BY <1>2, Apart
<1> HIDE DEF o, v
<1>15. DOMAIN v = Buffers \cup {b[y].at : y \in InUse(b) \ {x}}
  <2>1. DOMAIN m = Buffers \cup {b[y].at : y \in InUse(b) \ {x}} \cup {o}
    BY <1>5 DEF o
  <2>2. CASE b[x].cap > N
    <3>1. DOMAIN v = DOMAIN m \ {o} /\ o \in Blocks
      BY <1>3, <1>11, <2>2
    <3>2. o \notin Buffers /\ o \notin {b[y].at : y \in InUse(b) \ {x}}
      BY <1>12, <1>14, <3>1
    <3> QED BY <2>1, <3>1, <3>2
  <2>3. CASE b[x].cap <= N
    <3>1. DOMAIN v = DOMAIN m /\ o \in Buffers
      BY <1>2, <1>3, <1>11, <2>3
    <3> QED BY <2>1, <3>1
  <2> QED BY <1>3, <2>2, <2>3
<1>17. v[x] = Cells(N, << >>)
  <2>1. CASE b[x].cap > N
    <3>1. x # o /\ m[x] = Cells(N, << >>)
      BY <1>3, <1>5, <1>14, <2>1
    <3> QED BY <1>5, <1>11, <2>1, <3>1
  <2>2. CASE b[x].cap <= N
    <3>1. o = x
      BY <1>3, <2>2
    <3> QED BY <1>5, <1>11, <2>2, <3>1
  <2> QED BY <1>3, <2>1, <2>2
<1>18. \A d \in DOMAIN v : d # x => v[d] = m[d]
  BY <1>3, <1>11
<1>20. State(v, Changed(b, x, None), Changed(S, x, << >>))
  BY <1>2, <1>15, <1>17, <1>18, Taken
<1> QED BY <1>20 DEF v

-----------------------------------------------------------------------------
(* What the buffers hold, and the sequences that they are seen as.           *)

HeldIn(m, b) ==
    [x \in Buffers |-> IF x \in InUse(b) THEN Contents([mem |-> m, buf |-> b], x) ELSE << >>]
Held == HeldIn(mem, buf)

View(b, S) == [x \in Buffers |-> IF b[x] # None THEN S[x] ELSE None]

(* An assertion fails only where programs erase nothing from a full buffer.  *)
Sound == failed => "erase_nothing" \in Calls

BufferInv == State(mem, buf, Held) /\ Sound

LEMMA GivesWorld ==
  ASSUME NEW m, NEW b, NEW S, State(m, b, S)
  PROVE  Gives([mem |-> m, buf |-> b], b, S)
BY DEF Gives

LEMMA HeldIs ==
  ASSUME NEW m, NEW b, NEW S, State(m, b, S)
  PROVE  S = HeldIn(m, b)
<1> DEFINE w == [mem |-> m, buf |-> b]
<1>1. Gives(w, b, S)
  BY GivesWorld
<1> HIDE DEF w
<1>2. \A x \in InUse(b) : Contents(w, x) = S[x]
  BY <1>1, ContentsAre
<1>3. S \in [Buffers -> Seq(Values)] /\ \A x \in Buffers \ InUse(b) : S[x] = << >>
  BY DEF State, Holding
<1>4. S = [x \in Buffers |-> IF x \in InUse(b) THEN Contents(w, x) ELSE << >>]
  BY <1>2, <1>3
<1> QED BY <1>4 DEF HeldIn, w

ViewIn(m, b) ==
    [x \in Buffers |-> IF ~(b[x] # None) THEN None
                       ELSE IF b[x].at = None THEN [k \in 1..b[x].size |-> Bad]
                       ELSE Contents([mem |-> m, buf |-> b], x)]

LEMMA ViewedIn ==
  /\ viewed = ViewIn(mem, buf) /\ viewed' = ViewIn(mem', buf')
  /\ Held = HeldIn(mem, buf) /\ Held' = HeldIn(mem', buf')
  /\ World = [mem |-> mem, buf |-> buf]
BY DEF viewed, ViewIn, Held, World, There, HeldIn, Contents, InUse

LEMMA ViewIs ==
  ASSUME NEW m, NEW b, NEW S, State(m, b, S)
  PROVE  ViewIn(m, b) = View(b, S)
<1> DEFINE w == [mem |-> m, buf |-> b]
<1>1. Gives(w, b, S)
  BY GivesWorld
<1> HIDE DEF w
<1>2. \A x \in InUse(b) : Contents(w, x) = S[x]
  BY <1>1, ContentsAre
<1>3. \A x \in InUse(b) : b[x].at # None
  BY DEF State, Holding, Fits
<1>4. \A x \in Buffers : (IF ~(b[x] # None) THEN None
                          ELSE IF b[x].at = None THEN [k \in 1..b[x].size |-> Bad]
                          ELSE Contents(w, x))
                         = IF b[x] # None THEN S[x] ELSE None
  BY <1>2, <1>3 DEF InUse
<1> QED BY <1>4 DEF ViewIn, View, w

Alike(c, b) == \A y \in Buffers : (c[y] = None) = (b[y] = None)

LEMMA AlikeChanged ==
  ASSUME NEW b, NEW S, Holding(b, S), NEW x \in Buffers, b[x] # None, NEW r \in Records
  PROVE  Alike(Changed(b, x, r), b)
BY ChangedAre, Apart DEF Alike

LEMMA AlikeSame == ASSUME NEW b PROVE Alike(b, b)
BY DEF Alike

LEMMA ResizedFacts ==
  ASSUME NEW b, NEW S, Holding(b, S), NEW x \in InUse(b), NEW n \in Nat
  PROVE  /\ Alike(Resized(b, x, n), b) /\ InUse(Resized(b, x, n)) = InUse(b)
         /\ \A y \in InUse(b) : Resized(b, x, n)[y].cap = b[y].cap /\ Resized(b, x, n)[y].at = b[y].at
         /\ \A y \in Buffers : y # x => Resized(b, x, n)[y] = b[y]
         /\ Resized(b, x, n)[x].size = n
<1> DEFINE r == [at |-> b[x].at, cap |-> b[x].cap, size |-> n]
<1>1. x \in Buffers /\ b[x] \in Records /\ b[x] # None /\ b[x].at # None
  BY DEF Holding, Fits, InUse
<1>2. r.at = b[x].at /\ r.cap = b[x].cap /\ r.size = n /\ r \in Records /\ r # None
  BY <1>1, RecordsAre, Apart DEF Records
<1>3. Resized(b, x, n) = Changed(b, x, r)
  BY ResizedIs
<1> HIDE DEF r
<1>4. Alike(Changed(b, x, r), b)
  BY <1>1, <1>2, AlikeChanged
<1>5. InUse(Changed(b, x, r)) = InUse(b)
  <2>1. InUse(Changed(b, x, r)) = InUse(b) \cup {x}
    BY <1>1, <1>2, InUseChanged
  <2> QED BY <2>1
<1>6. Changed(b, x, r)[x] = r /\ \A y \in Buffers : y # x => Changed(b, x, r)[y] = b[y]
  BY <1>1, ChangedAre
<1> QED BY <1>2, <1>3, <1>4, <1>5, <1>6 DEF InUse

(* The step goes to buffers that hold S, and creates or destroys none. *)
Reached(S) == State(mem', buf', S) /\ Alike(buf', buf)

LEMMA EndsReached ==
  ASSUME NEW w, NEW b, NEW S, Gives(w, b, S), Alike(b, buf), NEW how, Ends(w, how)
  PROVE  Reached(S) /\ outcome' = how
BY GivesFacts DEF Ends, Reached

LEMMA StateSame ==
  ASSUME State(mem, buf, Held), NEW how, Ends(World, how)
  PROVE  Reached(Held) /\ outcome' = how
BY AlikeSame DEF Ends, World, Reached

LEMMA ViewedSame ==
  ASSUME State(mem, buf, Held), Reached(Held)
  PROVE  viewed' = viewed
<1>1. viewed = View(buf, Held) /\ viewed' = View(buf', Held)
  BY ViewIs, ViewedIn DEF Reached
<1>2. \A y \in Buffers : (buf'[y] = None) = (buf[y] = None)
  BY DEF Reached, Alike
<1>3. View(buf', Held) = View(buf, Held)
  BY <1>2 DEF View
<1> QED BY <1>1, <1>3

LEMMA ViewedBecomes ==
  ASSUME State(mem, buf, Held), NEW x \in Buffers, buf[x] # None, NEW s, Reached(Changed(Held, x, s))
  PROVE  viewed' = [viewed EXCEPT ![x] = s] /\ viewed[x] = Held[x]
<1> DEFINE S == Held
           Z == Changed(S, x, s)
<1>1. viewed = View(buf, S) /\ viewed' = View(buf', Z)
  BY ViewIs, ViewedIn DEF Reached
<1>2. \A y \in Buffers : (buf'[y] = None) = (buf[y] = None)
  BY DEF Reached, Alike
<1>3. Holding(buf, S)
  BY DEF State
<1> HIDE DEF S
<1>4. Z[x] = s /\ \A y \in Buffers : y # x => Z[y] = S[y]
  BY <1>3, ChangedAre
<1> HIDE DEF Z
<1>5. View(buf', Z) = [View(buf, S) EXCEPT ![x] = s] /\ View(buf, S)[x] = S[x]
  BY <1>2, <1>4 DEF View
<1> QED BY <1>1, <1>5 DEF S

LEMMA ViewedAre ==
  ASSUME State(mem, buf, Held)
  PROVE  /\ \A x \in Buffers : There(x) => viewed[x] = Held[x] /\ viewed[x] # None
         /\ \A x \in Buffers : ~There(x) => viewed[x] = None
         /\ Held \in [Buffers -> Seq(Values)]
<1>1. viewed = View(buf, Held)
  BY ViewIs, ViewedIn
<1>2. Held \in [Buffers -> Seq(Values)]
  BY DEF State, Holding
<1> QED BY <1>1, <1>2, Apart DEF View, There

(* is_valid() of a buffer in use. *)
LEMMA Valid ==
  ASSUME NEW b, NEW S, Holding(b, S), NEW x \in InUse(b)
  PROVE  is_valid(b[x], x)
<1>1. Fits(x, b[x], S[x]) /\ x \in Buffers
  BY DEF Holding, InUse
<1>2. /\ b[x].size \in Nat /\ b[x].cap \in Nat /\ b[x].size <= b[x].cap
      /\ b[x].cap >= N
      /\ b[x].cap > N => b[x].at \in Blocks
  BY <1>1, FitsFacts
<1>3. b[x].at = x => ~(b[x].cap > N)
  BY <1>1, <1>2, Apart
<1> QED BY <1>2, <1>3, Apart DEF is_valid, is_on_stack

LEMMA MaxIs ==
  ASSUME NEW a \in Nat, NEW c \in Nat
  PROVE  Max({a, c}) \in Nat /\ Max({a, c}) >= a /\ Max({a, c}) >= c /\ Max({a, c}) \in {a, c}
<1>1. \E z \in {a, c} : \A y \in {a, c} : z >= y
  BY DEF Max
<1>2. Max({a, c}) \in {a, c} /\ \A y \in {a, c} : Max({a, c}) >= y
  BY <1>1 DEF Max
<1> QED BY <1>2

LEMMA MinIs ==
  ASSUME NEW a \in Nat, NEW c \in Nat
  PROVE  Min({a, c}) \in Nat /\ Min({a, c}) <= a /\ Min({a, c}) <= c /\ Min({a, c}) \in {a, c}
<1>1. \E z \in {a, c} : \A y \in {a, c} : z <= y
  BY DEF Min
<1>2. Min({a, c}) \in {a, c} /\ \A y \in {a, c} : Min({a, c}) <= y
  BY <1>1 DEF Min
<1> QED BY <1>2

-----------------------------------------------------------------------------
(* The steps that BufferContents allows. *)

Goes == BufferInv' /\ Sequence!Next

LEMMA ReachedInv ==
  ASSUME NEW S, Reached(S), Sound'
  PROVE  BufferInv'
<1>1. State(mem', buf', S) /\ S = HeldIn(mem', buf')
  BY HeldIs DEF Reached
<1>2. Held' = S
  BY <1>1, ViewedIn
<1> QED BY <1>1, <1>2 DEF BufferInv, Sound

LEMMA GoesSame ==
  ASSUME BufferInv, Reached(Held), Sound', outcome' = "done" \/ outcome' = "strong"
  PROVE  Goes
<1>1. viewed' = viewed
  BY ViewedSame DEF BufferInv
<1>2. BufferInv'
  BY ReachedInv
<1> QED BY <1>1, <1>2 DEF Goes, Sequence!Next, Sequence!Done

(* What a step that only x takes does to what is seen. *)
LEMMA SeenBecomes ==
  ASSUME BufferInv, NEW x \in Buffers, There(x), NEW s \in Seq(Values), Reached(Changed(Held, x, s))
  PROVE  /\ viewed' = [viewed EXCEPT ![x] = s] /\ viewed[x] = Held[x]
         /\ viewed'[x] = s /\ s # None /\ viewed[x] # None
         /\ Held[x] \in Seq(Values)
<1>1. viewed' = [viewed EXCEPT ![x] = s] /\ viewed[x] = Held[x]
  BY ViewedBecomes DEF BufferInv, There
<1>2. DOMAIN viewed = Buffers
  BY DEF viewed, There
<1>3. Held[x] \in Seq(Values)
  BY ViewedAre DEF BufferInv
<1> HIDE DEF Held
<1> QED BY <1>1, <1>2, <1>3, Apart

LEMMA GoesBasic ==
  ASSUME BufferInv, NEW x \in Buffers, There(x), NEW s \in Seq(Values), Reached(Changed(Held, x, s)),
         Sound', outcome' = "basic"
  PROVE  Goes
<1>1. BufferInv'
  BY ReachedInv
<1>2. /\ viewed' = [viewed EXCEPT ![x] = s]
      /\ viewed'[x] = s /\ s # None /\ viewed[x] # None
  BY SeenBecomes
<1>3. viewed'[x] \in Seq(Elems \cup {Default})
  BY <1>2 DEF Values
<1> QED BY <1>1, <1>2, <1>3 DEF Goes, Sequence!Next, Sequence!There, Sequence!Becomes,
                                Sequence!BecomesSequence

LEMMA GoesShift ==
  ASSUME BufferInv, NEW x \in Buffers, There(x), NEW s \in Seq(Values), Reached(Changed(Held, x, s)),
         Sound', outcome' = "shifted", Len(s) > Len(Held[x])
  PROVE  Goes
<1>1. BufferInv'
  BY ReachedInv
<1>2. /\ viewed' = [viewed EXCEPT ![x] = s] /\ viewed[x] = Held[x]
      /\ viewed'[x] = s /\ s # None /\ viewed[x] # None
  BY SeenBecomes
<1>3. Sequence!Shift(x)
  BY <1>2 DEF Sequence!Shift, Sequence!There, Sequence!Becomes, Sequence!BecomesSequence, Values
<1> QED BY <1>1, <1>3 DEF Goes, Sequence!Next

LEMMA GoesAssign ==
  ASSUME BufferInv, NEW x \in Buffers, NEW y \in Buffers, There(x), There(y),
         Reached(Changed(Held, x, Held[y])), Sound', outcome' = "done"
  PROVE  Goes
<1>0. Held[y] \in Seq(Values)
  BY ViewedAre DEF BufferInv
<1>1. BufferInv'
  BY ReachedInv
<1>2. /\ viewed' = [viewed EXCEPT ![x] = Held[y]] /\ viewed[x] # None
  BY <1>0, SeenBecomes
<1>3. viewed[y] = Held[y] /\ viewed[y] # None
  BY ViewedAre DEF BufferInv
<1>4. Sequence!Assign(x, y)
  BY <1>2, <1>3 DEF Sequence!Assign, Sequence!There, Sequence!Becomes
<1> QED BY <1>1, <1>4 DEF Goes, Sequence!Next, Sequence!Done

LEMMA GoesErase ==
  ASSUME BufferInv, NEW x \in Buffers, There(x), NEW i \in 0..Len(Held[x]), NEW j \in i..Len(Held[x]),
         NEW s \in Seq(Values), s = SubSeq(Held[x], 1, i) \o SubSeq(Held[x], j + 1, Len(Held[x])),
         Reached(Changed(Held, x, s)), Sound', outcome' = "done"
  PROVE  Goes
<1>1. BufferInv'
  BY ReachedInv
<1>2. /\ viewed' = [viewed EXCEPT ![x] = s] /\ viewed[x] = Held[x] /\ viewed[x] # None
  BY SeenBecomes
<1>3. Sequence!Erase(x)
  BY <1>2 DEF Sequence!Erase, Sequence!There, Sequence!Becomes
<1> QED BY <1>1, <1>3 DEF Goes, Sequence!Next, Sequence!Done

(* s is t with n elements more behind the first i. *)
Widened(t, s, i, n) ==
    /\ i \in 0..Len(t) /\ n \in Nat \ {0} /\ Len(s) = Len(t) + n
    /\ \A k \in 1..i : s[k] = t[k]
    /\ \A k \in i + 1..Len(t) : s[k + n] = t[k]

LEMMA WidenedIs ==
  ASSUME NEW t \in Seq(Values), NEW s \in Seq(Values), NEW i, NEW n, Widened(t, s, i, n)
  PROVE  /\ i \in 0..Len(t) /\ Len(s) - Len(t) = n /\ n > 0
         /\ SubSeq(s, 1, i) = SubSeq(t, 1, i)
         /\ SubSeq(s, i + n + 1, Len(s)) = SubSeq(t, i + 1, Len(t))
<1> DEFINE l == Len(t)
           p == SubSeq(s, 1, i)
           q == SubSeq(t, 1, i)
           u == Part(s, i + n, l + n)
           v == Part(t, i, l)
<1>1. /\ i \in Nat /\ n \in Nat /\ n > 0 /\ l \in Nat /\ i <= l /\ Len(s) = l + n
      /\ \A k \in 1..i : s[k] = t[k]
      /\ \A k \in i + 1..l : s[k + n] = t[k]
  BY DEF Widened
<1>2. p \in Seq(Values) /\ Len(p) = i /\ \A k \in 1..i : p[k] = s[k]
  <2>1. i \in 0..Len(s)
    BY <1>1
  <2> QED BY <2>1, FirstElements
<1>3. q \in Seq(Values) /\ Len(q) = i /\ \A k \in 1..i : q[k] = t[k]
  <2>1. i \in 0..Len(t)
    BY <1>1
  <2> QED BY <2>1, FirstElements
<1>4. u \in Seq(Values) /\ Len(u) = l - i /\ \A k \in 1..l - i : u[k] = s[i + n + k]
  <2>1. i + n \in 0..Len(s) /\ l + n \in i + n..Len(s) /\ (l + n) - (i + n) = l - i
    BY <1>1
  <2>2. /\ Part(s, i + n, l + n) \in Seq(Values) /\ Len(Part(s, i + n, l + n)) = (l + n) - (i + n)
        /\ \A k \in 1..(l + n) - (i + n) : Part(s, i + n, l + n)[k] = s[(i + n) + k]
    <3> HIDE DEF l
    <3> QED BY <2>1, PartElements
  <2> QED BY <2>1, <2>2
<1>5. v \in Seq(Values) /\ Len(v) = l - i /\ \A k \in 1..l - i : v[k] = t[i + k]
  <2>1. i \in 0..Len(t) /\ l \in i..Len(t)
    BY <1>1
  <2> QED BY <2>1, PartElements
<1>6. u = SubSeq(s, i + n + 1, Len(s)) /\ v = SubSeq(t, i + 1, Len(t))
  <2>1. Len(s) = l + n
    BY <1>1
  <2> QED BY <2>1 DEF Part
<1> HIDE DEF p, q, u, v, l
<1>7. p = q
  BY <1>1, <1>2, <1>3
<1>8. \A k \in 1..l - i : u[k] = v[k]
  <2> TAKE k \in 1..l - i
  <2>1. i + k \in i + 1..l /\ (i + k) + n = i + n + k
    BY <1>1
  <2>2. s[(i + k) + n] = t[i + k]
    BY <1>1, <2>1
  <2> QED BY <1>4, <1>5, <2>1, <2>2
<1>9. u = v
  BY <1>4, <1>5, <1>8
<1> QED BY <1>1, <1>6, <1>7, <1>9 DEF p, q, l

LEMMA GoesInsert ==
  ASSUME BufferInv, NEW x \in Buffers, There(x), NEW s \in Seq(Values), NEW i, NEW n,
         Widened(Held[x], s, i, n), Reached(Changed(Held, x, s)), Sound', outcome' = "done"
  PROVE  Goes
<1>1. BufferInv'
  BY ReachedInv
<1>2. /\ viewed' = [viewed EXCEPT ![x] = s] /\ viewed[x] = Held[x] /\ viewed[x] # None
      /\ viewed'[x] = s /\ s # None /\ Held[x] \in Seq(Values)
  BY SeenBecomes
<1> DEFINE t == Held[x]
<1>3. /\ i \in 0..Len(t) /\ Len(s) - Len(t) = n /\ n > 0
      /\ SubSeq(s, 1, i) = SubSeq(t, 1, i)
      /\ SubSeq(s, i + n + 1, Len(s)) = SubSeq(t, i + 1, Len(t))
  <2>1. t \in Seq(Values) /\ Widened(t, s, i, n)
    BY <1>2
  <2> HIDE DEF t
  <2> QED BY <2>1, WidenedIs
<1> HIDE DEF t
<1>4. viewed[x] = t /\ viewed'[x] = s
  BY <1>2 DEF t
<1>5. Sequence!Insert(x)
  <2>1. viewed'[x] \in Seq(Elems \cup {Default})
    BY <1>4 DEF Values
  <2> QED BY <1>2, <1>3, <1>4, <2>1
        DEF Sequence!Insert, Sequence!There, Sequence!Becomes, Sequence!BecomesSequence
<1> QED BY <1>1, <1>5 DEF Goes, Sequence!Next, Sequence!Done

LEMMA GoesSwap ==
  ASSUME BufferInv, NEW x \in Buffers, NEW y \in Buffers, There(x), There(y),
         Reached([Held EXCEPT ![x] = Held[y], ![y] = Held[x]]), Sound', outcome' = "done"
  PROVE  Goes
<1> DEFINE S == Held
           Z == [S EXCEPT ![x] = S[y], ![y] = S[x]]
<1>1. BufferInv'
  BY ReachedInv
<1>2. viewed = View(buf, S) /\ viewed' = View(buf', Z)
  BY ViewIs, ViewedIn DEF Reached, BufferInv
<1>3. \A z \in Buffers : (buf'[z] = None) = (buf[z] = None)
  BY DEF Reached, Alike
<1>4. S \in [Buffers -> Seq(Values)] /\ buf[x] # None /\ buf[y] # None
  BY ViewedAre DEF BufferInv, There
<1> HIDE DEF S
<1>5. View(buf', Z) = [View(buf, S) EXCEPT ![x] = View(buf, S)[y], ![y] = View(buf, S)[x]]
  BY <1>3, <1>4 DEF View
<1>6. viewed[x] # None /\ viewed[y] # None
  BY ViewedAre DEF BufferInv
<1>7. Sequence!Swap(x, y)
  BY <1>2, <1>5, <1>6 DEF Sequence!Swap, Sequence!There
<1> QED BY <1>1, <1>7 DEF Goes, Sequence!Next, Sequence!Done

LEMMA GoesSwapBasic ==
  ASSUME BufferInv, NEW S, Reached(S), Sound', outcome' = "basic swap"
  PROVE  Goes
<1>1. BufferInv'
  BY ReachedInv
<1>2. viewed = View(buf, Held) /\ viewed' = View(buf', S)
  BY ViewIs, ViewedIn DEF Reached, BufferInv
<1>3. \A z \in Buffers : (buf'[z] = None) = (buf[z] = None)
  BY DEF Reached, Alike
<1>4. Held \in [Buffers -> Seq(Values)] /\ S \in [Buffers -> Seq(Values)]
  BY DEF BufferInv, Reached, State, Holding
<1> HIDE DEF Held
<1>5. \A z \in Buffers : IF viewed[z] # None THEN viewed'[z] \in Seq(Elems \cup {Default})
                        ELSE viewed'[z] = None
  <2> TAKE z \in Buffers
  <2>1. Held[z] # None /\ S[z] \in Seq(Values)
    BY <1>4, Apart
  <2>2. /\ viewed[z] = None <=> buf[z] = None
        /\ buf'[z] = None => viewed'[z] = None
        /\ buf'[z] # None => viewed'[z] = S[z]
    BY <1>2, <2>1 DEF View
  <2>3. buf'[z] = None <=> buf[z] = None
    BY <1>3
  <2> QED BY <2>1, <2>2, <2>3 DEF Values
<1> QED BY <1>1, <1>5 DEF Goes, Sequence!Next, Sequence!There

(* A buffer comes into being, and goes. *)
LEMMA GoesConstruct ==
  ASSUME BufferInv, NEW x \in Buffers, ~There(x), NEW r \in Records, buf' = Changed(buf, x, r),
         NEW s \in Seq(Values), State(mem', buf', Changed(Held, x, s)), Sound', outcome' = "done"
  PROVE  Goes
<1> DEFINE S == Held
           Z == Changed(S, x, s)
<1>1. Held' = Z
  BY HeldIs, ViewedIn
<1>2. viewed = View(buf, S) /\ viewed' = View(buf', Z)
  BY ViewIs, ViewedIn DEF BufferInv
<1>3. Holding(buf, S)
  BY DEF BufferInv, State
<1> HIDE DEF S
<1>4. /\ buf'[x] = r /\ Z[x] = s /\ \A z \in Buffers : z # x => buf'[z] = buf[z] /\ Z[z] = S[z]
  BY <1>3, ChangedAre
<1>5. r # None /\ s # None
  BY Apart
<1> HIDE DEF Z
<1>6. View(buf', Z) = [View(buf, S) EXCEPT ![x] = s] /\ View(buf', Z)[x] = s
  BY <1>4, <1>5 DEF View
<1>7. viewed[x] = None
  BY ViewedAre DEF BufferInv
<1>8. Sequence!Construct(x)
  <2>1. viewed'[x] \in Seq(Elems \cup {Default})
    BY <1>2, <1>6 DEF Values
  <2> QED BY <1>2, <1>5, <1>6, <1>7, <2>1
        DEF Sequence!Construct, Sequence!There, Sequence!Becomes, Sequence!BecomesSequence
<1>9. BufferInv'
  BY <1>1 DEF BufferInv, S, Z
<1> QED BY <1>8, <1>9 DEF Goes, Sequence!Next, Sequence!Done

LEMMA GoesDestroy ==
  ASSUME BufferInv, NEW x \in Buffers, There(x), buf' = Changed(buf, x, None),
         State(mem', buf', Changed(Held, x, << >>)), Sound', outcome' = "done"
  PROVE  Goes
<1> DEFINE S == Held
           Z == Changed(S, x, << >>)
<1>1. Held' = Z
  BY HeldIs, ViewedIn
<1>2. viewed = View(buf, S) /\ viewed' = View(buf', Z)
  BY ViewIs, ViewedIn DEF BufferInv
<1>3. Holding(buf, S)
  BY DEF BufferInv, State
<1> HIDE DEF S
<1>4. /\ buf'[x] = None /\ \A z \in Buffers : z # x => buf'[z] = buf[z] /\ Z[z] = S[z]
  BY <1>3, ChangedAre
<1> HIDE DEF Z
<1>6. View(buf', Z) = [View(buf, S) EXCEPT ![x] = None]
  BY <1>4 DEF View
<1>7. viewed[x] # None
  BY ViewedAre DEF BufferInv
<1>8. Sequence!Destroy(x)
  BY <1>2, <1>6, <1>7 DEF Sequence!Destroy, Sequence!There, Sequence!Becomes
<1>9. BufferInv'
  BY <1>1 DEF BufferInv, S, Z
<1> QED BY <1>8, <1>9 DEF Goes, Sequence!Next, Sequence!Done

-----------------------------------------------------------------------------
(* The operations, one by one. *)

LEMMA ThereFacts ==
  ASSUME BufferInv, NEW x \in Buffers, There(x)
  PROVE  /\ x \in InUse(buf) /\ Fits(x, buf[x], Held[x]) /\ buf[x] \in Records
         /\ buf[x].size \in Nat /\ buf[x].cap \in Nat /\ N \in Nat
         /\ buf[x].size = Len(Held[x]) /\ buf[x].size <= buf[x].cap /\ buf[x].cap >= N
         /\ Held[x] \in Seq(Values) /\ There(x)
         /\ Contents(World, x) = Held[x]
         /\ Gives(World, buf, Held) /\ World.mem = mem /\ World.buf = buf
         /\ Holding(buf, Held) /\ State(mem, buf, Held)
<1>1. x \in InUse(buf) /\ There(x)
  BY DEF There, InUse
<1>2. State(mem, buf, Held) /\ Holding(buf, Held)
  BY DEF BufferInv, State
<1>3. Fits(x, buf[x], Held[x])
  BY <1>1, <1>2 DEF Holding
<1>4. Gives(World, buf, Held)
  BY <1>2, GivesWorld DEF World
<1>5. Contents(World, x) = Held[x]
  BY <1>1, <1>4, ContentsAre
<1>6. World.mem = mem /\ World.buf = buf
  BY DEF World
<1> HIDE DEF Held
<1> QED BY <1>1, <1>2, <1>3, <1>4, <1>5, <1>6, FitsFacts, Apart

LEMMA AssertedHolds ==
  ASSUME BufferInv, NEW c, Asserted(c), c
  PROVE  Sound'
BY DEF BufferInv, Sound, Asserted

LEMMA ThrowsGoes ==
  ASSUME BufferInv, Throws("strong")
  PROVE  Goes
<1>1. Sound' /\ State(mem, buf, Held) /\ Ends(World, "strong")
  BY DEF Throws, BufferInv, Sound
<1>2. Reached(Held) /\ outcome' = "strong"
  BY <1>1, StateSame
<1> QED BY <1>1, <1>2, GoesSame

LEMMA SameChanged ==
  ASSUME NEW b, NEW S, Holding(b, S), NEW x \in Buffers
  PROVE  Changed(S, x, S[x]) = S
BY DEF Holding, Changed

(* reserve_impl moves the elements to other memory: v is the world then, and *)
(* r the record of x when its capacity is not less than N.                   *)
Rehoused(v, b, S, x, c, r) ==
    /\ r \in Records /\ r.cap = Roomy(c) /\ r.size = Len(S[x]) /\ r.at # None
    /\ v = [mem |-> v.mem, buf |-> Changed(b, x, [r EXCEPT !.cap = c])]
    /\ State(v.mem, Changed(b, x, r), S)

LEMMA ReservedIs ==
  ASSUME NEW w, NEW b, NEW S, Gives(w, b, S), NEW x \in InUse(b),
         NEW c \in Nat, c > N \/ b[x].cap > N, Len(S[x]) <= c
  PROVE  Rehoused(reserve_impl(w, x, c), b, S, x, c, NewRecord(w.mem, x, c, Len(S[x])))
<1> DEFINE r == NewRecord(w.mem, x, c, Len(S[x]))
           v == reserve_impl(w, x, c)
           m2 == auto_buffer_destroy(Made(w.mem, x, c, S[x]), b[x])
<1>1. w.buf = b /\ State(w.mem, b, S) /\ Holding(b, S) /\ x \in Buffers
  BY GivesFacts DEF InUse
<1>2. Contents(w, x) = S[x]
  BY ContentsAre
<1>3. Fits(x, b[x], S[x])
  BY <1>1, InUseFacts
<1>4. b[x].size = Len(S[x]) /\ S[x] \in Seq(Values)
  BY <1>3, FitsFacts
<1>5. Len(S[x]) <= Roomy(c)
  BY <1>4, RoomyIs
<1>6. Fits(x, r, S[x])
  BY <1>1, <1>4, <1>5, NewRecordFits
<1>7. r = [at |-> Place(w.mem, x, c), cap |-> Roomy(c), size |-> Len(S[x])]
  BY DEF NewRecord
<1>8. r \in Records /\ r.at # None
  BY <1>6 DEF Fits
<1>9. [r EXCEPT !.cap = c] = [at |-> Place(w.mem, x, c), cap |-> c, size |-> b[x].size]
  BY <1>4, <1>7
<1>10. State(m2, Changed(b, x, r), Changed(S, x, S[x]))
  BY <1>1, <1>4, <1>5, MovedState
<1>11. Changed(S, x, S[x]) = S
  BY <1>1, SameChanged
<1>12. v = [mem |-> m2, buf |-> Changed(b, x, [r EXCEPT !.cap = c])]
  BY <1>1, <1>2, <1>9 DEF reserve_impl, Made, Changed
<1> HIDE DEF r, v, m2
<1>13. v = [mem |-> v.mem, buf |-> Changed(b, x, [r EXCEPT !.cap = c])] /\ v.mem = m2
  BY <1>12
<1>14. State(v.mem, Changed(b, x, r), S)
  BY <1>10, <1>11, <1>13
<1>15. r.cap = Roomy(c) /\ r.size = Len(S[x])
  BY <1>7
<1> QED BY <1>8, <1>13, <1>14, <1>15 DEF r, v, Rehoused

LEMMA ReservedGives ==
  ASSUME NEW w, NEW b, NEW S, Gives(w, b, S), NEW x \in InUse(b),
         NEW c \in Nat, c > N, Len(S[x]) <= c
  PROVE  \E r \in Records :
            /\ r.cap = c /\ r.size = Len(S[x]) /\ r.at # None
            /\ Gives(reserve_impl(w, x, c), Changed(b, x, r), S)
<1> DEFINE r == NewRecord(w.mem, x, c, Len(S[x]))
           v == reserve_impl(w, x, c)
<1>1. /\ r \in Records /\ r.cap = Roomy(c) /\ r.size = Len(S[x]) /\ r.at # None
      /\ v = [mem |-> v.mem, buf |-> Changed(b, x, [r EXCEPT !.cap = c])]
      /\ State(v.mem, Changed(b, x, r), S)
  BY ReservedIs DEF Rehoused
<1>2. Roomy(c) = c
  BY RoomyIs
<1> HIDE DEF r, v
<1>3. [r EXCEPT !.cap = c] = r
  BY <1>1, <1>2 DEF Records
<1>4. Gives(v, Changed(b, x, r), S)
  BY <1>1, <1>3 DEF Gives
<1> QED BY <1>1, <1>2, <1>4 DEF v

LEMMA ReserveDone ==
  ASSUME BufferInv, NEW x \in Buffers, There(x), NEW c \in Nat, c > buf[x].cap,
         Ends(reserve_impl(World, x, c), "done"), Sound'
  PROVE  Goes
<1>1. /\ x \in InUse(buf) /\ Gives(World, buf, Held) /\ Len(Held[x]) <= c /\ c > N
      /\ Holding(buf, Held) /\ buf[x] # None
  BY ThereFacts DEF There
<1>2. PICK r \in Records : r.cap = c /\ Gives(reserve_impl(World, x, c), Changed(buf, x, r), Held)
  BY <1>1, ReservedGives
<1>3. Alike(Changed(buf, x, r), buf)
  BY <1>1, AlikeChanged
<1>4. Reached(Held) /\ outcome' = "done"
  BY <1>2, <1>3, EndsReached
<1> QED BY <1>4, GoesSame

(* The capacity that the operation asks for. *)
LEMMA ReservedCap ==
  ASSUME BufferInv, NEW x \in Buffers, NEW c
  PROVE  reserve_impl(World, x, c).buf[x].cap = c
<1>1. buf \in [Buffers -> Records \cup {None}]
  BY DEF BufferInv, State, Holding
<1> QED BY <1>1 DEF reserve_impl, World

LEMMA CapacityGrows ==
  ASSUME BufferInv, NEW x \in Buffers, There(x), NEW n \in Nat, n > buf[x].cap
  PROVE  /\ new_capacity_impl(buf[x], n) \in Nat /\ new_capacity_impl(buf[x], n) >= n
         /\ new_capacity_impl(buf[x], n) > buf[x].cap
<1>1. buf[x].cap \in Nat /\ buf[x].cap * 4 \in Nat
  BY ThereFacts
<1>2. Max({buf[x].cap * 4, n}) \in Nat /\ Max({buf[x].cap * 4, n}) >= n
  BY <1>1, MaxIs
<1> QED BY <1>1, <1>2 DEF new_capacity_impl

LEMMA ReserveGoes ==
  ASSUME BufferInv, NEW x \in Buffers, NEW n \in Nat, reserve(x, n)
  PROVE  Goes
<1> DEFINE c == new_capacity_impl(buf[x], n)
           w == reserve_impl(World, x, c)
<1>1. There(x) /\ n > buf[x].cap
      /\ ((Ends(w, "done") /\ Asserted(w.buf[x].cap >= n)) \/ Throws("strong"))
  BY DEF reserve
<1>2. c \in Nat /\ c >= n /\ c > buf[x].cap
  BY <1>1, CapacityGrows
<1>3. w.buf[x].cap = c
  BY ReservedCap
<1> HIDE DEF c
<1>4. CASE Ends(w, "done") /\ Asserted(w.buf[x].cap >= n)
  <2>1. Sound'
    BY <1>2, <1>3, <1>4, AssertedHolds
  <2> QED BY <1>1, <1>2, <1>4, <2>1, ReserveDone
<1> QED BY <1>1, <1>4, ThrowsGoes

LEMMA ReservePreciselyGoes ==
  ASSUME BufferInv, NEW x \in Buffers, NEW n \in Nat, reserve_precisely(x, n)
  PROVE  Goes
<1> DEFINE w == reserve_impl(World, x, n)
<1>1. There(x) /\ n > buf[x].cap
      /\ ((Ends(w, "done") /\ Asserted(w.buf[x].cap = n)) \/ Throws("strong"))
  BY DEF reserve_precisely
<1>2. w.buf[x].cap = n
  BY ReservedCap
<1>4. CASE Ends(w, "done") /\ Asserted(w.buf[x].cap = n)
  <2>1. Sound'
    BY <1>2, <1>4, AssertedHolds
  <2> QED BY <1>1, <1>4, <2>1, ReserveDone
<1> QED BY <1>1, <1>4, ThrowsGoes

LEMMA ShrinkGoes ==
  ASSUME BufferInv, NEW x \in Buffers, shrink_to_fit(x)
  PROVE  Goes
<1> DEFINE c == buf[x].size
           v == reserve_impl(World, x, c)
           w == [v EXCEPT !.buf[x].cap = Max({N, @})]
           r == NewRecord(mem, x, c, Len(Held[x]))
           q == [r EXCEPT !.cap = c]
<1>1. /\ There(x) /\ ~(buf[x].cap <= N)
      /\ \/ /\ Ends(w, "done")
            /\ Asserted(IF is_on_stack(w.buf[x]) THEN w.buf[x].size <= w.buf[x].cap
                        ELSE w.buf[x].size = w.buf[x].cap)
         \/ Throws("strong")
  BY DEF shrink_to_fit, is_on_stack
<1>2. /\ x \in InUse(buf) /\ Gives(World, buf, Held) /\ c \in Nat /\ buf[x].cap > N /\ N \in Nat
      /\ Len(Held[x]) = c /\ Holding(buf, Held) /\ World.mem = mem /\ buf[x] # None
  BY <1>1, ThereFacts DEF There
<1>3. /\ r \in Records /\ r.cap = Roomy(c) /\ r.size = Len(Held[x]) /\ r.at # None
      /\ v = [mem |-> v.mem, buf |-> Changed(buf, x, q)]
      /\ State(v.mem, Changed(buf, x, r), Held)
  <2>1. Len(Held[x]) <= c /\ (c > N \/ buf[x].cap > N)
    BY <1>2
  <2> HIDE DEF c
  <2>2. Rehoused(reserve_impl(World, x, c), buf, Held, x, c, NewRecord(World.mem, x, c, Len(Held[x])))
    BY <1>2, <2>1, ReservedIs
  <2>3. Rehoused(v, buf, Held, x, c, r)
    BY <1>2, <2>2
  <2> QED BY <2>3 DEF Rehoused
<1>4. Roomy(c) >= c /\ Roomy(c) >= N /\ Roomy(c) \in Nat /\ (c > N => Roomy(c) = c)
      /\ (c <= N => Roomy(c) = N)
  BY <1>2, RoomyIs
<1>5. Max({N, c}) = Roomy(c)
  BY <1>2, <1>4, MaxIs
<1> HIDE DEF r, v
<1>6. q.cap = c /\ [q EXCEPT !.cap = Roomy(c)] = r
  BY <1>3 DEF Records
<1> HIDE DEF q, c
<1>7. Changed(buf, x, q) \in [Buffers -> Records \cup {None, q}] /\ Changed(buf, x, q)[x] = q
  BY <1>2 DEF Holding, Changed
<1>8. w = [mem |-> v.mem, buf |-> [Changed(buf, x, q) EXCEPT ![x].cap = Max({N, @})]]
  <2> DEFINE z == v.mem
             d == Changed(buf, x, q)
  <2>1. v = [mem |-> z, buf |-> d]
    BY <1>3
  <2> HIDE DEF z, d
  <2>2. [[mem |-> z, buf |-> d] EXCEPT !.buf[x].cap = Max({N, @})]
           = [mem |-> z, buf |-> [d EXCEPT ![x].cap = Max({N, @})]]
    OBVIOUS
  <2>3. w = [[mem |-> z, buf |-> d] EXCEPT !.buf[x].cap = Max({N, @})]
    BY <2>1
  <2> QED BY <2>2, <2>3 DEF z, d
<1>9. [Changed(buf, x, q) EXCEPT ![x].cap = Max({N, @})] = [Changed(buf, x, q) EXCEPT ![x] = r]
  BY <1>5, <1>6, <1>7
<1>10. [Changed(buf, x, q) EXCEPT ![x] = r] = Changed(buf, x, r)
  BY <1>2 DEF Holding, Changed
<1> HIDE DEF w
<1>11. w = [mem |-> w.mem, buf |-> Changed(buf, x, r)] /\ w.mem = v.mem
  BY <1>8, <1>9, <1>10
<1>12. Gives(w, Changed(buf, x, r), Held)
  BY <1>3, <1>11 DEF Gives
<1>13. Alike(Changed(buf, x, r), buf)
  BY <1>2, <1>3, AlikeChanged
<1>14. CASE /\ Ends(w, "done")
            /\ Asserted(IF is_on_stack(w.buf[x]) THEN w.buf[x].size <= w.buf[x].cap
                        ELSE w.buf[x].size = w.buf[x].cap)
  <2>1. w.buf[x] = r
    BY <1>2, <1>11, ChangedAre
  <2>2. r.size = c /\ r.cap = Roomy(c) /\ c \in Nat
    BY <1>2, <1>3
  <2>3. IF is_on_stack(w.buf[x]) THEN w.buf[x].size <= w.buf[x].cap
        ELSE w.buf[x].size = w.buf[x].cap
    BY <1>2, <1>4, <2>1, <2>2 DEF is_on_stack
  <2>4. Sound'
    BY <1>14, <2>3, AssertedHolds
  <2>5. Reached(Held) /\ outcome' = "done"
    BY <1>12, <1>13, <1>14, EndsReached
  <2> QED BY <2>4, <2>5, GoesSame
<1> QED BY <1>1, <1>14, ThrowsGoes DEF w, v, c

LEMMA TwiceChanged ==
  ASSUME NEW b, NEW S, Holding(b, S), NEW x \in Buffers, NEW s, NEW u
  PROVE  /\ Changed(Changed(S, x, s), x, u) = Changed(S, x, u)
         /\ Changed(S, x, s)[x] = s
BY DEF Holding, Changed

LEMMA ValidWorld ==
  ASSUME NEW w, NEW b, NEW S, Gives(w, b, S), NEW x \in InUse(b)
  PROVE  is_valid(w.buf[x], x)
BY GivesFacts, Valid

LEMMA Appended ==
  ASSUME NEW t \in Seq(Values), NEW s \in Seq(Values), s # << >>
  PROVE  /\ Widened(t, t \o s, Len(t), Len(s)) /\ t \o s \in Seq(Values)
         /\ Len(t \o s) = Len(t) + Len(s) /\ Len(s) \in Nat /\ Len(s) > 0 /\ Len(t) \in Nat
<1>1. t \o s \in Seq(Values) /\ Len(t \o s) = Len(t) + Len(s)
      /\ \A k \in 1..Len(t) : (t \o s)[k] = t[k]
  BY ConcatProperties
<1>2. Len(s) \in Nat /\ Len(s) # 0 /\ Len(t) \in Nat
  BY EmptySeq
<1> DEFINE u == t \o s
           l == Len(t)
<1> HIDE DEF u, l
<1>3. l \in Nat /\ l \in 0..l /\ \A k \in l + 1..l : u[k + Len(s)] = t[k]
  BY <1>2 DEF l
<1> QED BY <1>1, <1>2, <1>3 DEF Widened, u, l

LEMMA PopGoes ==
  ASSUME BufferInv, NEW x \in Buffers, NEW n \in Nat, Pop(x, n)
  PROVE  Goes
<1> DEFINE t == Held[x]
           l == Len(t)
           u == SubSeq(t, 1, l - n)
           w == pop_back_n(World, x, n)
           b == Resized(buf, x, l - n)
<1>1. There(x) /\ n <= buf[x].size /\ Ends(w, "done") /\ Sound'
  BY DEF Pop, BufferInv, Sound
<1>2. /\ x \in InUse(buf) /\ Gives(World, buf, Held) /\ t \in Seq(Values) /\ buf[x].size = l
      /\ Holding(buf, Held) /\ There(x)
  BY <1>1, ThereFacts
<1>3. n \in 0..l /\ l \in Nat /\ l - n \in Nat /\ l - n \in 0..l /\ l \in l - n..l
  BY <1>1, <1>2
<1>4. Gives(w, b, Changed(Held, x, u))
  <2> HIDE DEF Held
  <2> QED BY <1>2, <1>3, PoppedBack
<1>5. Alike(b, buf)
  <2> HIDE DEF Held, l
  <2> QED BY <1>2, <1>3, ResizedFacts
<1> HIDE DEF w, b
<1>6. Reached(Changed(Held, x, u)) /\ outcome' = "done"
  <2> HIDE DEF u
  <2> QED BY <1>1, <1>4, <1>5, EndsReached
<1>7. u \in Seq(Values) /\ Len(u) = l - n
  <2> HIDE DEF Held
  <2> QED BY <1>2, <1>3, FirstElements
<1>8. u = SubSeq(t, 1, l - n) \o SubSeq(t, l + 1, l)
  <2>1. SubSeq(t, l + 1, l) = << >>
    <3> HIDE DEF Held
    <3> QED BY <1>2, <1>3
  <2>2. \A z \in Seq(Values) : z \o << >> = z
    OBVIOUS
  <2>3. u \o << >> = u
    <3> HIDE DEF u
    <3> QED BY <1>7, <2>2
  <2> QED BY <2>1, <2>3
<1> HIDE DEF u, t, l
<1>9. l = Len(Held[x]) /\ t = Held[x]
  BY DEF l, t
<1> HIDE DEF Held
<1> QED BY <1>1, <1>2, <1>3, <1>6, <1>7, <1>8, <1>9, GoesErase

LEMMA PushBackGoes ==
  ASSUME BufferInv, NEW x \in Buffers, NEW s \in Seq(Values), s # << >>, push_back(x, s)
  PROVE  Goes
<1> DEFINE n == buf[x].size + Len(s)
           c == new_capacity_impl(buf[x], n)
           v == IF n > buf[x].cap THEN reserve_impl(World, x, c) ELSE World
           w == unchecked_push_back(v, x, s)
           t == Held[x]
<1>1. /\ There(x)
      /\ \/ Ends(w, "done") /\ IsValid(w, x)
         \/ Ends(v, "strong") /\ UNCHANGED failed
         \/ Throws("strong")
  BY DEF push_back
<1>2. /\ x \in InUse(buf) /\ Gives(World, buf, Held) /\ t \in Seq(Values) /\ buf[x].size = Len(t)
      /\ Holding(buf, Held) /\ There(x) /\ buf[x] # None /\ buf[x].cap \in Nat /\ Len(t) \in Nat
      /\ N \in Nat /\ buf[x].cap >= N
  BY <1>1, ThereFacts DEF There
<1>3. n \in Nat /\ n = Len(t) + Len(s) /\ Len(s) \in Nat
  BY <1>2
<1>4. PICK b : Gives(v, b, Held) /\ Alike(b, buf) /\ x \in InUse(b) /\ b[x].cap >= n /\ Holding(b, Held)
               /\ b[x].cap \in Nat
  <2>1. CASE n > buf[x].cap
    <3>1. c \in Nat /\ c >= n /\ c > buf[x].cap
      BY <1>1, <1>3, <2>1, CapacityGrows
    <3> HIDE DEF c
    <3>2. c > N /\ Len(t) <= c
      BY <1>2, <1>3, <3>1
    <3> HIDE DEF n, Held
    <3>3. PICK r \in Records : /\ r.cap = c /\ r.at # None
                               /\ Gives(reserve_impl(World, x, c), Changed(buf, x, r), Held)
      BY <1>2, <3>1, <3>2, ReservedGives
    <3>4. Alike(Changed(buf, x, r), buf)
      BY <1>2, AlikeChanged
    <3>5. Changed(buf, x, r)[x] = r
      BY <1>2, ChangedAre
    <3>6. x \in InUse(Changed(buf, x, r))
      BY <3>3, <3>5, Apart DEF InUse
    <3>7. Holding(Changed(buf, x, r), Held)
      BY <3>3, GivesFacts
    <3> QED BY <2>1, <3>1, <3>3, <3>4, <3>5, <3>6, <3>7
  <2>2. CASE ~(n > buf[x].cap)
    <3>1. v = World /\ buf[x].cap >= n
      BY <1>2, <1>3, <2>2
    <3> QED BY <1>2, <3>1, AlikeSame
  <2> QED BY <2>1, <2>2
<1> HIDE DEF v, n, c
<1>5. CASE Ends(v, "strong") /\ UNCHANGED failed
  <2>1. Reached(Held) /\ outcome' = "strong"
    BY <1>4, <1>5, EndsReached
  <2>2. Sound'
    BY <1>5 DEF BufferInv, Sound
  <2> QED BY <2>1, <2>2, GoesSame
<1>6. CASE Ends(w, "done") /\ IsValid(w, x)
  <2> DEFINE u == t \o s
             d == Resized(b, x, Len(u))
  <2>1. Gives(w, d, Changed(Held, x, u))
    <3> HIDE DEF Held
    <3> QED BY <1>3, <1>4, PushedBack
  <2>2. /\ Widened(t, u, Len(t), Len(s)) /\ u \in Seq(Values) /\ Len(u) \in Nat
    <3> HIDE DEF t
    <3> QED BY <1>2, Appended
  <2> HIDE DEF u, w
  <2>3. Alike(d, b) /\ InUse(d) = InUse(b)
    <3> HIDE DEF Held
    <3> QED BY <1>4, <2>2, ResizedFacts
  <2> HIDE DEF d
  <2>4. Alike(d, buf)
    BY <1>4, <2>3 DEF Alike
  <2>5. Reached(Changed(Held, x, u)) /\ outcome' = "done"
    BY <1>6, <2>1, <2>4, EndsReached
  <2>6. is_valid(w.buf[x], x)
    BY <1>4, <2>1, <2>3, ValidWorld
  <2>7. Sound'
    BY <1>6, <2>6, AssertedHolds DEF IsValid
  <2> HIDE DEF Held
  <2> QED BY <1>2, <2>2, <2>5, <2>7, GoesInsert
<1> QED BY <1>1, <1>5, <1>6, ThrowsGoes DEF v, n, c

LEMMA ThrowsBasic ==
  ASSUME BufferInv, NEW x \in Buffers, There(x), Throws("basic")
  PROVE  Goes
<1>1. Sound' /\ State(mem, buf, Held) /\ Ends(World, "basic")
  BY DEF Throws, BufferInv, Sound
<1>2. Reached(Held) /\ outcome' = "basic"
  BY <1>1, StateSame
<1>3. There(x) /\ Held[x] \in Seq(Values) /\ Holding(buf, Held)
  BY ThereFacts
<1> HIDE DEF Held
<1>4. Changed(Held, x, Held[x]) = Held
  BY <1>3, SameChanged
<1> QED BY <1>1, <1>2, <1>3, <1>4, GoesBasic

LEMMA InsertAtEndGoes ==
  ASSUME BufferInv, NEW x \in Buffers, NEW s \in Seq(Values), s # << >>, InsertAtEnd(x, s)
  PROVE  Goes
<1> DEFINE w == unchecked_push_back(World, x, s)
           t == Held[x]
           u == t \o s
           d == Resized(buf, x, Len(u))
<1>1. /\ There(x) /\ buf[x].size + Len(s) <= Min({buf[x].cap, MaxSize})
      /\ ((Ends(w, "done") /\ IsValid(w, x)) \/ Throws("basic"))
  BY DEF InsertAtEnd
<1>2. /\ x \in InUse(buf) /\ Gives(World, buf, Held) /\ t \in Seq(Values) /\ buf[x].size = Len(t)
      /\ Holding(buf, Held) /\ There(x) /\ buf[x] # None /\ buf[x].cap \in Nat /\ Len(t) \in Nat
  BY <1>1, ThereFacts DEF There
<1>3. Len(t) + Len(s) <= buf[x].cap
  <2>1. Min({buf[x].cap, MaxSize}) <= buf[x].cap /\ Min({buf[x].cap, MaxSize}) \in Nat
    BY <1>2, MinIs, BufferAssumption
  <2>2. Len(s) \in Nat
    OBVIOUS
  <2> QED BY <1>1, <1>2, <2>1, <2>2
<1>6. CASE Ends(w, "done") /\ IsValid(w, x)
  <2>1. Gives(w, d, Changed(Held, x, u))
    <3> HIDE DEF Held
    <3> QED BY <1>2, <1>3, PushedBack
  <2>2. /\ Widened(t, u, Len(t), Len(s)) /\ u \in Seq(Values) /\ Len(u) \in Nat
    <3> HIDE DEF t
    <3> QED BY <1>2, Appended
  <2> HIDE DEF u, w
  <2>3. Alike(d, buf) /\ InUse(d) = InUse(buf)
    <3> HIDE DEF Held
    <3> QED BY <1>2, <2>2, ResizedFacts
  <2> HIDE DEF d
  <2>5. Reached(Changed(Held, x, u)) /\ outcome' = "done"
    BY <1>6, <2>1, <2>3, EndsReached
  <2>6. is_valid(w.buf[x], x)
    BY <1>2, <2>1, <2>3, ValidWorld
  <2>7. Sound'
    BY <1>6, <2>6, AssertedHolds DEF IsValid
  <2> HIDE DEF Held
  <2> QED BY <1>2, <2>2, <2>5, <2>7, GoesInsert
<1> QED BY <1>1, <1>6, ThrowsBasic DEF w

-----------------------------------------------------------------------------
(* Operations on one buffer that go on within its memory.                  *)

(* In the course of an operation: in the world w, x has the elements u in    *)
(* the memory that it had, and all else is as it was.                        *)
Working(w, x, u) ==
    /\ u \in Seq(Values)
    /\ \E b : /\ Gives(w, b, Changed(Held, x, u)) /\ Alike(b, buf)
              /\ InUse(b) = InUse(buf) /\ b[x].cap = buf[x].cap

LEMMA WorkStarts ==
  ASSUME BufferInv, NEW x \in Buffers, There(x)
  PROVE  Working(World, x, Held[x])
<1>1. Gives(World, buf, Held) /\ Holding(buf, Held) /\ Held[x] \in Seq(Values)
  BY ThereFacts
<1> HIDE DEF Held
<1>2. Changed(Held, x, Held[x]) = Held
  BY <1>1, SameChanged
<1> QED BY <1>1, <1>2, AlikeSame DEF Working

(* What an operation within the memory of x is to a world of that kind. *)
LEMMA WorkGoesOn ==
  ASSUME BufferInv, NEW x \in Buffers, There(x), NEW u, NEW b, NEW w,
         Gives(w, b, Changed(Held, x, u)), Alike(b, buf), InUse(b) = InUse(buf),
         b[x].cap = buf[x].cap,
         NEW v, NEW s \in Seq(Values),
         Gives(v, Resized(b, x, Len(s)), Changed(Changed(Held, x, u), x, s))
  PROVE  Working(v, x, s)
<1>1. x \in InUse(buf) /\ Holding(buf, Held) /\ Len(s) \in Nat
  BY ThereFacts
<1>2. Holding(b, Changed(Held, x, u))
  BY GivesFacts
<1>3. /\ Alike(Resized(b, x, Len(s)), b) /\ InUse(Resized(b, x, Len(s))) = InUse(b)
      /\ Resized(b, x, Len(s))[x].cap = b[x].cap
  BY <1>1, <1>2, ResizedFacts
<1> HIDE DEF Held
<1>4. Changed(Changed(Held, x, u), x, s) = Changed(Held, x, s)
  BY <1>1, TwiceChanged
<1>5. Alike(Resized(b, x, Len(s)), buf)
  BY <1>3 DEF Alike
<1> QED BY <1>3, <1>4, <1>5 DEF Working

LEMMA WorkingFacts ==
  ASSUME BufferInv, NEW x \in Buffers, There(x), NEW w, NEW u, Working(w, x, u)
  PROVE  \E b : /\ Gives(w, b, Changed(Held, x, u)) /\ Alike(b, buf) /\ InUse(b) = InUse(buf)
                /\ b[x].cap = buf[x].cap /\ x \in InUse(b) /\ Changed(Held, x, u)[x] = u
                /\ w.buf = b /\ b[x].size = Len(u) /\ Len(u) <= b[x].cap /\ is_valid(b[x], x)
                /\ Holding(b, Changed(Held, x, u))
<1>1. x \in InUse(buf) /\ Holding(buf, Held)
  BY ThereFacts
<1> HIDE DEF Held
<1>2. PICK b : Gives(w, b, Changed(Held, x, u)) /\ Alike(b, buf)
               /\ InUse(b) = InUse(buf) /\ b[x].cap = buf[x].cap
  BY DEF Working
<1>3. Changed(Held, x, u)[x] = u /\ x \in InUse(b)
  BY <1>1, <1>2, TwiceChanged
<1>4. w.buf = b /\ Holding(b, Changed(Held, x, u))
  BY <1>2, GivesFacts
<1>5. Fits(x, b[x], u)
  BY <1>3, <1>4 DEF Holding
<1>6. b[x].size = Len(u) /\ Len(u) <= b[x].cap
  BY <1>5, FitsFacts
<1>7. is_valid(b[x], x)
  BY <1>3, <1>4, Valid
<1> QED BY <1>2, <1>3, <1>4, <1>6, <1>7

LEMMA WorkPush ==
  ASSUME BufferInv, NEW x \in Buffers, There(x), NEW w, NEW u, Working(w, x, u),
         NEW s \in Seq(Values), Len(u) + Len(s) <= buf[x].cap
  PROVE  Working(unchecked_push_back(w, x, s), x, u \o s)
<1>1. PICK b : /\ Gives(w, b, Changed(Held, x, u)) /\ Alike(b, buf) /\ InUse(b) = InUse(buf)
               /\ b[x].cap = buf[x].cap /\ x \in InUse(b) /\ Changed(Held, x, u)[x] = u
  BY WorkingFacts
<1>2. u \in Seq(Values)
  BY DEF Working
<1> DEFINE z == u \o s
           S == Changed(Held, x, u)
           v == unchecked_push_back(w, x, s)
<1>3. z \in Seq(Values)
  BY <1>2
<1>4. Gives(v, Resized(b, x, Len(z)), Changed(S, x, z))
  <2>1. S[x] = u /\ Gives(w, b, S)
    BY <1>1
  <2> HIDE DEF S
  <2>2. Gives(v, Resized(b, x, Len(S[x] \o s)), Changed(S, x, S[x] \o s))
    BY <1>1, <2>1, PushedBack
  <2> QED BY <2>1, <2>2
<1> HIDE DEF z, v
<1>5. Working(v, x, z)
  BY <1>1, <1>3, <1>4, WorkGoesOn
<1> QED BY <1>5 DEF z, v

LEMMA WorkPop ==
  ASSUME BufferInv, NEW x \in Buffers, There(x), NEW w, NEW u, Working(w, x, u),
         NEW n \in 0..Len(u)
  PROVE  Working(pop_back_n(w, x, n), x, SubSeq(u, 1, Len(u) - n))
<1>1. PICK b : /\ Gives(w, b, Changed(Held, x, u)) /\ Alike(b, buf) /\ InUse(b) = InUse(buf)
               /\ b[x].cap = buf[x].cap /\ x \in InUse(b) /\ Changed(Held, x, u)[x] = u
  BY WorkingFacts
<1>2. u \in Seq(Values)
  BY DEF Working
<1> DEFINE z == SubSeq(u, 1, Len(u) - n)
           S == Changed(Held, x, u)
           v == pop_back_n(w, x, n)
<1>3. z \in Seq(Values) /\ Len(z) = Len(u) - n
  <2>1. Len(u) - n \in 0..Len(u)
    BY <1>2
  <2> QED BY <1>2, <2>1, FirstElements
<1>4. Gives(v, Resized(b, x, Len(u) - n), Changed(S, x, z))
  <2>1. S[x] = u /\ Gives(w, b, S)
    BY <1>1
  <2> HIDE DEF S
  <2>2. Gives(v, Resized(b, x, Len(S[x]) - n), Changed(S, x, SubSeq(S[x], 1, Len(S[x]) - n)))
    BY <1>1, <2>1, PoppedBack
  <2> QED BY <2>1, <2>2
<1> HIDE DEF z, v
<1>5. Working(v, x, z)
  BY <1>1, <1>3, <1>4, WorkGoesOn
<1> QED BY <1>5 DEF z, v

(* Assignments do not change the buffer. *)
LEMMA WorkStays ==
  ASSUME BufferInv, NEW x \in Buffers, There(x), NEW u, NEW b, NEW w,
         Alike(b, buf), InUse(b) = InUse(buf), b[x].cap = buf[x].cap,
         NEW v, NEW s \in Seq(Values),
         Gives(v, b, Changed(Changed(Held, x, u), x, s))
  PROVE  Working(v, x, s)
<1>1. Holding(buf, Held)
  BY ThereFacts
<1> HIDE DEF Held
<1>4. Changed(Changed(Held, x, u), x, s) = Changed(Held, x, s)
  BY <1>1, TwiceChanged
<1> QED BY <1>4 DEF Working

LEMMA WorkOverwrite ==
  ASSUME BufferInv, NEW x \in Buffers, There(x), NEW w, NEW u, Working(w, x, u),
         NEW s \in Seq(Values), NEW i \in Nat, NEW k \in 0..Len(s), i + k <= Len(u)
  PROVE  Working(Overwritten(w, x, i, s, k), x, Patched(u, i, SubSeq(s, 1, k)))
<1>1. PICK b : /\ Gives(w, b, Changed(Held, x, u)) /\ Alike(b, buf) /\ InUse(b) = InUse(buf)
               /\ b[x].cap = buf[x].cap /\ x \in InUse(b) /\ Changed(Held, x, u)[x] = u
  BY WorkingFacts
<1>2. u \in Seq(Values)
  BY DEF Working
<1> DEFINE p == SubSeq(s, 1, k)
           z == Patched(u, i, p)
           S == Changed(Held, x, u)
           v == Overwritten(w, x, i, s, k)
<1>3. p \in Seq(Values) /\ Len(p) = k
  BY FirstElements
<1>4. z \in Seq(Values)
  <2> HIDE DEF p
  <2> QED BY <1>2, <1>3, PatchedType
<1>5. Gives(v, b, Changed(S, x, z))
  <2>1. S[x] = u /\ Gives(w, b, S)
    BY <1>1
  <2> HIDE DEF S
  <2>2. Gives(v, b, Changed(S, x, Patched(S[x], i, p)))
    BY <1>1, <2>1, OverwrittenIs
  <2> QED BY <2>1, <2>2
<1> HIDE DEF z, v
<1>6. Working(v, x, z)
  BY <1>1, <1>4, <1>5, WorkStays
<1> QED BY <1>6 DEF z, v, p

LEMMA WorkMoveUp ==
  ASSUME BufferInv, NEW x \in Buffers, There(x), NEW w, NEW u, Working(w, x, u),
         NEW i \in Nat, NEW n \in Nat \ {0}, NEW k \in Nat, i + n + k <= Len(u)
  PROVE  \E p \in Seq(Values) : Len(p) = k /\ Working(MovedUp(w, x, i, n, k), x, Patched(u, i + n, p))
<1>1. PICK b : /\ Gives(w, b, Changed(Held, x, u)) /\ Alike(b, buf) /\ InUse(b) = InUse(buf)
               /\ b[x].cap = buf[x].cap /\ x \in InUse(b) /\ Changed(Held, x, u)[x] = u
  BY WorkingFacts
<1>2. u \in Seq(Values)
  BY DEF Working
<1> DEFINE S == Changed(Held, x, u)
           v == MovedUp(w, x, i, n, k)
<1>3. PICK p \in Seq(Values) : Len(p) = k /\ Gives(v, b, Changed(S, x, Patched(u, i + n, p)))
  <2>1. S[x] = u /\ Gives(w, b, S)
    BY <1>1
  <2> HIDE DEF S
  <2> QED BY <1>1, <2>1, MovedUpIs
<1> DEFINE z == Patched(u, i + n, p)
<1>4. z \in Seq(Values)
  BY <1>2, <1>3, PatchedType
<1>5. Gives(v, b, Changed(S, x, z))
  BY <1>3
<1> HIDE DEF z, v
<1>6. Working(v, x, z)
  BY <1>1, <1>4, <1>5, WorkStays
<1> QED BY <1>3, <1>6 DEF z, v

(* How the operation ends. *)
LEMMA WorkEnds ==
  ASSUME BufferInv, NEW x \in Buffers, There(x), NEW w, NEW u, Working(w, x, u)
  PROVE  /\ u \in Seq(Values) /\ There(x)
         /\ is_valid(w.buf[x], x) /\ w.buf[x].size = Len(u) /\ w.buf[x].cap = buf[x].cap
         /\ Len(u) <= buf[x].cap
         /\ \A how : Ends(w, how) => Reached(Changed(Held, x, u)) /\ outcome' = how
<1>1. PICK b : /\ Gives(w, b, Changed(Held, x, u)) /\ Alike(b, buf)
               /\ b[x].cap = buf[x].cap /\ w.buf = b /\ b[x].size = Len(u) /\ Len(u) <= b[x].cap
               /\ is_valid(b[x], x)
  BY WorkingFacts
<1>2. u \in Seq(Values) /\ There(x)
  BY ThereFacts DEF Working
<1>3. ASSUME NEW how, Ends(w, how) PROVE Reached(Changed(Held, x, u)) /\ outcome' = how
  BY <1>1, <1>3, EndsReached
<1> QED BY <1>1, <1>2, <1>3

LEMMA WorkThrows ==
  ASSUME BufferInv, NEW x \in Buffers, There(x), NEW w, NEW u, Working(w, x, u),
         Ends(w, "basic"), UNCHANGED failed
  PROVE  Goes
<1>1. /\ u \in Seq(Values) /\ There(x) /\ Reached(Changed(Held, x, u)) /\ outcome' = "basic"
      /\ Sound'
  BY WorkEnds DEF BufferInv, Sound
<1> HIDE DEF Held
<1> QED BY <1>1, GoesBasic

-----------------------------------------------------------------------------
(* insert.                                                                 *)

LEMMA JoinedElements ==
  ASSUME NEW t \in Seq(Values), NEW s \in Seq(Values)
  PROVE  /\ t \o s \in Seq(Values) /\ Len(t \o s) = Len(t) + Len(s)
         /\ \A j \in 1..Len(t) : (t \o s)[j] = t[j]
         /\ \A j \in Len(t) + 1..Len(t) + Len(s) : (t \o s)[j] = s[j - Len(t)]
BY ConcatProperties

LEMMA DefaultsAre ==
  ASSUME NEW k \in Nat
  PROVE  Defaults(k) \in Seq(Values) /\ Len(Defaults(k)) = k
<1>1. Defaults(k) \in [1..k -> Values]
  BY DEF Defaults, Values
<1> HIDE DEF Defaults
<1> QED BY <1>1

LEMMA InsertInPlaceGoes ==
  ASSUME BufferInv, NEW x \in Buffers, NEW i \in Nat, NEW s \in Seq(Values), s # << >>,
         InsertInPlace(x, i, s)
  PROVE  Goes
<1> DEFINE n == Len(s)
           t == Held[x]
           l == Len(t)
           rest == buf[x].size - i
           Grown(k) == unchecked_push_back(World, x, Defaults(k))
           Moved(k) == MovedUp(Grown(n), x, i, n, k)
           Written(k) == Overwritten(Moved(rest), x, i, s, k)
<1>1. /\ There(x) /\ i <= buf[x].size
      /\ buf[x].size + n <= Min({buf[x].cap, MaxSize})
      /\ \/ /\ Ends(Written(n), IF rest = 0 THEN "done" ELSE "shifted")
            /\ IsValid(Written(n), x)
         \/ \E k \in 0..n - 1 :
               (Ends(Grown(k), "basic") \/ Ends(Written(k), "basic")) /\ UNCHANGED failed
         \/ \E k \in 0..rest - 1 : Ends(Moved(k), "basic") /\ UNCHANGED failed
  BY DEF InsertInPlace
<1>2. /\ t \in Seq(Values) /\ buf[x].size = l /\ There(x) /\ buf[x].cap \in Nat /\ l \in Nat
  BY <1>1, ThereFacts
<1>3. n \in Nat \ {0}
  BY EmptySeq
<1>4. l + n <= buf[x].cap
  <2>1. Min({buf[x].cap, MaxSize}) <= buf[x].cap /\ Min({buf[x].cap, MaxSize}) \in Nat
    BY <1>2, MinIs, BufferAssumption
  <2> QED BY <1>1, <1>2, <1>3, <2>1
<1>5. rest \in Nat /\ i + rest = l /\ rest = l - i
  BY <1>1, <1>2
<1>6. ASSUME NEW k \in 0..n
      PROVE  /\ Working(Grown(k), x, t \o Defaults(k)) /\ t \o Defaults(k) \in Seq(Values)
             /\ Len(t \o Defaults(k)) = l + k
             /\ \A j \in 1..l : (t \o Defaults(k))[j] = t[j]
  <2>1. Defaults(k) \in Seq(Values) /\ Len(Defaults(k)) = k
    BY DefaultsAre
  <2>2. Working(World, x, t)
    BY <1>1, WorkStarts
  <2>3. Len(t) + Len(Defaults(k)) <= buf[x].cap
    BY <1>2, <1>3, <1>4, <2>1
  <2> HIDE DEF t, Defaults
  <2>4. Working(Grown(k), x, t \o Defaults(k))
    BY <1>1, <2>1, <2>2, <2>3, WorkPush
  <2> DEFINE d == Defaults(k)
  <2>5. t \in Seq(Values) /\ d \in Seq(Values) /\ Len(d) = k
    BY <1>2, <2>1
  <2> HIDE DEF d
  <2>6. t \o d \in Seq(Values) /\ Len(t \o d) = l + k /\ \A j \in 1..l : (t \o d)[j] = t[j]
    BY <2>5, JoinedElements DEF l
  <2> QED BY <2>4, <2>6 DEF d
<1> DEFINE u == t \o Defaults(n)
<1>7. /\ Working(Grown(n), x, u) /\ u \in Seq(Values) /\ Len(u) = l + n
      /\ \A j \in 1..l : u[j] = t[j]
  BY <1>3, <1>6
<1> HIDE DEF u, t, l, rest, n
<1>8. ASSUME NEW k \in 0..rest
      PROVE  \E p \in Seq(Values) : Len(p) = k /\ Working(Moved(k), x, Patched(u, i + n, p))
  <2>1. i + n + k <= Len(u) /\ k \in Nat
    BY <1>2, <1>3, <1>5, <1>7
  <2> HIDE DEF Grown
  <2> QED BY <1>1, <1>3, <1>7, <2>1, WorkMoveUp
<1>9. PICK p \in Seq(Values) : Len(p) = rest /\ Working(Moved(rest), x, Patched(u, i + n, p))
  BY <1>5, <1>8
<1> DEFINE v == Patched(u, i + n, p)
<1>10. /\ v \in Seq(Values) /\ Len(v) = l + n
       /\ \A j \in 1..l + n : v[j] = IF j <= i + n \/ j > i + n + rest THEN u[j] ELSE p[j - (i + n)]
  <2>1. i + n \in Nat /\ (i + n) + Len(p) <= Len(u)
    BY <1>2, <1>3, <1>5, <1>7, <1>9
  <2> QED BY <1>7, <1>9, <2>1, PatchedType
<1> DEFINE q(k) == Patched(v, i, SubSeq(s, 1, k))
<1> HIDE DEF v
<1>11. ASSUME NEW k \in 0..n
       PROVE  /\ Working(Written(k), x, q(k)) /\ q(k) \in Seq(Values) /\ Len(q(k)) = l + n
              /\ \A j \in 1..l + n : q(k)[j] = IF j <= i \/ j > i + k THEN v[j] ELSE SubSeq(s, 1, k)[j - i]
  <2>1. k \in 0..Len(s) /\ i + k <= Len(v) /\ Working(Moved(rest), x, v)
    BY <1>2, <1>3, <1>5, <1>9, <1>10 DEF n, v
  <2>2. Working(Written(k), x, q(k))
    <3> HIDE DEF Moved
    <3> QED BY <1>1, <2>1, WorkOverwrite
  <2>3. SubSeq(s, 1, k) \in Seq(Values) /\ Len(SubSeq(s, 1, k)) = k
    BY <2>1, FirstElements
  <2> DEFINE z == SubSeq(s, 1, k)
  <2> HIDE DEF z
  <2>4. z \in Seq(Values) /\ Len(z) = k /\ i + Len(z) <= Len(v) /\ q(k) = Patched(v, i, z)
    BY <2>1, <2>3 DEF z
  <2>5. /\ Patched(v, i, z) \in Seq(Values) /\ Len(Patched(v, i, z)) = Len(v)
        /\ \A j \in 1..Len(v) : Patched(v, i, z)[j] = IF j <= i \/ j > i + Len(z) THEN v[j] ELSE z[j - i]
    BY <1>10, <2>4, PatchedType
  <2>6. /\ q(k) \in Seq(Values) /\ Len(q(k)) = l + n
        /\ \A j \in 1..l + n : q(k)[j] = IF j <= i \/ j > i + k THEN v[j] ELSE z[j - i]
    BY <1>10, <2>4, <2>5
  <2> QED BY <2>2, <2>6 DEF z
<1> HIDE DEF Grown, Moved, Written, q
<1>12. CASE /\ Ends(Written(n), IF rest = 0 THEN "done" ELSE "shifted")
            /\ IsValid(Written(n), x)
  <2>1. Working(Written(n), x, q(n)) /\ q(n) \in Seq(Values) /\ Len(q(n)) = l + n
        /\ \A j \in 1..l + n : q(n)[j] = IF j <= i \/ j > i + n THEN v[j] ELSE SubSeq(s, 1, n)[j - i]
    BY <1>3, <1>11
  <2>2. is_valid(Written(n).buf[x], x)
        /\ \A how : Ends(Written(n), how) => Reached(Changed(Held, x, q(n))) /\ outcome' = how
    BY <1>1, <2>1, WorkEnds
  <2>3. Sound'
    BY <1>12, <2>2, AssertedHolds DEF IsValid
  <2>4. CASE rest = 0
    <3>1. Reached(Changed(Held, x, q(n))) /\ outcome' = "done"
      BY <1>12, <2>2, <2>4
    <3>2. i = l
      BY <1>5, <1>2, <2>4
    <3>3. \A j \in 1..l : q(n)[j] = t[j]
      <4> TAKE j \in 1..l
      <4>1. j \in 1..l + n /\ j <= i /\ j <= i + n
        BY <1>2, <1>3, <3>2
      <4> QED BY <1>7, <1>10, <2>1, <4>1
    <3>4. \A j \in l + 1..l : q(n)[j + n] = t[j]
      BY <1>2
    <3>5. Widened(t, q(n), l, n)
      BY <1>2, <1>3, <2>1, <3>3, <3>4 DEF Widened, l
    <3>6. t = Held[x]
      BY DEF t
    <3> HIDE DEF Held
    <3> QED BY <1>2, <2>1, <2>3, <3>1, <3>5, <3>6, GoesInsert
  <2>5. CASE rest # 0
    <3>1. Reached(Changed(Held, x, q(n))) /\ outcome' = "shifted"
      BY <1>12, <2>2, <2>5
    <3>2. Len(q(n)) > Len(Held[x])
      BY <1>2, <1>3, <2>1 DEF l, t
    <3> HIDE DEF Held
    <3> QED BY <1>2, <2>1, <2>3, <3>1, <3>2, GoesShift
  <2> QED BY <2>4, <2>5
<1>13. CASE \E k \in 0..n - 1 :
               (Ends(Grown(k), "basic") \/ Ends(Written(k), "basic")) /\ UNCHANGED failed
  <2>1. PICK k \in 0..n - 1 :
               (Ends(Grown(k), "basic") \/ Ends(Written(k), "basic")) /\ UNCHANGED failed
    BY <1>13
  <2>2. k \in 0..n
    BY <1>3
  <2>3. Working(Grown(k), x, t \o Defaults(k)) /\ Working(Written(k), x, q(k))
    BY <1>6, <1>11, <2>2 DEF u
  <2> QED BY <1>1, <2>1, <2>3, WorkThrows
<1>14. CASE \E k \in 0..rest - 1 : Ends(Moved(k), "basic") /\ UNCHANGED failed
  <2>1. PICK k \in 0..rest - 1 : Ends(Moved(k), "basic") /\ UNCHANGED failed
    BY <1>14
  <2>2. k \in 0..rest
    BY <1>5
  <2>3. PICK z \in Seq(Values) : Working(Moved(k), x, Patched(u, i + n, z))
    BY <1>8, <2>2
  <2> QED BY <1>1, <2>1, <2>3, WorkThrows
<1> QED BY <1>1, <1>12, <1>13, <1>14

LEMMA InsertGrowingGoes ==
  ASSUME BufferInv, NEW x \in Buffers, NEW i \in Nat, NEW s \in Seq(Values), s # << >>,
         InsertGrowing(x, i, s)
  PROVE  Goes
<1> DEFINE t == Held[x]
           l == Len(t)
           n == buf[x].size + Len(s)
           cap == new_capacity_impl(buf[x], n)
           old == Contents(World, x)
           q == Part(old, 0, i) \o s \o Part(old, i, Len(old))
           temp == Made(mem, x, cap, q)
           w == [mem |-> auto_buffer_destroy(temp, buf[x]),
                 buf |-> [buf EXCEPT ![x] = [at |-> Place(mem, x, cap), cap |-> cap, size |-> n]]]
<1>1. /\ There(x) /\ i <= buf[x].size /\ n > buf[x].cap
      /\ \/ Ends(w, "done") /\ Asserted(is_valid(w.buf[x], x) /\ n >= buf[x].size + 1)
         \/ Throws("basic")
  BY DEF InsertGrowing, Made
<1>2. /\ x \in InUse(buf) /\ Holding(buf, Held) /\ State(mem, buf, Held) /\ t \in Seq(Values)
      /\ buf[x].size = l /\ There(x) /\ buf[x].cap \in Nat /\ l \in Nat /\ old = t
      /\ N \in Nat /\ buf[x].cap >= N /\ buf[x] # None
  BY <1>1, ThereFacts DEF There
<1>3. Len(s) \in Nat \ {0}
  BY EmptySeq
<1>4. n \in Nat /\ n = l + Len(s) /\ i \in 0..l
  BY <1>1, <1>2, <1>3
<1>5. cap \in Nat /\ cap >= n /\ cap > buf[x].cap
  BY <1>1, <1>4, CapacityGrows
<1> DEFINE a == Part(t, 0, i)
           c == Part(t, i, l)
<1>6. a \in Seq(Values) /\ Len(a) = i /\ \A k \in 1..i : a[k] = t[k]
  <2> HIDE DEF t
  <2>1. 0 \in 0..Len(t) /\ i \in 0..Len(t) /\ i - 0 = i /\ \A k \in 1..i : 0 + k = k
    BY <1>4
  <2>2. /\ Part(t, 0, i) \in Seq(Values) /\ Len(Part(t, 0, i)) = i - 0
        /\ \A k \in 1..i - 0 : Part(t, 0, i)[k] = t[0 + k]
    BY <1>2, <2>1, PartElements
  <2> QED BY <2>1, <2>2
<1>7. c \in Seq(Values) /\ Len(c) = l - i /\ \A k \in 1..l - i : c[k] = t[i + k]
  <2> HIDE DEF t
  <2>1. i \in 0..Len(t) /\ Len(t) \in i..Len(t)
    BY <1>2, <1>4
  <2> QED BY <1>2, <2>1, PartElements
<1>8. q = a \o s \o c
  BY <1>2
<1> HIDE DEF a, c, q, t, l, old, n
<1>9. q \in Seq(Values) /\ Len(q) = n /\ (\A k \in 1..i : q[k] = t[k])
      /\ \A k \in i + 1..l : q[k + Len(s)] = t[k]
  <2>1. a \o s \in Seq(Values) /\ Len(a \o s) = i + Len(s) /\ \A k \in 1..i : (a \o s)[k] = t[k]
    BY <1>6, JoinedElements
  <2> DEFINE f == a \o s
  <2> HIDE DEF f
  <2>2. q \in Seq(Values) /\ Len(q) = (i + Len(s)) + (l - i)
        /\ (\A k \in 1..i + Len(s) : q[k] = f[k])
        /\ \A k \in (i + Len(s)) + 1..(i + Len(s)) + (l - i) : q[k] = c[k - (i + Len(s))]
    <3>1. f \in Seq(Values) /\ Len(f) = i + Len(s) /\ c \in Seq(Values) /\ Len(c) = l - i /\ q = f \o c
      BY <1>7, <1>8, <2>1 DEF f
    <3> DEFINE g == Len(f)
               h == Len(c)
    <3>2. /\ f \o c \in Seq(Values) /\ Len(f \o c) = g + h
          /\ \A j \in 1..g : (f \o c)[j] = f[j]
          /\ \A j \in g + 1..g + h : (f \o c)[j] = c[j - g]
      BY <3>1, JoinedElements
    <3>3. g = i + Len(s) /\ h = l - i
      BY <3>1
    <3> HIDE DEF g, h
    <3> QED BY <3>1, <3>2, <3>3
  <2>3. \A k \in 1..i : q[k] = t[k]
    BY <1>3, <2>1, <2>2 DEF f
  <2>4. ASSUME NEW k \in i + 1..l PROVE q[k + Len(s)] = t[k]
    <3>1. /\ k + Len(s) \in (i + Len(s)) + 1..(i + Len(s)) + (l - i)
          /\ (k + Len(s)) - (i + Len(s)) = k - i /\ k - i \in 1..l - i /\ i + (k - i) = k
      BY <1>2, <1>3, <1>4
    <3>2. q[k + Len(s)] = c[(k + Len(s)) - (i + Len(s))]
      BY <2>2, <3>1
    <3>3. c[k - i] = t[i + (k - i)]
      BY <1>7, <3>1
    <3> QED BY <3>1, <3>2, <3>3
  <2>5. Len(q) = n
    BY <1>2, <1>3, <1>4, <2>2
  <2> QED BY <2>2, <2>3, <2>4, <2>5
<1>10. Widened(t, q, i, Len(s))
  <2>1. i \in 0..Len(t) /\ Len(q) = Len(t) + Len(s)
    BY <1>4, <1>9 DEF l
  <2> QED BY <1>3, <1>9, <2>1 DEF Widened, l
<1> DEFINE r == NewRecord(mem, x, cap, Len(q))
           m2 == auto_buffer_destroy(temp, buf[x])
<1> HIDE DEF cap
<1>11. Roomy(cap) = cap /\ cap > N /\ Len(q) <= Roomy(cap)
  <2>1. cap > N
    BY <1>2, <1>5
  <2>2. Roomy(cap) = cap
    BY <1>5, <2>1, RoomyIs
  <2> QED BY <1>5, <1>9, <2>1, <2>2
<1>12. r = [at |-> Place(mem, x, cap), cap |-> cap, size |-> n]
  BY <1>9, <1>11 DEF NewRecord
<1>13. State(m2, Changed(buf, x, r), Changed(Held, x, q)) /\ Fits(x, r, q)
  <2> HIDE DEF Held
  <2> QED BY <1>2, <1>5, <1>9, <1>11, MovedState, NewRecordFits
<1>14. w = [mem |-> m2, buf |-> Changed(buf, x, r)]
  BY <1>12 DEF Changed
<1>15. r \in Records
  BY <1>13 DEF Fits
<1> HIDE DEF r, m2, w, Held
<1>16. Gives(w, Changed(buf, x, r), Changed(Held, x, q))
  BY <1>13, <1>14, GivesWorld
<1>17. Alike(Changed(buf, x, r), buf)
  BY <1>2, <1>15, AlikeChanged
<1>18. CASE Ends(w, "done") /\ Asserted(is_valid(w.buf[x], x) /\ n >= buf[x].size + 1)
  <2>1. Reached(Changed(Held, x, q)) /\ outcome' = "done"
    BY <1>16, <1>17, <1>18, EndsReached
  <2>2. x \in InUse(Changed(buf, x, r))
    <3>1. r # None /\ r.at # None
      BY <1>13, FitsFacts
    <3> QED BY <1>2, <3>1, InUseChanged
  <2>3. is_valid(w.buf[x], x)
    BY <1>16, <2>2, ValidWorld
  <2>4. n >= buf[x].size + 1
    BY <1>2, <1>3, <1>4
  <2>5. Sound'
    BY <1>18, <2>3, <2>4, AssertedHolds
  <2>6. Widened(Held[x], q, i, Len(s))
    BY <1>10 DEF t
  <2> QED BY <1>2, <1>9, <2>1, <2>5, <2>6, GoesInsert
<1> QED BY <1>1, <1>18, ThrowsBasic DEF w, m2, n, cap

-----------------------------------------------------------------------------
(* erase and assignment.                                                   *)

LEMMA WholeSequence ==
  ASSUME NEW c \in Seq(Values)
  PROVE  SubSeq(c, 1, Len(c)) = c
<1>1. Len(c) \in 0..Len(c)
  OBVIOUS
<1> DEFINE p == SubSeq(c, 1, Len(c))
<1>2. p \in Seq(Values) /\ Len(p) = Len(c) /\ \A k \in 1..Len(c) : p[k] = c[k]
  BY <1>1, FirstElements
<1> HIDE DEF p
<1>3. p = c
  BY <1>2
<1> QED BY <1>3 DEF p

(* What is patched, and what precedes it. *)
LEMMA PatchedFront ==
  ASSUME NEW t \in Seq(Values), NEW c \in Seq(Values), NEW i \in Nat, i + Len(c) <= Len(t)
  PROVE  SubSeq(Patched(t, i, c), 1, i + Len(c)) = SubSeq(t, 1, i) \o c
<1> DEFINE l == Len(t)
           n == Len(c)
           v == Patched(t, i, c)
           p == SubSeq(v, 1, i + n)
           a == SubSeq(t, 1, i)
           q == a \o c
<1>1. l \in Nat /\ n \in Nat /\ i + n <= l
  OBVIOUS
<1>2. v \in Seq(Values) /\ Len(v) = l
      /\ \A k \in 1..l : v[k] = IF k <= i \/ k > i + n THEN t[k] ELSE c[k - i]
  BY PatchedType
<1>3. a \in Seq(Values) /\ Len(a) = i /\ \A k \in 1..i : a[k] = t[k]
  <2>1. i \in 0..Len(t)
    BY <1>1
  <2> QED BY <2>1, FirstElements
<1> HIDE DEF v, a
<1>4. p \in Seq(Values) /\ Len(p) = i + n /\ \A k \in 1..i + n : p[k] = v[k]
  <2>1. i + n \in 0..Len(v)
    BY <1>1, <1>2
  <2> HIDE DEF n
  <2> QED BY <1>2, <2>1, FirstElements
<1>5. q \in Seq(Values) /\ Len(q) = Len(a) + Len(c)
      /\ (\A j \in 1..Len(a) : q[j] = a[j])
      /\ \A j \in Len(a) + 1..Len(a) + Len(c) : q[j] = c[j - Len(a)]
  BY <1>3, JoinedElements
<1> HIDE DEF p, q, l, n
<1>6. q \in Seq(Values) /\ Len(q) = i + n /\ (\A j \in 1..i : q[j] = a[j])
      /\ \A j \in i + 1..i + n : q[j] = c[j - i]
  BY <1>3, <1>5 DEF n
<1>7. ASSUME NEW k \in 1..i + n PROVE p[k] = q[k]
  <2>1. CASE k <= i
    <3>1. k \in 1..i /\ k \in 1..l
      BY <1>1, <2>1
    <3> QED BY <1>2, <1>3, <1>4, <1>6, <2>1, <3>1
  <2>2. CASE k > i
    <3>1. k \in i + 1..i + n /\ k \in 1..l /\ ~(k <= i \/ k > i + n)
      BY <1>1, <2>2
    <3> QED BY <1>2, <1>4, <1>6, <3>1
  <2> QED BY <1>1, <2>1, <2>2
<1>8. p = q
  BY <1>1, <1>4, <1>6, <1>7
<1> QED BY <1>8 DEF p, q, v, a, n

LEMMA PatchedAll ==
  ASSUME NEW t \in Seq(Values), NEW c \in Seq(Values), Len(c) = Len(t)
  PROVE  Patched(t, 0, c) = c
<1> DEFINE v == Patched(t, 0, c)
<1>1. 0 + Len(c) <= Len(t) /\ 0 \in Nat /\ Len(c) \in Nat /\ 0 + Len(c) = Len(c)
  OBVIOUS
<1>2. v \in Seq(Values) /\ Len(v) = Len(t)
  BY <1>1, PatchedType
<1>3. SubSeq(v, 1, 0 + Len(c)) = SubSeq(t, 1, 0) \o c
  BY <1>1, PatchedFront
<1> HIDE DEF v
<1>4. SubSeq(v, 1, Len(v)) = v
  BY <1>2, WholeSequence
<1>5. SubSeq(t, 1, 0) \o c = c
  BY EmptyFirst
<1>6. 0 + Len(c) = Len(v)
  BY <1>1, <1>2
<1>7. v = c
  BY <1>3, <1>4, <1>5, <1>6
<1> QED BY <1>7 DEF v

LEMMA EraseGoes ==
  ASSUME BufferInv, NEW x \in Buffers, NEW i \in Nat, NEW j \in Nat, Erase(x, i, j)
  PROVE  Goes
<1> DEFINE t == Held[x]
           l == Len(t)
           rest == buf[x].size - j
           c == Part(Contents(World, x), j, buf[x].size)
           Moved(k) == Overwritten(World, x, i, c, k)
           w == pop_back_n(Moved(rest), x, j - i)
<1>1. /\ There(x) /\ i <= j /\ j <= buf[x].size
      /\ (i = j => "erase_nothing" \in Calls)
      /\ \/ Ends(w, "done") /\ Asserted(~full(w.buf[x]))
         \/ \E k \in 0..rest - 1 : Ends(Moved(k), "basic") /\ UNCHANGED failed
  BY DEF Erase
<1>2. /\ t \in Seq(Values) /\ buf[x].size = l /\ There(x) /\ buf[x].cap \in Nat /\ l \in Nat
      /\ Contents(World, x) = t /\ l <= buf[x].cap
  BY <1>1, ThereFacts
<1>3. rest \in Nat /\ rest = l - j /\ i + rest <= l /\ j - i \in Nat
      /\ i + rest = l - (j - i) /\ i + rest \in Nat
  <2>1. i <= j /\ j <= l /\ l \in Nat /\ rest = l - j
    BY <1>1, <1>2
  <2> HIDE DEF l, rest
  <2> QED BY <2>1
<1>4. c = SubSeq(t, j + 1, l) /\ c \in Seq(Values) /\ Len(c) = rest
  <2> HIDE DEF t
  <2>1. j \in 0..Len(t) /\ Len(t) \in j..Len(t) /\ c = Part(t, j, Len(t))
    BY <1>1, <1>2
  <2>2. Part(t, j, Len(t)) \in Seq(Values) /\ Len(Part(t, j, Len(t))) = Len(t) - j
    BY <1>2, <2>1, PartElements
  <2> QED BY <1>3, <2>1, <2>2 DEF Part
<1>5. Working(World, x, t)
  BY <1>1, WorkStarts
<1> HIDE DEF t, l, rest, c
<1>6. \A k \in 0..rest : Working(Moved(k), x, Patched(t, i, SubSeq(c, 1, k)))
  <2> TAKE k \in 0..rest
  <2>1. k \in 0..Len(c) /\ i + k <= Len(t)
    BY <1>3, <1>4 DEF l
  <2> QED BY <1>1, <1>4, <1>5, <2>1, WorkOverwrite
<1>7. SubSeq(c, 1, rest) = c
  BY <1>4, WholeSequence
<1> DEFINE v == Patched(t, i, c)
           u == SubSeq(v, 1, l - (j - i))
<1>8. Working(Moved(rest), x, v)
  <2>1. rest \in 0..rest
    BY <1>3
  <2> QED BY <1>6, <1>7, <2>1
<1>9. v \in Seq(Values) /\ Len(v) = l /\ i + Len(c) <= Len(t)
  <2>1. i + Len(c) <= Len(t)
    BY <1>3, <1>4 DEF l
  <2>2. t \in Seq(Values) /\ c \in Seq(Values) /\ l = Len(t)
    BY <1>2, <1>4 DEF l
  <2>3. Patched(t, i, c) \in Seq(Values) /\ Len(Patched(t, i, c)) = Len(t)
    BY <2>1, <2>2, PatchedType
  <2> QED BY <2>1, <2>2, <2>3
<1>10. u = SubSeq(t, 1, i) \o c
  <2>1. t \in Seq(Values) /\ c \in Seq(Values) /\ i + Len(c) <= Len(t) /\ i + Len(c) = l - (j - i)
    BY <1>2, <1>3, <1>4, <1>9
  <2>2. SubSeq(Patched(t, i, c), 1, i + Len(c)) = SubSeq(t, 1, i) \o c
    BY <2>1, PatchedFront
  <2> QED BY <2>1, <2>2
<1> HIDE DEF v, Moved
<1>11. Working(w, x, u)
  <2>1. j - i \in 0..Len(v)
    BY <1>1, <1>2, <1>3, <1>9
  <2>2. Working(w, x, SubSeq(v, 1, Len(v) - (j - i)))
    BY <1>1, <1>8, <2>1, WorkPop
  <2> QED BY <1>9, <2>2
<1>12. u \in Seq(Values) /\ Len(u) = l - (j - i)
  <2>1. l - (j - i) \in 0..Len(v)
    BY <1>1, <1>2, <1>3, <1>9
  <2> QED BY <1>9, <2>1, FirstElements
<1> HIDE DEF w, u
<1>13. CASE Ends(w, "done") /\ Asserted(~full(w.buf[x]))
  <2>1. w.buf[x].size = Len(u) /\ w.buf[x].cap = buf[x].cap
        /\ Reached(Changed(Held, x, u)) /\ outcome' = "done"
    BY <1>1, <1>11, <1>13, WorkEnds
  <2>2. ASSUME i # j PROVE Sound'
    <3>1. l - (j - i) < l
      BY <1>1, <1>2, <2>2
    <3>2. ~full(w.buf[x])
      BY <1>2, <1>3, <1>12, <2>1, <3>1 DEF full
    <3> QED BY <1>13, <3>2, AssertedHolds
  <2>3. Sound'
    BY <1>1, <2>2 DEF Sound
  <2>4. u = SubSeq(Held[x], 1, i) \o SubSeq(Held[x], j + 1, Len(Held[x]))
    BY <1>4, <1>10 DEF t, l
  <2>5. i \in 0..Len(Held[x]) /\ j \in i..Len(Held[x])
    BY <1>1, <1>2 DEF t, l
  <2> HIDE DEF Held
  <2> QED BY <1>2, <1>12, <2>1, <2>3, <2>4, <2>5, GoesErase
<1>14. CASE \E k \in 0..rest - 1 : Ends(Moved(k), "basic") /\ UNCHANGED failed
  <2>1. PICK k \in 0..rest - 1 : Ends(Moved(k), "basic") /\ UNCHANGED failed
    BY <1>14
  <2>2. k \in 0..rest
    BY <1>3
  <2>3. Working(Moved(k), x, Patched(t, i, SubSeq(c, 1, k)))
    BY <1>6, <2>2
  <2> QED BY <1>1, <2>1, <2>3, WorkThrows
<1> QED BY <1>1, <1>13, <1>14 DEF w, Moved, rest, c

LEMMA AssignWithinGoes ==
  ASSUME BufferInv, NEW x \in Buffers, NEW y \in Buffers, AssignWithin(x, y)
  PROVE  Goes
<1> DEFINE s == Contents(World, y)
           t == Held[x]
           n == Len(s)
           l == Len(t)
           more == buf[y].size - buf[x].size
           Sized(k) == IF buf[x].size >= buf[y].size
                       THEN pop_back_n(World, x, buf[x].size - buf[y].size)
                       ELSE unchecked_push_back(World, x, Defaults(k))
           Copied(k) == Overwritten(Sized(more), x, 0, s, k)
<1>1. /\ There(x) /\ There(y) /\ x # y /\ buf[x].cap >= buf[y].size
      /\ \/ Ends(Copied(n), "done") /\ IsValid(Copied(n), x)
         \/ \E k \in 0..n - 1 : Ends(Copied(k), "basic") /\ UNCHANGED failed
         \/ /\ buf[x].size < buf[y].size
            /\ \E k \in 0..more - 1 : Ends(Sized(k), "basic") /\ UNCHANGED failed
  BY DEF AssignWithin
<1>2. /\ t \in Seq(Values) /\ buf[x].size = l /\ There(x) /\ buf[x].cap \in Nat /\ l \in Nat
  BY <1>1, ThereFacts
<1>3. s = Held[y] /\ s \in Seq(Values) /\ buf[y].size = n /\ n \in Nat /\ There(y)
  BY <1>1, ThereFacts
<1>4. Working(World, x, t)
  BY <1>1, WorkStarts
<1> HIDE DEF s, t, l, n
<1>5. ASSUME l < n, NEW k \in 0..more
      PROVE  Working(Sized(k), x, t \o Defaults(k)) /\ Len(t \o Defaults(k)) = l + k
  <2>1. k \in Nat /\ ~(buf[x].size >= buf[y].size)
    BY <1>2, <1>3, <1>5
  <2>2. Defaults(k) \in Seq(Values) /\ Len(Defaults(k)) = k
    BY <2>1, DefaultsAre
  <2>3. Len(t) + Len(Defaults(k)) <= buf[x].cap
    BY <1>1, <1>2, <1>3, <2>1, <2>2 DEF l
  <2> DEFINE d == Defaults(k)
  <2>4. Sized(k) = unchecked_push_back(World, x, d)
    BY <2>1
  <2> HIDE DEF d, Sized
  <2>5. d \in Seq(Values) /\ Len(d) = k /\ Len(t) + Len(d) <= buf[x].cap
    BY <2>2, <2>3 DEF d
  <2>6. Working(Sized(k), x, t \o d)
    BY <1>1, <1>4, <2>4, <2>5, WorkPush
  <2>7. Len(t \o d) = l + k
    BY <1>2, <2>5, JoinedElements DEF l
  <2> QED BY <2>6, <2>7 DEF d
<1>6. PICK u : Working(Sized(more), x, u) /\ Len(u) = n /\ u \in Seq(Values)
  <2>1. CASE l < n
    <3>1. more \in 0..more /\ l + more = n
      BY <1>2, <1>3, <2>1
    <3>2. Working(Sized(more), x, t \o Defaults(more)) /\ Len(t \o Defaults(more)) = n
      BY <1>5, <2>1, <3>1
    <3> QED BY <3>2 DEF Working
  <2>2. CASE ~(l < n)
    <3>1. /\ buf[x].size >= buf[y].size /\ buf[x].size - buf[y].size = l - n
          /\ l - n \in 0..Len(t) /\ Len(t) - (l - n) = n /\ n \in 0..Len(t)
      BY <1>2, <1>3, <2>2 DEF l
    <3>2. Sized(more) = pop_back_n(World, x, l - n)
      BY <3>1
    <3>3. Working(pop_back_n(World, x, l - n), x, SubSeq(t, 1, Len(t) - (l - n)))
      BY <1>1, <1>4, <3>1, WorkPop
    <3>4. SubSeq(t, 1, n) \in Seq(Values) /\ Len(SubSeq(t, 1, n)) = n
      BY <1>2, <3>1, FirstElements
    <3> QED BY <3>1, <3>2, <3>3, <3>4
  <2> QED BY <2>1, <2>2
<1> HIDE DEF Sized, more
<1>7. \A k \in 0..n : Working(Copied(k), x, Patched(u, 0, SubSeq(s, 1, k)))
  <2> TAKE k \in 0..n
  <2>1. k \in 0..Len(s) /\ 0 \in Nat /\ 0 + k <= Len(u)
    BY <1>3, <1>6 DEF n
  <2> QED BY <1>1, <1>3, <1>6, <2>1, WorkOverwrite
<1>8. Patched(u, 0, SubSeq(s, 1, n)) = s
  <2>1. SubSeq(s, 1, n) = s
    BY <1>3, WholeSequence DEF n
  <2> QED BY <1>3, <1>6, <2>1, PatchedAll DEF n
<1> HIDE DEF Copied
<1>9. CASE Ends(Copied(n), "done") /\ IsValid(Copied(n), x)
  <2>1. n \in 0..n
    BY <1>3
  <2>2. Working(Copied(n), x, s)
    BY <1>7, <1>8, <2>1
  <2>3. is_valid(Copied(n).buf[x], x) /\ Reached(Changed(Held, x, s)) /\ outcome' = "done"
    BY <1>1, <1>9, <2>2, WorkEnds
  <2>4. Sound'
    BY <1>9, <2>3, AssertedHolds DEF IsValid
  <2>5. Reached(Changed(Held, x, Held[y]))
    BY <1>3, <2>3
  <2> HIDE DEF Held
  <2> QED BY <1>2, <1>3, <2>3, <2>4, <2>5, GoesAssign
<1>10. CASE \E k \in 0..n - 1 : Ends(Copied(k), "basic") /\ UNCHANGED failed
  <2>1. PICK k \in 0..n - 1 : Ends(Copied(k), "basic") /\ UNCHANGED failed
    BY <1>10
  <2>2. k \in 0..n
    BY <1>3
  <2>3. Working(Copied(k), x, Patched(u, 0, SubSeq(s, 1, k)))
    BY <1>7, <2>2
  <2> QED BY <1>1, <2>1, <2>3, WorkThrows
<1>11. CASE /\ buf[x].size < buf[y].size
            /\ \E k \in 0..more - 1 : Ends(Sized(k), "basic") /\ UNCHANGED failed
  <2>1. PICK k \in 0..more - 1 : Ends(Sized(k), "basic") /\ UNCHANGED failed
    BY <1>11
  <2>2. k \in 0..more /\ l < n
    BY <1>2, <1>3, <1>11 DEF more
  <2>3. Working(Sized(k), x, t \o Defaults(k))
    BY <1>5, <2>2 DEF Sized, more
  <2> QED BY <1>1, <2>1, <2>3, WorkThrows
<1> QED BY <1>1, <1>9, <1>10, <1>11 DEF Copied, Sized, more, n

LEMMA GoesNowhere ==
  ASSUME NEW b, NEW S, Holding(b, S), NEW x \in Buffers, NEW r, NEW q
  PROVE  Changed(Changed(b, x, r), x, q) = Changed(b, x, q)
BY DEF Holding, Changed

LEMMA AssignGrowingGoes ==
  ASSUME BufferInv, NEW x \in Buffers, NEW y \in Buffers, AssignGrowing(x, y),
         "assign_throws" \notin Calls
  PROVE  Goes
<1> DEFINE n == buf[y].size
           s == Contents(World, y)
           freed == auto_buffer_destroy(mem, buf[x])
           w == [mem |-> Made(freed, x, n, s),
                 buf |-> [buf EXCEPT ![x] = [at |-> Place(freed, x, n), cap |-> n, size |-> n]]]
<1>1. /\ There(x) /\ There(y) /\ buf[x].cap < n
      /\ Ends(w, "done") /\ IsValid(w, x)
  BY DEF AssignGrowing, Made
<1>2. /\ x \in InUse(buf) /\ Holding(buf, Held) /\ State(mem, buf, Held) /\ There(x)
      /\ buf[x].cap \in Nat /\ N \in Nat /\ buf[x].cap >= N /\ buf[x] # None /\ buf[x] \in Records
  BY <1>1, ThereFacts DEF There
<1>3. s = Held[y] /\ s \in Seq(Values) /\ n = Len(s) /\ n \in Nat /\ There(y)
  BY <1>1, ThereFacts
<1>4. n > N /\ Roomy(n) = n
  <2>1. n > N
    BY <1>1, <1>2, <1>3
  <2> HIDE DEF n
  <2> QED BY <1>3, <2>1, RoomyIs
<1> HIDE DEF Held
<1> DEFINE b == Changed(buf, x, None)
           S == Changed(Held, x, << >>)
           r == NewRecord(freed, x, n, Len(s))
<1>5. State(freed, b, S)
  BY <1>2, DestroyedState
<1>6. x \notin InUse(b)
  BY <1>2, InUseChanged
<1>7. Len(s) <= Roomy(n)
  BY <1>3, <1>4
<1>8. r = [at |-> Place(freed, x, n), cap |-> n, size |-> n]
  BY <1>3, <1>4 DEF NewRecord
<1>9. Changed(b, x, r) = Changed(buf, x, r) /\ Changed(S, x, s) = Changed(Held, x, s)
  <2> HIDE DEF r, s
  <2> QED BY <1>2, GoesNowhere, TwiceChanged
<1> HIDE DEF b, S, freed, n, s
<1>10. State(Made(freed, x, n, s), Changed(b, x, r), Changed(S, x, s))
  BY <1>3, <1>5, <1>6, <1>7, MadeState
<1>11. Fits(x, r, s)
  BY <1>3, <1>5, <1>7, NewRecordFits
<1>12. w = [mem |-> Made(freed, x, n, s), buf |-> Changed(buf, x, r)]
  BY <1>8 DEF Changed
<1> HIDE DEF w, r
<1>13. Gives(w, Changed(buf, x, r), Changed(Held, x, s))
  BY <1>9, <1>10, <1>12, GivesWorld
<1>14. r \in Records /\ r # None /\ r.at # None
  BY <1>11, FitsFacts
<1>15. Alike(Changed(buf, x, r), buf) /\ x \in InUse(Changed(buf, x, r))
  BY <1>2, <1>14, AlikeChanged, InUseChanged
<1>16. Reached(Changed(Held, x, s)) /\ outcome' = "done"
  BY <1>1, <1>13, <1>15, EndsReached
<1>17. is_valid(w.buf[x], x)
  BY <1>13, <1>15, ValidWorld
<1>18. Sound'
  BY <1>1, <1>17, AssertedHolds DEF IsValid
<1> QED BY <1>2, <1>3, <1>16, <1>18, GoesAssign

LEMMA MaxOfThree ==
  ASSUME NEW a \in Nat, NEW b \in Nat, NEW c \in Nat
  PROVE  Max({a, b, c}) \in Nat /\ Max({a, b, c}) >= b /\ Max({a, b, c}) >= c
<1> DEFINE d == IF a >= b THEN a ELSE b
           e == IF d >= c THEN d ELSE c
<1>1. e \in {a, b, c} /\ \A z \in {a, b, c} : e >= z
  OBVIOUS
<1>2. Max({a, b, c}) \in {a, b, c} /\ \A z \in {a, b, c} : Max({a, b, c}) >= z
  BY <1>1 DEF Max
<1> QED BY <1>2

LEMMA ConstructGoes ==
  ASSUME BufferInv, NEW x \in Buffers, NEW c \in Nat, NEW s \in Seq(Values), Construct(x, c, s),
         "copy_throws" \notin Calls
  PROVE  Goes
<1> DEFINE cap == Max({c, Len(s), N})
           got == [at |-> Place(mem, x, cap), cap |-> cap, size |-> 0]
           made == [mem |-> allocate(mem, x, cap), buf |-> [buf EXCEPT ![x] = got]]
           w == unchecked_push_back(made, x, s)
           r == NewRecord(mem, x, cap, Len(s))
<1>1. /\ ~There(x)
      /\ ((Ends(w, "done") /\ IsValid(w, x)) \/ Throws("strong"))
  BY DEF Construct
<1>2. /\ x \notin InUse(buf) /\ State(mem, buf, Held) /\ Holding(buf, Held)
  BY <1>1 DEF There, InUse, BufferInv, State
<1>3. buf \in [Buffers -> Records \cup {None}] /\ Len(s) \in Nat
  BY <1>2 DEF Holding
<1>4. cap \in Nat /\ cap >= Len(s) /\ cap >= N /\ N \in Nat
  BY <1>3, MaxOfThree, Apart
<1> HIDE DEF cap, Held
<1>5. Roomy(cap) = cap /\ Len(s) <= Roomy(cap)
  BY <1>3, <1>4, RoomyIs
<1>6. r = [at |-> Place(mem, x, cap), cap |-> cap, size |-> Len(s)]
  BY <1>5 DEF NewRecord
<1>7. State(Made(mem, x, cap, s), Changed(buf, x, r), Changed(Held, x, s)) /\ Fits(x, r, s)
  BY <1>2, <1>4, <1>5, MadeState, NewRecordFits
<1>8. w = [mem |-> Made(mem, x, cap, s), buf |-> Changed(buf, x, r)]
  <2>1. made.mem = allocate(mem, x, cap) /\ made.buf = [buf EXCEPT ![x] = got] /\ made.buf[x] = got
    BY <1>3
  <2>2. got.at = Place(mem, x, cap) /\ got.size = 0
    OBVIOUS
  <2>3. w = [mem |-> Built(allocate(mem, x, cap), Place(mem, x, cap), 0, s),
             buf |-> [[buf EXCEPT ![x] = got] EXCEPT ![x].size = @ + Len(s)]]
    BY <2>1, <2>2 DEF unchecked_push_back
  <2>4. [got EXCEPT !.size = 0 + Len(s)] = r
    BY <1>3, <1>6
  <2>5. [[buf EXCEPT ![x] = got] EXCEPT ![x].size = @ + Len(s)] = Changed(buf, x, r)
    <3>1. [[buf EXCEPT ![x] = got] EXCEPT ![x].size = @ + Len(s)]
            = [buf EXCEPT ![x] = [got EXCEPT !.size = 0 + Len(s)]]
      BY <1>3, <2>2
    <3> QED BY <2>4, <3>1 DEF Changed
  <2> QED BY <2>3, <2>5 DEF Made
<1>9. r \in Records /\ r # None /\ r.at # None
  BY <1>7, FitsFacts
<1> HIDE DEF w, r
<1>10. Gives(w, Changed(buf, x, r), Changed(Held, x, s))
  BY <1>7, <1>8, GivesWorld
<1>11. CASE Ends(w, "done") /\ IsValid(w, x)
  <2>1. buf' = Changed(buf, x, r) /\ State(mem', buf', Changed(Held, x, s)) /\ outcome' = "done"
    BY <1>10, <1>11, GivesFacts DEF Ends
  <2>2. x \in InUse(Changed(buf, x, r))
    BY <1>2, <1>9, InUseChanged
  <2>3. is_valid(w.buf[x], x)
    BY <1>10, <2>2, ValidWorld
  <2>4. Sound'
    BY <1>11, <2>3, AssertedHolds DEF IsValid
  <2> QED BY <1>1, <1>9, <2>1, <2>4, GoesConstruct
<1> QED BY <1>1, <1>11, ThrowsGoes DEF w

LEMMA DestroyGoes ==
  ASSUME BufferInv, NEW x \in Buffers, Destroy(x)
  PROVE  Goes
<1> DEFINE m2 == auto_buffer_destroy(mem, buf[x])
<1>1. /\ There(x) /\ mem' = m2 /\ buf' = Changed(buf, x, None) /\ outcome' = "done" /\ Sound'
      /\ State(mem, buf, Held)
  BY DEF Destroy, Changed, BufferInv, Sound
<1> HIDE DEF Held
<1>2. State(m2, Changed(buf, x, None), Changed(Held, x, << >>))
  <2>1. CASE x \in InUse(buf)
    BY <1>1, <2>1, DestroyedState
  <2>2. CASE x \notin InUse(buf)
    <3>1. m2 = mem
      BY <1>1, <2>2 DEF auto_buffer_destroy, InUse, There
    <3>2. DOMAIN mem = Buffers \cup {buf[y].at : y \in InUse(buf) \ {x}} /\ mem[x] = Cells(N, << >>)
      BY <1>1, <2>2 DEF State, Stored
    <3>3. State(mem, Changed(buf, x, None), Changed(Held, x, << >>))
      BY <1>1, <3>2, Taken
    <3> QED BY <3>1, <3>3
  <2> QED BY <2>1, <2>2
<1> QED BY <1>1, <1>2, GoesDestroy

-----------------------------------------------------------------------------
(* Swaps. *)

Exchanged(f, x, y) == [f EXCEPT ![x] = f[y], ![y] = f[x]]

LEMMA SwapHeapGoes ==
  ASSUME BufferInv, NEW x \in Buffers, NEW y \in Buffers, SwapHeap(x, y)
  PROVE  Goes
<1> DEFINE S == Held
           b == Exchanged(buf, x, y)
           Z == Exchanged(S, x, y)
           w == [mem |-> mem, buf |-> b]
<1>1. /\ There(x) /\ There(y) /\ x # y /\ ~(buf[x].cap <= N) /\ ~(buf[y].cap <= N)
      /\ Ends(w, "done") /\ BothValid(w, x, y)
  BY DEF SwapHeap, is_on_stack, Exchanged
<1>2. /\ State(mem, buf, S) /\ x \in InUse(buf) /\ y \in InUse(buf)
      /\ Fits(x, buf[x], S[x]) /\ Fits(y, buf[y], S[y])
      /\ There(x) /\ There(y)
  BY <1>1, ThereFacts
<1>0. buf[x].at \in Blocks /\ buf[y].at \in Blocks
  <2>1. buf[x].cap \in Nat /\ buf[y].cap \in Nat /\ N \in Nat
    BY <1>1, ThereFacts
  <2>2. buf[x].cap > N /\ buf[y].cap > N
    BY <1>1, <2>1
  <2> QED BY <1>2, <2>2 DEF Fits
<1>3. /\ buf \in [Buffers -> Records \cup {None}] /\ S \in [Buffers -> Seq(Values)]
      /\ (\A z \in InUse(buf) : Fits(z, buf[z], S[z]))
      /\ (\A z \in Buffers \ InUse(buf) : S[z] = << >>)
      /\ (\A z, v \in InUse(buf) : buf[z].at = buf[v].at => z = v)
  BY <1>2 DEF State, Holding
<1> HIDE DEF S
<1>4. /\ b \in [Buffers -> Records \cup {None}] /\ b[x] = buf[y] /\ b[y] = buf[x]
      /\ \A z \in Buffers : z # x /\ z # y => b[z] = buf[z]
  <2>1. buf \in [Buffers -> Records \cup {None}]
    BY <1>3
  <2> QED BY <2>1 DEF Exchanged
<1>5. /\ Z \in [Buffers -> Seq(Values)] /\ Z[x] = S[y] /\ Z[y] = S[x]
      /\ \A z \in Buffers : z # x /\ z # y => Z[z] = S[z]
  <2>1. S \in [Buffers -> Seq(Values)]
    BY <1>3
  <2> QED BY <2>1 DEF Exchanged
<1> HIDE DEF b, Z
<1>6. InUse(b) = InUse(buf) /\ InUse(buf) \subseteq Buffers
  BY <1>2, <1>4 DEF InUse
<1>7. Fits(x, b[x], Z[x]) /\ Fits(y, b[y], Z[y])
  BY <1>1, <1>2, <1>4, <1>5 DEF Fits
<1>8. Holding(b, Z)
  <2>1. \A z \in InUse(b) : Fits(z, b[z], Z[z])
    BY <1>3, <1>4, <1>5, <1>6, <1>7
  <2>2. \A z \in Buffers \ InUse(b) : Z[z] = << >>
    BY <1>2, <1>3, <1>5, <1>6
  <2>3. \A z, v \in InUse(b) : b[z].at = b[v].at => z = v
    BY <1>2, <1>3, <1>4, <1>6
  <2> QED BY <1>4, <1>5, <2>1, <2>2, <2>3 DEF Holding
<1>9. Stored(mem, b, Z)
  <2>1. {b[z].at : z \in InUse(b)} = {buf[z].at : z \in InUse(buf)}
    BY <1>2, <1>4, <1>6
  <2>2. \A z \in InUse(buf) : mem[buf[z].at] = Cells(buf[z].cap, S[z])
    BY <1>2 DEF State, Stored
  <2>3. \A z \in InUse(b) : mem[b[z].at] = Cells(b[z].cap, Z[z])
    BY <1>2, <1>4, <1>5, <1>6, <2>2
  <2>4. ASSUME NEW z \in Buffers, z \in InUse(b) => b[z].at # z PROVE mem[z] = Cells(N, << >>)
    <3>1. z \in InUse(buf) => buf[z].at # z
      <4>1. CASE z = x
        BY <1>0, <4>1, Apart
      <4>2. CASE z = y
        BY <1>0, <4>2, Apart
      <4>3. CASE z # x /\ z # y
        BY <1>4, <1>6, <2>4, <4>3
      <4> QED BY <4>1, <4>2, <4>3
    <3> QED BY <1>2, <3>1 DEF State, Stored
  <2>5. DOMAIN mem = Buffers \cup {b[z].at : z \in InUse(b)}
    BY <1>2, <2>1 DEF State, Stored
  <2> QED BY <2>3, <2>4, <2>5 DEF Stored
<1>10. Gives(w, b, Z)
  BY <1>8, <1>9, GivesWorld DEF State
<1>11. Alike(b, buf)
  BY <1>2, <1>4 DEF Alike, There
<1> HIDE DEF w
<1>12. Reached(Z) /\ outcome' = "done"
  BY <1>1, <1>10, <1>11, EndsReached
<1>13. is_valid(w.buf[x], x) /\ is_valid(w.buf[y], y)
  BY <1>2, <1>6, <1>10, ValidWorld
<1>14. Sound'
  BY <1>1, <1>13, AssertedHolds DEF BothValid
<1>15. Reached([Held EXCEPT ![x] = Held[y], ![y] = Held[x]])
  BY <1>12 DEF Z, S, Exchanged
<1> HIDE DEF Held
<1> QED BY <1>2, <1>12, <1>14, <1>15, GoesSwap

LEMMA SwapOneGoes ==
  ASSUME BufferInv, NEW x \in Buffers, NEW y \in Buffers, SwapOne(x, y)
  PROVE  Goes
<1> DEFINE S == Held
           s == Contents(World, x)
           copied == Built(mem, y, 0, s)
           m2 == auto_buffer_destroy(copied, buf[x])
           r == [buf[x] EXCEPT !.at = y]
           b == [buf EXCEPT ![x] = buf[y], ![y] = r]
           Z == Exchanged(S, x, y)
           w == [mem |-> m2, buf |-> b]
           o == buf[y].at
<1>1. /\ There(x) /\ There(y) /\ buf[x].cap <= N /\ ~(buf[y].cap <= N)
      /\ ((Ends(w, "done") /\ BothValid(w, x, y)) \/ Throws("strong"))
  BY DEF SwapOne, is_on_stack
<1>2. /\ State(mem, buf, S) /\ x \in InUse(buf) /\ y \in InUse(buf)
      /\ Fits(x, buf[x], S[x]) /\ Fits(y, buf[y], S[y])
      /\ There(x) /\ There(y) /\ s = S[x]
  BY <1>1, ThereFacts
<1>3. /\ buf \in [Buffers -> Records \cup {None}] /\ S \in [Buffers -> Seq(Values)]
      /\ (\A z \in InUse(buf) : Fits(z, buf[z], S[z]))
      /\ (\A z \in Buffers \ InUse(buf) : S[z] = << >>)
      /\ (\A z, v \in InUse(buf) : buf[z].at = buf[v].at => z = v)
  BY <1>2 DEF State, Holding
<1> HIDE DEF S, s
<1>4. /\ buf[x].cap = N /\ buf[x].at = x /\ Len(S[x]) <= N /\ S[x] \in Seq(Values)
      /\ buf[x].size = Len(S[x]) /\ N \in Nat /\ buf[x] \in Records
      /\ o \in Blocks /\ x # y /\ o \notin Buffers
  <2>1. buf[x].cap \in Nat /\ buf[y].cap \in Nat /\ N \in Nat
    BY <1>2, FitsFacts, Apart
  <2>2. buf[y].cap > N
    BY <1>1, <2>1
  <2>3. o \in Blocks
    BY <1>2, <2>2 DEF Fits
  <2>4. buf[x].cap = N /\ buf[x].at = x
    BY <1>1, <1>2 DEF Fits
  <2>5. Len(S[x]) <= N /\ S[x] \in Seq(Values) /\ buf[x].size = Len(S[x]) /\ buf[x] \in Records
    BY <1>2, <2>4, FitsFacts
  <2> QED BY <2>1, <2>2, <2>3, <2>4, <2>5, Apart
<1>5. /\ mem[y] = Cells(N, << >>) /\ mem[x] = Cells(N, S[x])
      /\ DOMAIN mem = Buffers \cup {buf[z].at : z \in InUse(buf)}
      /\ mem[o] = Cells(buf[y].cap, S[y])
  <2>1. o # y
    BY <1>4
  <2> QED BY <1>2, <1>4, <2>1 DEF State, Stored
<1>6. copied = [mem EXCEPT ![y] = Cells(N, S[x])]
  <2> DEFINE t == S[x]
  <2>1. y \in DOMAIN mem
    BY <1>5
  <2>2. N \in Nat /\ t \in Seq(Values) /\ mem[y] = Cells(N, << >>) /\ Len(t) <= N
    BY <1>4, <1>5
  <2>3. copied = Built(mem, y, 0, t)
    BY <1>2
  <2> HIDE DEF t, copied
  <2>4. Built(mem, y, 0, t) = [mem EXCEPT ![y] = Cells(N, t)]
    BY <2>1, <2>2, BuiltFirst
  <2> QED BY <2>3, <2>4 DEF t
<1> HIDE DEF copied
<1>7. DOMAIN copied = DOMAIN mem /\ copied[y] = Cells(N, S[x])
      /\ \A d \in DOMAIN mem : d # y => copied[d] = mem[d]
  BY <1>5, <1>6
<1>8. copied[x] = Cells(N, S[x]) /\ x \in DOMAIN copied
  BY <1>4, <1>5, <1>7
<1>9. m2 = [copied EXCEPT ![x] = Cells(N, << >>)]
  <2>1. buf[x].at \in DOMAIN copied /\ copied[buf[x].at] = Cells(buf[x].cap, S[x])
    BY <1>4, <1>8
  <2>2. buf[x].cap <= N => auto_buffer_destroy(copied, buf[x]) = [copied EXCEPT ![buf[x].at] = Cells(N, << >>)]
    BY <1>2, <2>1, DestroyedIs
  <2> QED BY <1>1, <1>4, <2>2
<1> HIDE DEF m2
<1>10. /\ DOMAIN m2 = DOMAIN mem /\ m2[x] = Cells(N, << >>) /\ m2[y] = Cells(N, S[x])
       /\ \A d \in DOMAIN mem : d # x /\ d # y => m2[d] = mem[d]
  BY <1>4, <1>7, <1>8, <1>9
<1>11. r = [at |-> y, cap |-> N, size |-> Len(S[x])]
  BY <1>4, RecordsAre
<1>12. r \in Records /\ r.at = y /\ r.cap = N /\ r.size = Len(S[x])
  BY <1>4, <1>11 DEF Records
<1>13. Fits(y, r, S[x])
  BY <1>4, <1>12, Apart DEF Fits
<1> HIDE DEF r
<1>14. /\ b[x] = buf[y] /\ b[y] = r /\ \A z \in Buffers : z # x /\ z # y => b[z] = buf[z]
       /\ b \in [Buffers -> Records \cup {None}]
  BY <1>3, <1>4, <1>12
<1>15. /\ Z \in [Buffers -> Seq(Values)] /\ Z[x] = S[y] /\ Z[y] = S[x]
       /\ \A z \in Buffers : z # x /\ z # y => Z[z] = S[z]
  <2>1. S \in [Buffers -> Seq(Values)]
    BY <1>3
  <2> QED BY <2>1 DEF Exchanged
<1> HIDE DEF b, Z
<1>16. r # None /\ r.at # None
  BY <1>13, FitsFacts
<1>17. InUse(b) = InUse(buf) /\ InUse(buf) \subseteq Buffers
  BY <1>2, <1>14, <1>16 DEF InUse
<1>18. Fits(x, b[x], Z[x])
  <2>1. buf[y].cap > N => buf[y].at \in Blocks
    BY <1>2, FitsFacts
  <2> QED BY <1>1, <1>2, <1>14, <1>15 DEF Fits
<1>19. Holding(b, Z)
  <2>1. \A z \in InUse(b) : Fits(z, b[z], Z[z])
    BY <1>3, <1>13, <1>14, <1>15, <1>17, <1>18
  <2>2. \A z \in Buffers \ InUse(b) : Z[z] = << >>
    BY <1>2, <1>3, <1>15, <1>17
  <2>3. ASSUME NEW z \in InUse(b), NEW v \in InUse(b), b[z].at = b[v].at PROVE z = v
    <3>1. ASSUME NEW q \in InUse(b), q # x, q # y PROVE b[q].at # y /\ b[q].at # o
      <4>1. q \in Buffers /\ b[q] = buf[q] /\ q \in InUse(buf)
        BY <1>14, <1>17, <3>1
      <4>2. buf[q].at # y
        BY <1>2, <3>1, <4>1, Elsewhere
      <4>3. buf[q].at # o
        BY <1>2, <1>3, <3>1, <4>1
      <4> QED BY <4>1, <4>2, <4>3
    <3>2. b[x].at = o /\ b[y].at = y /\ o # y
      BY <1>4, <1>12, <1>14
    <3>3. CASE z # x /\ z # y /\ v # x /\ v # y
      BY <1>3, <1>14, <1>17, <2>3, <3>3
    <3> QED BY <2>3, <3>1, <3>2, <3>3
  <2> QED BY <1>14, <1>15, <2>1, <2>2, <2>3 DEF Holding
<1>20. Stored(m2, b, Z)
  <2>1. DOMAIN m2 = Buffers \cup {b[z].at : z \in InUse(b)}
    <3>1. b[x].at = o /\ b[y].at = y
      BY <1>12, <1>14
    <3>2. \A z \in InUse(b) : b[z].at \in Buffers \cup {buf[v].at : v \in InUse(buf)}
      BY <1>2, <1>14, <1>17, <3>1
    <3>3. \A z \in InUse(buf) : buf[z].at \in Buffers \cup {b[v].at : v \in InUse(b)}
      BY <1>2, <1>4, <1>14, <1>17, <3>1
    <3> QED BY <1>5, <1>10, <3>2, <3>3
  <2>2. ASSUME NEW z \in InUse(b) PROVE m2[b[z].at] = Cells(b[z].cap, Z[z])
    <3>1. CASE z = x
      <4>1. o # x /\ o # y /\ o \in DOMAIN mem
        BY <1>2, <1>4, <1>5
      <4> QED BY <1>5, <1>10, <1>14, <1>15, <3>1, <4>1
    <3>2. CASE z = y
      BY <1>10, <1>12, <1>14, <1>15, <3>2
    <3>3. CASE z # x /\ z # y
      <4>1. z \in InUse(buf) /\ b[z] = buf[z] /\ Z[z] = S[z]
        BY <1>14, <1>15, <1>17, <3>3
      <4>2. buf[z].at # x /\ buf[z].at # y
        BY <1>2, <3>3, <4>1, Elsewhere
      <4>3. buf[z].at \in DOMAIN mem /\ mem[buf[z].at] = Cells(buf[z].cap, S[z])
        BY <1>2, <4>1, InUseFacts
      <4> QED BY <1>10, <4>1, <4>2, <4>3
    <3> QED BY <3>1, <3>2, <3>3
  <2>3. ASSUME NEW z \in Buffers, z \in InUse(b) => b[z].at # z PROVE m2[z] = Cells(N, << >>)
    <3>1. CASE z = x
      BY <1>10, <3>1
    <3>2. CASE z = y
      BY <1>2, <1>12, <1>14, <1>17, <2>3, <3>2
    <3>3. CASE z # x /\ z # y
      <4>1. z \in InUse(buf) => buf[z].at # z
        BY <1>14, <1>17, <2>3, <3>3
      <4>2. mem[z] = Cells(N, << >>) /\ z \in DOMAIN mem
        BY <1>2, <1>5, <4>1 DEF State, Stored
      <4> QED BY <1>10, <3>3, <4>2
    <3> QED BY <3>1, <3>2, <3>3
  <2> QED BY <2>1, <2>2, <2>3 DEF Stored
<1>21. Gives(w, b, Z)
  BY <1>19, <1>20, GivesWorld DEF State
<1>22. Alike(b, buf)
  BY <1>2, <1>14, <1>16 DEF Alike, There
<1> HIDE DEF w
<1>23. CASE Ends(w, "done") /\ BothValid(w, x, y)
  <2>1. Reached(Z) /\ outcome' = "done"
    BY <1>21, <1>22, <1>23, EndsReached
  <2>2. is_valid(w.buf[x], x) /\ is_valid(w.buf[y], y)
    BY <1>2, <1>17, <1>21, ValidWorld
  <2>3. Sound'
    BY <1>23, <2>2, AssertedHolds DEF BothValid
  <2>4. Reached([Held EXCEPT ![x] = Held[y], ![y] = Held[x]])
    BY <2>1 DEF Z, S, Exchanged
  <2> HIDE DEF Held
  <2> QED BY <1>2, <2>1, <2>3, <2>4, GoesSwap
<1> QED BY <1>1, <1>23, ThrowsGoes DEF w, b, r, m2, copied, s

LEMMA SplitSequence ==
  ASSUME NEW t \in Seq(Values), NEW i \in 0..Len(t)
  PROVE  SubSeq(t, 1, i) \o Part(t, i, Len(t)) = t
<1> DEFINE l == Len(t)
           a == SubSeq(t, 1, i)
           c == Part(t, i, l)
           q == a \o c
<1>1. a \in Seq(Values) /\ Len(a) = i /\ \A k \in 1..i : a[k] = t[k]
  BY FirstElements
<1>2. c \in Seq(Values) /\ Len(c) = l - i /\ \A k \in 1..l - i : c[k] = t[i + k]
  <2>1. l \in i..Len(t)
    OBVIOUS
  <2> QED BY <2>1, PartElements
<1> HIDE DEF a, c
<1>3. q \in Seq(Values) /\ Len(q) = Len(a) + Len(c)
      /\ (\A j \in 1..Len(a) : q[j] = a[j])
      /\ \A j \in Len(a) + 1..Len(a) + Len(c) : q[j] = c[j - Len(a)]
  BY <1>1, <1>2, JoinedElements
<1>4. l \in Nat /\ i \in Nat /\ i + (l - i) = l
  OBVIOUS
<1> HIDE DEF q, l
<1>5. q \in Seq(Values) /\ Len(q) = l /\ (\A j \in 1..i : q[j] = a[j])
      /\ \A j \in i + 1..l : q[j] = c[j - i]
  BY <1>1, <1>2, <1>3, <1>4
<1>6. ASSUME NEW k \in 1..l PROVE q[k] = t[k]
  <2>1. CASE k <= i
    <3>1. k \in 1..i
      BY <1>4, <2>1
    <3> QED BY <1>1, <1>5, <3>1
  <2>2. CASE k > i
    <3>1. k \in i + 1..l /\ k - i \in 1..l - i /\ i + (k - i) = k
      BY <1>4, <2>2
    <3>2. q[k] = c[k - i] /\ c[k - i] = t[i + (k - i)]
      BY <1>2, <1>5, <3>1
    <3> QED BY <3>1, <3>2
  <2> QED BY <1>4, <2>1, <2>2
<1>7. q = t
  BY <1>5, <1>6 DEF l
<1> QED BY <1>7 DEF q, a, c, l

-----------------------------------------------------------------------------
(* A swap of two buffers on the stack.                                     *)

(* In the course of it: in the world w, x and y have the elements u and v in *)
(* the memory that they had, and all else is as it was.                      *)
Between(w, x, y, u, v) ==
    \E b, Z :
        /\ Gives(w, b, Z) /\ Alike(b, buf) /\ InUse(b) = InUse(buf)
        /\ b[x].cap = buf[x].cap /\ b[y].cap = buf[y].cap
        /\ Z[x] = u /\ Z[y] = v
        /\ \A z \in Buffers : z # x /\ z # y => Z[z] = Held[z]

LEMMA BetweenFacts ==
  ASSUME BufferInv, NEW x \in Buffers, NEW y \in Buffers, x # y, There(x), There(y),
         NEW w, NEW u, NEW v, Between(w, x, y, u, v)
  PROVE  /\ u \in Seq(Values) /\ v \in Seq(Values)
         /\ is_valid(w.buf[x], x) /\ is_valid(w.buf[y], y)
         /\ \A how : Ends(w, how) => Reached([Held EXCEPT ![x] = u, ![y] = v]) /\ outcome' = how
<1>1. x \in InUse(buf) /\ y \in InUse(buf) /\ Holding(buf, Held)
  BY ThereFacts
<1>2. Held \in [Buffers -> Seq(Values)]
  BY <1>1 DEF Holding
<1> HIDE DEF Held
<1>3. PICK b, Z :
        /\ Gives(w, b, Z) /\ Alike(b, buf) /\ InUse(b) = InUse(buf)
        /\ Z[x] = u /\ Z[y] = v
        /\ \A z \in Buffers : z # x /\ z # y => Z[z] = Held[z]
  BY DEF Between
<1>4. Z \in [Buffers -> Seq(Values)]
  BY <1>3, GivesFacts
<1>5. Z = [Held EXCEPT ![x] = u, ![y] = v]
  BY <1>2, <1>3, <1>4
<1>6. is_valid(w.buf[x], x) /\ is_valid(w.buf[y], y)
  BY <1>1, <1>3, ValidWorld
<1>7. ASSUME NEW how, Ends(w, how) PROVE Reached(Z) /\ outcome' = how
  BY <1>3, <1>7, EndsReached
<1> QED BY <1>3, <1>4, <1>5, <1>6, <1>7

LEMMA BetweenStarts ==
  ASSUME BufferInv, NEW x \in Buffers, NEW y \in Buffers, There(x), There(y)
  PROVE  Between(World, x, y, Held[x], Held[y])
<1>1. Gives(World, buf, Held)
  BY ThereFacts
<1> HIDE DEF Held
<1> QED BY <1>1, AlikeSame DEF Between

LEMMA BetweenOverwriteFirst ==
  ASSUME BufferInv, NEW x \in Buffers, NEW y \in Buffers, x # y, There(x), There(y),
         NEW w, NEW u, NEW v, Between(w, x, y, u, v),
         NEW s \in Seq(Values), NEW i \in Nat, NEW k \in 0..Len(s), i + k <= Len(u)
  PROVE  Between(Overwritten(w, x, i, s, k), x, y, Patched(u, i, SubSeq(s, 1, k)), v)
<1>1. x \in InUse(buf) /\ y \in InUse(buf)
  BY ThereFacts
<1> HIDE DEF Held
<1>3. PICK b, Z :
        /\ Gives(w, b, Z) /\ Alike(b, buf) /\ InUse(b) = InUse(buf)
        /\ b[x].cap = buf[x].cap /\ b[y].cap = buf[y].cap
        /\ Z[x] = u /\ Z[y] = v
        /\ \A z \in Buffers : z # x /\ z # y => Z[z] = Held[z]
  BY DEF Between
<1> DEFINE p == Patched(u, i, SubSeq(s, 1, k))
           g == Overwritten(w, x, i, s, k)
           C == Changed(Z, x, p)
<1>4. Gives(g, b, C)
  <2>1. i + k <= Len(Z[x]) /\ x \in InUse(b)
    BY <1>1, <1>3
  <2> HIDE DEF g, C
  <2>2. Gives(Overwritten(w, x, i, s, k), b, Changed(Z, x, Patched(Z[x], i, SubSeq(s, 1, k))))
    BY <1>3, <2>1, OverwrittenIs
  <2> QED BY <1>3, <2>2 DEF g, C
<1>5. Z \in [Buffers -> Seq(Values)]
  BY <1>3, GivesFacts
<1> HIDE DEF p, g
<1>6. C[x] = p /\ \A z \in Buffers : z # x => C[z] = Z[z]
  BY <1>5 DEF Changed
<1> HIDE DEF C
<1>7. Between(g, x, y, p, v)
  BY <1>3, <1>4, <1>6 DEF Between
<1> QED BY <1>7 DEF p, g

LEMMA BetweenOverwriteSecond ==
  ASSUME BufferInv, NEW x \in Buffers, NEW y \in Buffers, x # y, There(x), There(y),
         NEW w, NEW u, NEW v, Between(w, x, y, u, v),
         NEW s \in Seq(Values), NEW k \in 0..Len(s), k <= Len(v)
  PROVE  Between(Overwritten(w, y, 0, s, k), x, y, u, Patched(v, 0, SubSeq(s, 1, k)))
<1>1. Between(w, y, x, v, u) /\ 0 \in Nat /\ 0 + k <= Len(v)
  BY DEF Between
<1>2. Between(Overwritten(w, y, 0, s, k), y, x, Patched(v, 0, SubSeq(s, 1, k)), u)
  BY <1>1, BetweenOverwriteFirst
<1> QED BY <1>2 DEF Between

LEMMA BetweenResize ==
  ASSUME BufferInv, NEW x \in Buffers, NEW y \in Buffers, x # y, There(x), There(y),
         NEW b, NEW Z, Holding(b, Z), Alike(b, buf), InUse(b) = InUse(buf),
         b[x].cap = buf[x].cap, b[y].cap = buf[y].cap,
         \A z \in Buffers : z # x /\ z # y => Z[z] = Held[z],
         NEW g, NEW t \in Seq(Values), Gives(g, Resized(b, x, Len(t)), Changed(Z, x, t))
  PROVE  Between(g, x, y, t, Z[y])
<1>1. x \in InUse(b) /\ y \in InUse(b) /\ Len(t) \in Nat
  BY ThereFacts
<1> HIDE DEF Held
<1> DEFINE c == Resized(b, x, Len(t))
           C == Changed(Z, x, t)
<1>2. /\ Alike(c, b) /\ InUse(c) = InUse(b)
      /\ c[x].cap = b[x].cap /\ c[y].cap = b[y].cap
  BY <1>1, ResizedFacts
<1>3. C[x] = t /\ \A z \in Buffers : z # x => C[z] = Z[z]
  BY DEF Holding, Changed
<1> HIDE DEF c, C
<1>4. Gives(g, c, C)
  BY DEF c, C
<1>5. Alike(c, buf)
  BY <1>2 DEF Alike
<1> QED BY <1>2, <1>3, <1>4, <1>5 DEF Between

LEMMA BetweenPush ==
  ASSUME BufferInv, NEW x \in Buffers, NEW y \in Buffers, x # y, There(x), There(y),
         NEW w, NEW u, NEW v, Between(w, x, y, u, v),
         NEW s \in Seq(Values), Len(u) + Len(s) <= buf[x].cap
  PROVE  Between(unchecked_push_back(w, x, s), x, y, u \o s, v)
<1>1. x \in InUse(buf) /\ y \in InUse(buf)
  BY ThereFacts
<1> HIDE DEF Held
<1>2. PICK b, Z :
        /\ Gives(w, b, Z) /\ Alike(b, buf) /\ InUse(b) = InUse(buf)
        /\ b[x].cap = buf[x].cap /\ b[y].cap = buf[y].cap
        /\ Z[x] = u /\ Z[y] = v
        /\ \A z \in Buffers : z # x /\ z # y => Z[z] = Held[z]
  BY DEF Between
<1>3. u \in Seq(Values) /\ Holding(b, Z)
  <2>1. Z \in [Buffers -> Seq(Values)] /\ Holding(b, Z)
    BY <1>2, GivesFacts
  <2> QED BY <1>2, <2>1
<1> DEFINE t == u \o s
           g == unchecked_push_back(w, x, s)
<1>4. t \in Seq(Values)
  BY <1>3
<1>5. Gives(g, Resized(b, x, Len(t)), Changed(Z, x, t))
  <2>1. x \in InUse(b) /\ Len(Z[x]) + Len(s) <= b[x].cap
    BY <1>1, <1>2
  <2>2. Gives(unchecked_push_back(w, x, s), Resized(b, x, Len(Z[x] \o s)), Changed(Z, x, Z[x] \o s))
    BY <1>2, <2>1, PushedBack
  <2> QED BY <1>2, <2>2
<1> HIDE DEF t, g
<1>6. Between(g, x, y, t, Z[y])
  BY <1>2, <1>3, <1>4, <1>5, BetweenResize
<1> QED BY <1>2, <1>6 DEF t, g

LEMMA BetweenPop ==
  ASSUME BufferInv, NEW x \in Buffers, NEW y \in Buffers, x # y, There(x), There(y),
         NEW w, NEW u, NEW v, Between(w, x, y, u, v), NEW n \in 0..Len(u)
  PROVE  Between(pop_back_n(w, x, n), x, y, SubSeq(u, 1, Len(u) - n), v)
<1>1. x \in InUse(buf) /\ y \in InUse(buf)
  BY ThereFacts
<1> HIDE DEF Held
<1>2. PICK b, Z :
        /\ Gives(w, b, Z) /\ Alike(b, buf) /\ InUse(b) = InUse(buf)
        /\ b[x].cap = buf[x].cap /\ b[y].cap = buf[y].cap
        /\ Z[x] = u /\ Z[y] = v
        /\ \A z \in Buffers : z # x /\ z # y => Z[z] = Held[z]
  BY DEF Between
<1>3. u \in Seq(Values) /\ Holding(b, Z)
  <2>1. Z \in [Buffers -> Seq(Values)] /\ Holding(b, Z)
    BY <1>2, GivesFacts
  <2> QED BY <1>2, <2>1
<1> DEFINE l == Len(u) - n
           t == SubSeq(u, 1, l)
           g == pop_back_n(w, x, n)
<1>4. t \in Seq(Values) /\ Len(t) = l
  <2>1. l \in 0..Len(u)
    BY <1>3
  <2> HIDE DEF l
  <2> QED BY <1>3, <2>1, FirstElements
<1>5. Gives(g, Resized(b, x, Len(t)), Changed(Z, x, t))
  <2>1. x \in InUse(b) /\ n \in 0..Len(Z[x])
    BY <1>1, <1>2
  <2>2. Gives(pop_back_n(w, x, n), Resized(b, x, Len(Z[x]) - n),
              Changed(Z, x, SubSeq(Z[x], 1, Len(Z[x]) - n)))
    BY <1>2, <2>1, PoppedBack
  <2> QED BY <1>2, <1>4, <2>2
<1> HIDE DEF t, g, l
<1>6. Between(g, x, y, t, Z[y])
  BY <1>2, <1>3, <1>4, <1>5, BetweenResize
<1> QED BY <1>2, <1>6 DEF t, g, l

LEMMA BetweenPopSecond ==
  ASSUME BufferInv, NEW x \in Buffers, NEW y \in Buffers, x # y, There(x), There(y),
         NEW w, NEW u, NEW v, Between(w, x, y, u, v), NEW n \in 0..Len(v)
  PROVE  Between(pop_back_n(w, y, n), x, y, u, SubSeq(v, 1, Len(v) - n))
<1>1. Between(w, y, x, v, u)
  BY DEF Between
<1>2. Between(pop_back_n(w, y, n), y, x, SubSeq(v, 1, Len(v) - n), u)
  BY <1>1, BetweenPop
<1> QED BY <1>2 DEF Between

LEMMA SwapStackGoes ==
  ASSUME BufferInv, NEW x \in Buffers, NEW y \in Buffers, SwapStack(x, y)
  PROVE  Goes
<1> DEFINE s == Contents(World, x)
           t == Contents(World, y)
           n == Len(s)
           l == Len(t)
           rest == Part(t, n, l)
           Swapped(k) == Overwritten(Overwritten(World, x, 0, t, k), y, 0, s, k)
           HalfSwapped(k) == Overwritten(Swapped(k), x, k, <<t[k + 1]>>, 1)
           c == Swapped(n)
           Pushed(k) == unchecked_push_back(c, x, SubSeq(rest, 1, k))
           w == pop_back_n(Pushed(Len(rest)), y, Len(rest))
<1>1. /\ There(x) /\ There(y) /\ x # y /\ buf[x].cap <= N /\ buf[y].cap <= N
      /\ buf[x].size <= buf[y].size
  BY DEF SwapStack, is_on_stack
<1>2. /\ s \in Seq(Values) /\ s = Held[x] /\ buf[x].size = n /\ n \in Nat /\ There(x)
      /\ buf[x].cap \in Nat /\ buf[x].cap >= N
  BY <1>1, ThereFacts
<1>3. /\ t \in Seq(Values) /\ t = Held[y] /\ buf[y].size = l /\ l \in Nat /\ There(y)
      /\ buf[y].cap \in Nat /\ l <= buf[y].cap /\ N \in Nat
  BY <1>1, ThereFacts
<1>4. n \in 0..l /\ l <= buf[x].cap
  <2>1. n <= l
    BY <1>1, <1>2, <1>3
  <2> HIDE DEF n, l
  <2> QED BY <1>1, <1>2, <1>3, <2>1
<1>5. \/ Ends(w, "done") /\ BothValid(w, x, y)
      \/ \E k \in 0..n - 1 :
            /\ Ends(Swapped(k), "basic swap") \/ Ends(HalfSwapped(k), "basic swap")
            /\ UNCHANGED failed
      \/ \E k \in 0..Len(rest) - 1 : Ends(Pushed(k), "basic swap") /\ UNCHANGED failed
  BY <1>2, <1>3 DEF SwapStack
<1> HIDE DEF s, t, Held
<1>6. rest \in Seq(Values) /\ Len(rest) = l - n /\ SubSeq(t, 1, n) \o rest = t
      /\ SubSeq(t, 1, n) \in Seq(Values) /\ Len(SubSeq(t, 1, n)) = n
  <2>1. l \in n..Len(t) /\ n \in 0..Len(t)
    BY <1>3, <1>4
  <2> HIDE DEF n
  <2>2. rest \in Seq(Values) /\ Len(rest) = l - n
    BY <1>3, <2>1, PartElements
  <2>3. SubSeq(t, 1, n) \o rest = t
    BY <1>3, <2>1, SplitSequence
  <2>4. SubSeq(t, 1, n) \in Seq(Values) /\ Len(SubSeq(t, 1, n)) = n
    BY <1>3, <2>1, FirstElements
  <2> QED BY <2>2, <2>3, <2>4
<1> HIDE DEF rest
<1> DEFINE a == SubSeq(t, 1, n)
           z == Patched(t, 0, s)
<1> DEFINE Upper(k) == Patched(s, 0, SubSeq(t, 1, k))
           Lower(k) == Patched(t, 0, SubSeq(s, 1, k))
<1>7. \A k \in 0..n : Between(Swapped(k), x, y, Upper(k), Lower(k))
  <2> TAKE k \in 0..n
  <2>1. Between(World, x, y, s, t)
    BY <1>1, <1>2, <1>3, BetweenStarts
  <2> DEFINE w1 == Overwritten(World, x, 0, t, k)
             u == Upper(k)
  <2>2. k \in 0..Len(t) /\ k <= Len(s) /\ k \in 0..Len(s) /\ k <= Len(t) /\ 0 \in Nat /\ 0 + k <= Len(s)
    <3>1. n \in Nat /\ l \in Nat /\ n \in 0..l /\ Len(s) = n /\ Len(t) = l /\ k \in 0..n
      BY <1>2, <1>3, <1>4
    <3> HIDE DEF n, l
    <3> QED BY <3>1
  <2>3. Between(w1, x, y, u, t)
    BY <1>1, <1>3, <2>1, <2>2, BetweenOverwriteFirst
  <2> HIDE DEF w1, u
  <2>4. Between(Overwritten(w1, y, 0, s, k), x, y, u, Patched(t, 0, SubSeq(s, 1, k)))
    BY <1>1, <1>2, <2>2, <2>3, BetweenOverwriteSecond
  <2> QED BY <2>4 DEF w1, u
<1>8. Between(c, x, y, a, z)
  <2>1. n \in 0..n
    BY <1>2
  <2>2. SubSeq(s, 1, n) = s
    BY <1>2, WholeSequence
  <2>3. Patched(s, 0, a) = a
    BY <1>2, <1>6, PatchedAll
  <2> HIDE DEF Swapped, n
  <2>4. Between(Swapped(n), x, y, Upper(n), Lower(n))
    BY <1>7, <2>1
  <2> QED BY <2>2, <2>3, <2>4
<1>9. ASSUME NEW k \in 0..n - 1, Ends(Swapped(k), "basic swap"), UNCHANGED failed
       PROVE  Goes
  <2> DEFINE p == Swapped(k)
             u == Upper(k)
             v == Lower(k)
  <2>1. k \in 0..n
    BY <1>2
  <2>2. Between(p, x, y, u, v)
    BY <1>7, <2>1
  <2>3. Ends(p, "basic swap") /\ Sound'
    BY <1>9 DEF BufferInv, Sound
  <2> HIDE DEF p, u, v
  <2>4. Reached([Held EXCEPT ![x] = u, ![y] = v]) /\ outcome' = "basic swap"
    BY <1>1, <2>2, <2>3, BetweenFacts
  <2> QED BY <2>3, <2>4, GoesSwapBasic
<1>10. ASSUME NEW k \in 0..n - 1, Ends(HalfSwapped(k), "basic swap"), UNCHANGED failed
       PROVE  Goes
  <2> DEFINE q == <<t[k + 1]>>
             g == Swapped(k)
             p == Overwritten(g, x, k, q, 1)
             u == Upper(k)
             v == Lower(k)
             h == Patched(u, k, SubSeq(q, 1, 1))
  <2>1. /\ k \in 0..n /\ k \in Nat /\ k + 1 \in 1..Len(t) /\ k + 1 <= Len(s) /\ k \in 0..Len(t)
        /\ 0 \in Nat /\ 0 + k <= Len(s)
    <3>1. n \in Nat /\ l \in Nat /\ n \in 0..l /\ Len(s) = n /\ Len(t) = l /\ k \in 0..n - 1
      BY <1>2, <1>3, <1>4, <1>10
    <3> HIDE DEF n, l
    <3> QED BY <3>1
  <2>2. Between(g, x, y, u, v)
    BY <1>7, <2>1
  <2>3. q \in Seq(Values) /\ Len(q) = 1 /\ 1 \in 0..Len(q)
    <3>1. t[k + 1] \in Values
      BY <1>3, <2>1
    <3> QED BY <3>1
  <2>4. Len(u) = Len(s)
    <3> DEFINE e == SubSeq(t, 1, k)
    <3>1. e \in Seq(Values) /\ Len(e) = k
      BY <1>3, <2>1, FirstElements
    <3>2. s \in Seq(Values)
      BY <1>2
    <3> HIDE DEF e, n
    <3>3. 0 \in Nat /\ 0 + Len(e) <= Len(s)
      BY <2>1, <3>1
    <3>4. Len(Patched(s, 0, e)) = Len(s)
      BY <3>1, <3>2, <3>3, PatchedType
    <3> QED BY <3>4 DEF e
  <2>5. k + 1 <= Len(u)
    BY <2>1, <2>4
  <2>6. Ends(p, "basic swap") /\ Sound'
    BY <1>10 DEF BufferInv, Sound
  <2> HIDE DEF g, q, u, v
  <2>7. Between(p, x, y, h, v)
    BY <1>1, <2>1, <2>2, <2>3, <2>5, BetweenOverwriteFirst
  <2> HIDE DEF p, h
  <2>8. Reached([Held EXCEPT ![x] = h, ![y] = v]) /\ outcome' = "basic swap"
    BY <1>1, <2>6, <2>7, BetweenFacts
  <2> QED BY <2>6, <2>8, GoesSwapBasic
<1>11. z \in Seq(Values) /\ Len(z) = l /\ SubSeq(z, 1, n) = s
  <2>1. 0 \in Nat /\ 0 + Len(s) <= Len(t)
    BY <1>2, <1>3, <1>4
  <2>2. z \in Seq(Values) /\ Len(z) = Len(t)
    BY <1>2, <1>3, <2>1, PatchedType
  <2>3. SubSeq(Patched(t, 0, s), 1, 0 + Len(s)) = SubSeq(t, 1, 0) \o s
    BY <1>2, <1>3, <2>1, PatchedFront
  <2>4. SubSeq(t, 1, 0) = << >> /\ << >> \o s = s
    BY <1>2, <1>3, EmptyFirst
  <2>5. 0 + Len(s) = n
    BY <1>2
  <2> QED BY <2>2, <2>3, <2>4, <2>5
<1> HIDE DEF z
<1>12. \A k \in 0..l - n : Between(Pushed(k), x, y, a \o SubSeq(rest, 1, k), z)
  <2> TAKE k \in 0..l - n
  <2> DEFINE q == SubSeq(rest, 1, k)
  <2>1. k \in 0..Len(rest)
    BY <1>6
  <2>2. q \in Seq(Values) /\ Len(q) = k
    BY <1>6, <2>1, FirstElements
  <2>3. Len(a) + Len(q) <= buf[x].cap
    <3>1. Len(a) = n /\ Len(q) = k
      BY <1>6, <2>2
    <3> HIDE DEF a, q, n, l
    <3> QED BY <1>2, <1>3, <1>4, <3>1
  <2> HIDE DEF a, q
  <2>4. Between(unchecked_push_back(c, x, q), x, y, a \o q, z)
    BY <1>1, <1>8, <2>2, <2>3, BetweenPush
  <2> QED BY <2>4 DEF q
<1>13. Between(Pushed(l - n), x, y, t, z)
  <2>1. l - n \in 0..l - n
    BY <1>2, <1>3, <1>4
  <2>2. SubSeq(rest, 1, l - n) = rest
    BY <1>6, WholeSequence
  <2> HIDE DEF Pushed, n, l
  <2>3. Between(Pushed(l - n), x, y, a \o SubSeq(rest, 1, l - n), z)
    BY <1>12, <2>1
  <2> QED BY <1>6, <2>2, <2>3
<1> HIDE DEF Pushed, a
<1>14. Between(w, x, y, t, s)
  <2> DEFINE p == Pushed(l - n)
             e == l - n
  <2>1. e \in 0..Len(z) /\ Len(z) - e = n
    <3>1. n \in Nat /\ l \in Nat /\ n \in 0..l /\ Len(z) = l
      BY <1>2, <1>3, <1>4, <1>11
    <3> HIDE DEF n, l, p, w
    <3> QED BY <3>1
  <2>2. Between(p, x, y, t, z)
    BY <1>13
  <2>3. w = pop_back_n(p, y, e)
    BY <1>6
  <2> HIDE DEF p, e, w
  <2>4. Between(pop_back_n(p, y, e), x, y, t, SubSeq(z, 1, Len(z) - e))
    BY <1>1, <2>1, <2>2, BetweenPopSecond
  <2> QED BY <1>11, <2>1, <2>3, <2>4
<1> HIDE DEF w
<1>15. CASE Ends(w, "done") /\ BothValid(w, x, y)
  <2>1. /\ is_valid(w.buf[x], x) /\ is_valid(w.buf[y], y)
        /\ Reached([Held EXCEPT ![x] = t, ![y] = s]) /\ outcome' = "done"
    BY <1>1, <1>14, <1>15, BetweenFacts
  <2>2. Sound'
    BY <1>15, <2>1, AssertedHolds DEF BothValid
  <2>3. Reached([Held EXCEPT ![x] = Held[y], ![y] = Held[x]])
    BY <1>2, <1>3, <2>1
  <2> QED BY <1>2, <1>3, <2>1, <2>2, <2>3, GoesSwap
<1>16. CASE \E k \in 0..Len(rest) - 1 : Ends(Pushed(k), "basic swap") /\ UNCHANGED failed
  <2>1. PICK k \in 0..Len(rest) - 1 : Ends(Pushed(k), "basic swap") /\ UNCHANGED failed
    BY <1>16
  <2>2. k \in 0..l - n
    BY <1>6
  <2> DEFINE u == a \o SubSeq(rest, 1, k)
             p == Pushed(k)
  <2>3. Between(p, x, y, u, z)
    BY <1>12, <2>2
  <2>4. Ends(p, "basic swap")
    BY <2>1
  <2> HIDE DEF u, p
  <2>5. Reached([Held EXCEPT ![x] = u, ![y] = z]) /\ outcome' = "basic swap"
    BY <1>1, <2>3, <2>4, BetweenFacts
  <2>6. Sound'
    BY <2>1 DEF BufferInv, Sound
  <2> QED BY <2>5, <2>6, GoesSwapBasic
<1> QED BY <1>5, <1>15, <1>16, <1>9, <1>10 DEF w, Pushed, c, Swapped, HalfSwapped

-----------------------------------------------------------------------------
(* Every step. *)

LEMMA InputsAre ==
  /\ Sizes \subseteq Nat /\ Capacities \subseteq Nat
  /\ \A s \in Ranges : s \in Seq(Values) /\ s # << >>
  /\ <<Default>> \in Seq(Values) /\ <<Default>> # << >>
  /\ << >> \in Seq(Values)
<1>1. Sizes \subseteq Nat /\ Capacities \subseteq Nat
  BY BufferAssumption DEF Sizes, Capacities
<1>2. ASSUME NEW s \in Ranges PROVE s \in Seq(Values) /\ s # << >>
  <2>1. PICK n \in 1..2 : s \in [1..n -> Elems]
    BY <1>2 DEF Ranges
  <2>2. s \in [1..n -> Values]
    BY <2>1 DEF Values
  <2>3. s \in Seq(Values) /\ Len(s) = n
    BY <2>1, <2>2
  <2> QED BY <2>1, <2>3
<1>3. Default \in Values
  BY DEF Values
<1>4. <<Default>> \in Seq(Values) /\ Len(<<Default>>) = 1
  BY <1>3
<1> QED BY <1>1, <1>2, <1>4

LEMMA NextGoes ==
  ASSUME BufferInv, Next, "copy_throws" \notin Calls, "assign_throws" \notin Calls
  PROVE  Goes
<1>1. CASE \E x \in Buffers, n \in Sizes :
              Construct(x, n, << >>) \/ Pop(x, n) \/ reserve_precisely(x, n)
  <2>1. PICK x \in Buffers, n \in Sizes :
              Construct(x, n, << >>) \/ Pop(x, n) \/ reserve_precisely(x, n)
    BY <1>1
  <2>2. n \in Nat /\ << >> \in Seq(Values)
    BY InputsAre
  <2>3. CASE Construct(x, n, << >>)
    BY <2>2, <2>3, ConstructGoes
  <2>4. CASE Pop(x, n)
    BY <2>2, <2>4, PopGoes
  <2>5. CASE reserve_precisely(x, n)
    BY <2>2, <2>5, ReservePreciselyGoes
  <2> QED BY <2>1, <2>3, <2>4, <2>5
<1>6. CASE \E x \in Buffers, n \in Capacities : reserve(x, n)
  BY <1>6, InputsAre, ReserveGoes
<1>2. CASE \E x \in Buffers : Destroy(x) \/ shrink_to_fit(x) \/ push_back(x, <<Default>>)
  <2>1. PICK x \in Buffers : Destroy(x) \/ shrink_to_fit(x) \/ push_back(x, <<Default>>)
    BY <1>2
  <2>2. CASE Destroy(x)
    BY <2>2, DestroyGoes
  <2>3. CASE shrink_to_fit(x)
    BY <2>3, ShrinkGoes
  <2>4. CASE push_back(x, <<Default>>)
    <3> DEFINE s == <<Default>>
    <3>1. s \in Seq(Values) /\ s # << >> /\ push_back(x, s)
      BY <2>4, InputsAre
    <3> HIDE DEF s
    <3> QED BY <3>1, PushBackGoes
  <2> QED BY <2>1, <2>2, <2>3, <2>4
<1>3. CASE \E x \in Buffers, s \in Ranges :
              \/ Construct(x, 0, s) \/ push_back(x, s) \/ InsertAtEnd(x, s)
              \/ \E i \in Sizes : InsertInPlace(x, i, s) \/ InsertGrowing(x, i, s)
  <2>1. PICK x \in Buffers, s \in Ranges :
              \/ Construct(x, 0, s) \/ push_back(x, s) \/ InsertAtEnd(x, s)
              \/ \E i \in Sizes : InsertInPlace(x, i, s) \/ InsertGrowing(x, i, s)
    BY <1>3
  <2>2. s \in Seq(Values) /\ s # << >> /\ 0 \in Nat
    BY InputsAre
  <2>3. CASE Construct(x, 0, s)
    BY <2>2, <2>3, ConstructGoes
  <2>4. CASE push_back(x, s)
    BY <2>2, <2>4, PushBackGoes
  <2>5. CASE InsertAtEnd(x, s)
    BY <2>2, <2>5, InsertAtEndGoes
  <2>6. ASSUME NEW i \in Sizes, InsertInPlace(x, i, s) PROVE Goes
    <3>1. i \in Nat
      BY InputsAre
    <3> QED BY <2>2, <2>6, <3>1, InsertInPlaceGoes
  <2>7. ASSUME NEW i \in Sizes, InsertGrowing(x, i, s) PROVE Goes
    <3>1. i \in Nat
      BY InputsAre
    <3> QED BY <2>2, <2>7, <3>1, InsertGrowingGoes
  <2> QED BY <2>1, <2>3, <2>4, <2>5, <2>6, <2>7
<1>4. CASE \E x \in Buffers, i, j \in Sizes : Erase(x, i, j)
  <2>1. PICK x \in Buffers, i \in Sizes, j \in Sizes : Erase(x, i, j)
    BY <1>4
  <2>2. i \in Nat /\ j \in Nat
    BY InputsAre
  <2> QED BY <2>1, <2>2, EraseGoes
<1>5. CASE \E x, y \in Buffers :
              \/ There(y) /\ Construct(x, 0, Contents(World, y))
              \/ AssignWithin(x, y) \/ AssignGrowing(x, y)
              \/ SwapHeap(x, y) \/ SwapOne(x, y) \/ SwapStack(x, y)
  <2>1. PICK x \in Buffers, y \in Buffers :
              \/ There(y) /\ Construct(x, 0, Contents(World, y))
              \/ AssignWithin(x, y) \/ AssignGrowing(x, y)
              \/ SwapHeap(x, y) \/ SwapOne(x, y) \/ SwapStack(x, y)
    BY <1>5
  <2>2. CASE There(y) /\ Construct(x, 0, Contents(World, y))
    <3> DEFINE s == Contents(World, y)
    <3>1. s \in Seq(Values) /\ 0 \in Nat
      BY <2>2, ThereFacts
    <3>2. Construct(x, 0, s)
      BY <2>2
    <3> HIDE DEF s
    <3> QED BY <3>1, <3>2, ConstructGoes
  <2>3. CASE AssignWithin(x, y)
    BY <2>3, AssignWithinGoes
  <2>4. CASE AssignGrowing(x, y)
    BY <2>4, AssignGrowingGoes
  <2>5. CASE SwapHeap(x, y)
    BY <2>5, SwapHeapGoes
  <2>6. CASE SwapOne(x, y)
    BY <2>6, SwapOneGoes
  <2>7. CASE SwapStack(x, y)
    BY <2>7, SwapStackGoes
  <2> QED BY <2>1, <2>2, <2>3, <2>4, <2>5, <2>6, <2>7
<1> HIDE DEF Goes
<1> QED BY <1>1, <1>2, <1>3, <1>4, <1>5, <1>6 DEF Next

LEMMA InitInv == Init => BufferInv /\ Sequence!Init
<1> SUFFICES ASSUME Init PROVE BufferInv /\ Sequence!Init
  OBVIOUS
<1> DEFINE Z == [x \in Buffers |-> << >>]
<1>1. buf = [x \in Buffers |-> None] /\ mem = [x \in Buffers |-> RawCells(N)]
      /\ Sound /\ outcome = "done"
  BY DEF Init, Sound
<1>2. InUse(buf) = {}
  BY <1>1 DEF InUse
<1>3. Holding(buf, Z)
  BY <1>1, <1>2 DEF Holding
<1>4. Stored(mem, buf, Z)
  <2>1. RawCells(N) = Cells(N, << >>)
    BY BufferAssumption, RawCellsAre
  <2> QED BY <1>1, <1>2, <2>1 DEF Stored
<1>5. Z = HeldIn(mem, buf)
  BY <1>3, <1>4, HeldIs DEF State
<1>6. BufferInv
  BY <1>1, <1>3, <1>4, <1>5, ViewedIn DEF BufferInv, State
<1>7. viewed = [x \in Buffers |-> None]
  BY <1>1 DEF viewed, There
<1> QED BY <1>1, <1>6, <1>7 DEF Sequence!Init

LEMMA StepInv ==
  ASSUME BufferInv, [Next]_vars, "copy_throws" \notin Calls, "assign_throws" \notin Calls
  PROVE  BufferInv' /\ [Sequence!Next]_Sequence!vars
<1>1. CASE Next
  BY <1>1, NextGoes DEF Goes
<1>2. CASE UNCHANGED vars
  <2>1. mem' = mem /\ buf' = buf /\ failed' = failed /\ outcome' = outcome
    BY <1>2 DEF vars
  <2>2. Held' = Held /\ viewed' = viewed
    BY <2>1, ViewedIn
  <2>3. BufferInv'
    <3>1. State(mem', buf', Held')
      BY <2>1, <2>2 DEF BufferInv
    <3> QED BY <2>1, <3>1 DEF BufferInv, Sound
  <2> QED BY <2>1, <2>2, <2>3 DEF Sequence!vars
<1> QED BY <1>1, <1>2

LEMMA SpecInv ==
  ASSUME "copy_throws" \notin Calls, "assign_throws" \notin Calls
  PROVE  Spec => []BufferInv
<1>1. Init => BufferInv
  BY InitInv
<1>2. BufferInv /\ [Next]_vars => BufferInv'
  BY StepInv
<1> QED BY <1>1, <1>2, PTL DEF Spec

(* The assertions of auto_buffer.hpp hold: is_valid() after every operation, *)
(* the capacity that a buffer is to have when it has grown or shrunk, and    *)
(* that it is not full when elements were erased.  That erase(pos, pos) of a *)
(* full buffer fails the last one is why no program may call it here.        *)
THEOREM NoAssertionFails ==
  ASSUME "copy_throws" \notin Calls, "assign_throws" \notin Calls, "erase_nothing" \notin Calls
  PROVE  Spec => []AssertionsHold
<1>1. BufferInv => AssertionsHold
  BY DEF BufferInv, Sound, AssertionsHold
<1> QED BY <1>1, SpecInv, PTL

(* AutoBuffer implements BufferContents: for any number of buffers, any N    *)
(* and any sizes, each operation is a step of the promise or a stutter, also *)
(* where it throws, and nothing of where the elements are can be seen.  A    *)
(* copy constructor that throws for an element gives the strong guarantee,   *)
(* but its memory is lost; an assignment that cannot grow breaks the basic   *)
(* guarantee that it claims, so that it is not a step of the promise.        *)
THEOREM BuffersAreSequences ==
  ASSUME "copy_throws" \notin Calls, "assign_throws" \notin Calls
  PROVE  Spec => ImplementsContents
<1>1. Init => Sequence!Init
  BY InitInv
<1>2. BufferInv /\ [Next]_vars => [Sequence!Next]_Sequence!vars
  BY StepInv
<1> QED BY <1>1, <1>2, SpecInv, PTL DEF Spec, ImplementsContents, Sequence!Spec

LEMMA CellsCount ==
  ASSUME NEW c \in Nat, NEW s
  PROVE  Cardinality(DOMAIN Cells(c, s)) = c
<1>1. DOMAIN Cells(c, s) = 0..c - 1
  BY CellsElements
<1>2. Cardinality(0..c - 1) = c
  BY FS_Interval
<1> QED BY <1>1, <1>2

LEMMA InvCells == BufferInv => CellsExact
<1> SUFFICES ASSUME BufferInv PROVE CellsExact
  OBVIOUS
<1>1. State(mem, buf, Held)
  BY DEF BufferInv
<1> HIDE DEF Held
<1>2. \A x \in Buffers : (x \in InUse(buf)) = (There(x) /\ buf[x].at # None)
  <2>1. \A x \in InUse(buf) : buf[x].at # None
    BY <1>1, InUseFacts, FitsFacts
  <2> QED BY <2>1 DEF InUse, There
<1>3. DOMAIN mem = Buffers \cup {buf[x].at : x \in InUse(buf)}
  BY <1>1 DEF State, Stored
<1>4. ASSUME NEW x \in Buffers, NEW y \in Buffers,
             There(x), There(y), buf[x].at = buf[y].at, buf[x].at # None
      PROVE  x = y
  BY <1>1, <1>2, <1>4 DEF State, Holding
<1>5. ASSUME NEW b \in DOMAIN mem \ Buffers
      PROVE  \E x \in Buffers : There(x) /\ buf[x].at = b /\ buf[x].cap = Cardinality(DOMAIN mem[b])
  <2>1. PICK x \in InUse(buf) : buf[x].at = b
    BY <1>3
  <2>2. x \in Buffers /\ There(x) /\ mem[b] = Cells(buf[x].cap, Held[x]) /\ buf[x].cap \in Nat
    BY <1>1, <2>1, InUseFacts, FitsFacts DEF There
  <2> QED BY <2>1, <2>2, CellsCount
<1>6. ASSUME NEW b \in DOMAIN mem, NEW k \in DOMAIN mem[b]
      PROVE  IF \E x \in Buffers : There(x) /\ buf[x].at = b /\ k < buf[x].size
             THEN Good(mem[b][k]) ELSE mem[b][k] = Raw
  <2>1. CASE \E x \in InUse(buf) : buf[x].at = b
    <3>1. PICK x \in InUse(buf) : buf[x].at = b
      BY <2>1
    <3>2. /\ x \in Buffers /\ There(x) /\ mem[b] = Cells(buf[x].cap, Held[x])
          /\ buf[x].cap \in Nat /\ buf[x].size = Len(Held[x]) /\ Held[x] \in Seq(Values)
      BY <1>1, <3>1, InUseFacts, FitsFacts DEF There
    <3>3. k \in 0..buf[x].cap - 1
      BY <3>2, CellsElements
    <3>4. mem[b][k] = IF k < buf[x].size THEN Held[x][k + 1] ELSE Raw
      BY <3>2, <3>3, CellsElements
    <3>5. CASE k < buf[x].size
      <4>1. k + 1 \in 1..Len(Held[x])
        BY <3>2, <3>3, <3>5
      <4>2. Held[x][k + 1] \in Values
        BY <3>2, <4>1
      <4>3. Good(mem[b][k])
        BY <3>4, <3>5, <4>2, ValuesGood
      <4> QED BY <3>1, <3>2, <3>5, <4>3
    <3>6. CASE ~(k < buf[x].size)
      <4>1. \A y \in Buffers : There(y) /\ buf[y].at = b => y = x
        <5>1. b # None
          BY <1>2, <3>1, <3>2
        <5> QED BY <1>4, <3>1, <3>2, <5>1
      <4> QED BY <3>4, <3>6, <4>1
    <3> QED BY <3>5, <3>6
  <2>2. CASE ~\E x \in InUse(buf) : buf[x].at = b
    <3>1. b \in Buffers /\ mem[b] = Cells(N, << >>)
      BY <1>1, <1>3, <2>2 DEF State, Stored
    <3>2. b # None
      BY <3>1, Apart
    <3>3. mem[b][k] = Raw
      <4>1. k \in 0..N - 1 /\ Len(<< >>) = 0
        BY <3>1, CellsElements
      <4>2. ~(k < Len(<< >>))
        BY <4>1, Apart
      <4> QED BY <3>1, <4>1, <4>2, CellsElements
    <3>4. ~\E x \in Buffers : There(x) /\ buf[x].at = b
      BY <1>2, <2>2, <3>2
    <3> QED BY <3>3, <3>4
  <2> QED BY <2>1, <2>2
<1> QED BY <1>4, <1>5, <1>6 DEF CellsExact

(* Every cell holds an object exactly when it is an element of a buffer: no  *)
(* constructor runs over an object, no destructor or assignment on a raw     *)
(* cell, and nothing leaks.  A copy constructor that throws during           *)
(* construction leaves memory behind, and an assignment that cannot grow a   *)
(* buffer that claims elements it has not, hence the hypotheses.             *)
THEOREM EachObjectOnce ==
  ASSUME "copy_throws" \notin Calls, "assign_throws" \notin Calls
  PROVE  Spec => []CellsExact
BY InvCells, SpecInv, PTL
=============================================================================
