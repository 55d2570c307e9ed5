----------------------------- MODULE AutoBuffer -----------------------------
(* detail/auto_buffer.hpp: a vector that keeps its first N elements within   *)
(* itself, down to the cells of memory that are constructed or raw.  The     *)
(* element type is one whose constructors, destructor and assignment are not *)
(* trivial and may throw, as those that the library puts in auto_buffers.    *)
EXTENDS Integers, Sequences, FiniteSets, FiniteSetsExt

CONSTANTS
    Buffers,        \* auto_buffer objects
    N,              \* how many elements fit within the object
    Elems,          \* values of elements
    Default,        \* the value of a default constructed element
    MaxSize,        \* bound: elements of a buffer
    Blocks,         \* memory blocks of the heap
    Raw, Bad,       \* a cell that holds no object; one that was misused
    None,           \* no buffer, or a null pointer
    Calls           \* of the cases that are told apart, those that happen

ASSUME BufferAssumption ==
    /\ N \in Nat /\ MaxSize \in Nat
    /\ {Raw, Bad, None} \cap (Elems \cup {Default}) = {}
    /\ Blocks \cap Buffers = {} /\ None \notin Blocks \cup Buffers
    /\ None \notin [at : Blocks \cup Buffers \cup {None}, cap : Nat, size : Nat]
    /\ None \notin Seq(Elems \cup {Default})

(* When each buffer has a block, there is still one for a buffer to grow     *)
(* into; that there is no memory is not the lack of a block but an exception.*)
ASSUME HeapAssumption ==
    Blocks # {} /\ \A at \in [Buffers -> Blocks] : Blocks # {at[x] : x \in Buffers}

VARIABLES
    mem,        \* the cells of each allocated block and of each buffer itself
    buf,        \* buffer_, capacity_ and size_ of each buffer, None if gone
    failed,     \* a BOOST_ASSERT did not hold
    outcome     \* how the last operation ended: done, after it has moved
                \* elements up ("shifted") or not, or the guarantee that the
                \* comments of the code give for an operation that throws

vars == <<mem, buf, failed, outcome>>

RawCells(n) == [i \in 0..n - 1 |-> Raw]

Init ==
    /\ mem = [x \in Buffers |-> RawCells(N)]
    /\ buf = [x \in Buffers |-> None]
    /\ failed = FALSE
    /\ outcome = "done"

-----------------------------------------------------------------------------
(* Memory. *)

Good(e) == e \notin {Raw, Bad}
Read(m, b, from, n) == [k \in 1..n |-> m[b][from + k - 1]]

(* Copy constructs the elements of s from cell "from" of block b on. *)
Built(m, b, from, s) ==
    [m EXCEPT ![b] = [k \in DOMAIN m[b] |->
        IF k < from \/ k >= from + Len(s) THEN m[b][k]
        ELSE IF m[b][k] = Raw /\ Good(s[k - from + 1]) THEN s[k - from + 1]
        ELSE Bad]]

Assigned(m, b, from, s) ==
    [m EXCEPT ![b] = [k \in DOMAIN m[b] |->
        IF k < from \/ k >= from + Len(s) THEN m[b][k]
        ELSE IF Good(m[b][k]) /\ Good(s[k - from + 1]) THEN s[k - from + 1]
        ELSE Bad]]

Destroyed(m, b, from, n) ==
    [m EXCEPT ![b] = [k \in DOMAIN m[b] |->
        IF k < from \/ k >= from + n THEN m[b][k]
        ELSE IF Good(m[b][k]) THEN Raw ELSE Bad]]

(* Where allocate(c) of buffer x finds memory, and the memory then.          *)
Place(m, x, c) == IF c > N THEN CHOOSE b \in Blocks : b \notin DOMAIN m ELSE x
allocate(m, x, c) ==
    IF c <= N THEN m
    ELSE [b \in DOMAIN m \cup {Place(m, x, c)} |-> IF b \in DOMAIN m THEN m[b] ELSE RawCells(c)]

(* A block that still holds objects stays allocated: they have leaked.       *)
deallocate(m, b, c) ==
    IF c <= N \/ \E k \in DOMAIN m[b] : m[b][k] # Raw THEN m
    ELSE [d \in DOMAIN m \ {b} |-> m[d]]

auto_buffer_destroy(m, r) ==
    IF r.at = None THEN m
    ELSE deallocate(Destroyed(m, r.at, 0, r.size), r.at, r.cap)

-----------------------------------------------------------------------------
(* Buffers.  A world is the memory and the buffers; the operations of the    *)
(* code are made of changes of the world.                                    *)

World == [mem |-> mem, buf |-> buf]
Contents(w, x) == Read(w.mem, w.buf[x].at, 0, w.buf[x].size)
Part(s, i, j) == SubSeq(s, i + 1, j)        \* elements i up to j, from 0

is_on_stack(r) == r.cap <= N
full(r) == r.size = r.cap

is_valid(r, x) ==
    r.at # None =>
        /\ r.cap >= N
        /\ ~is_on_stack(r) => r.cap > N
        /\ r.at = x => r.cap <= N
        /\ r.size <= r.cap

unchecked_push_back(w, x, s) ==
    LET r == w.buf[x]
    IN  [mem |-> Built(w.mem, r.at, r.size, s),
         buf |-> [w.buf EXCEPT ![x].size = @ + Len(s)]]

pop_back_n(w, x, n) ==
    LET r == w.buf[x]
    IN  [mem |-> Destroyed(w.mem, r.at, r.size - n, n),
         buf |-> [w.buf EXCEPT ![x].size = @ - n]]

(* Mutant: the elements left behind in the old memory are not destroyed. *)
reserve_impl_moving(w, x, c) ==
    LET new == Place(w.mem, x, c)
        copied == Built(allocate(w.mem, x, c), new, 0, Contents(w, x))
    IN  [mem |-> deallocate(copied, w.buf[x].at, w.buf[x].cap),
         buf |-> [w.buf EXCEPT ![x] = [at |-> new, cap |-> c, size |-> w.buf[x].size]]]

reserve_impl(w, x, c) ==
    LET new == Place(w.mem, x, c)
        copied == Built(allocate(w.mem, x, c), new, 0, Contents(w, x))
    IN  [mem |-> auto_buffer_destroy(copied, w.buf[x]),
         buf |-> [w.buf EXCEPT ![x] = [at |-> new, cap |-> c, size |-> w.buf[x].size]]]

new_capacity_impl(r, n) == Max({r.cap * 4, n})

(* An operation ends: done, or with an exception of which the code's comment *)
(* gives a guarantee.                                                        *)
Ends(w, how) ==
    /\ mem' = w.mem /\ buf' = w.buf
    /\ outcome' = how

Asserted(c) == failed' = (failed \/ ~c)
IsValid(w, x) == Asserted(is_valid(w.buf[x], x))

There(x) == buf[x] # None
Throws(guarantee) == Ends(World, guarantee) /\ UNCHANGED failed

-----------------------------------------------------------------------------
(* The operations. *)

(* Construction with a capacity, from a range or a value, or as a copy.  If  *)
(* it throws there is no buffer; if elements are what cannot be copied       *)
(* ("copy_throws"), the memory that was allocated for them is lost.          *)
Construct(x, c, s) ==
    /\ ~There(x)
    /\ LET cap == Max({c, Len(s), N})
           got == [at |-> Place(mem, x, cap), cap |-> cap, size |-> 0]
           made == [mem |-> allocate(mem, x, cap), buf |-> [buf EXCEPT ![x] = got]]
           w == unchecked_push_back(made, x, s)
       IN  \/ Ends(w, "done") /\ IsValid(w, x)
           \/ cap > N /\ Throws("strong")
           \/ /\ "copy_throws" \in Calls /\ s # << >>
              /\ mem' = made.mem /\ UNCHANGED <<buf, failed>>
              /\ outcome' = "strong"

Destroy(x) ==
    /\ There(x)
    /\ mem' = auto_buffer_destroy(mem, buf[x])
    /\ buf' = [buf EXCEPT ![x] = None]
    /\ outcome' = "done" /\ UNCHANGED failed

reserve(x, n) ==
    /\ There(x) /\ n > buf[x].cap
    /\ \/ LET w == reserve_impl(World, x, new_capacity_impl(buf[x], n))
          IN  Ends(w, "done") /\ Asserted(w.buf[x].cap >= n)
       \/ Throws("strong")

(* reserve_precisely(n). *)
reserve_precisely(x, n) ==
    /\ There(x) /\ n > buf[x].cap
    /\ \/ LET w == reserve_impl(World, x, n)
          IN  Ends(w, "done") /\ Asserted(w.buf[x].cap = n)
       \/ Throws("strong")

shrink_to_fit(x) ==
    /\ There(x) /\ ~is_on_stack(buf[x])
    /\ \/ LET v == reserve_impl(World, x, buf[x].size)
              w == [v EXCEPT !.buf[x].cap = Max({N, @})]
          IN  /\ Ends(w, "done")
              /\ Asserted(IF is_on_stack(w.buf[x]) THEN w.buf[x].size <= w.buf[x].cap
                          ELSE w.buf[x].size = w.buf[x].cap)
       \/ Throws("strong")

(* push_back of an element, of a default constructed one, or of a range.  An *)
(* element that cannot be copied leaves the greater capacity.                *)
push_back(x, s) ==
    /\ There(x) /\ buf[x].size + Len(s) <= MaxSize
    /\ LET n == buf[x].size + Len(s)
           v == IF n > buf[x].cap
                THEN reserve_impl(World, x, new_capacity_impl(buf[x], n)) ELSE World
           w == unchecked_push_back(v, x, s)
       IN  \/ Ends(w, "done") /\ IsValid(w, x)
           \/ Ends(v, "strong") /\ UNCHANGED failed
           \/ Throws("strong")

-----------------------------------------------------------------------------
(* insert: s comes before element i. *)

(* std::copy of the elements from i on to n cells further, after its first k *)
(* assignments: it goes forwards, so that it may copy what it has written.   *)
MovedUp(w, x, i, n, k) ==
    LET old == Contents(w, x)
    IN  [w EXCEPT !.mem = Assigned(@, w.buf[x].at, i + n,
                                   [j \in 1..k |-> old[i + 1 + ((j - 1) % n)]])]

Overwritten(w, x, i, s, k) ==
    [w EXCEPT !.mem = Assigned(@, w.buf[x].at, i, SubSeq(s, 1, k))]

Defaults(n) == [k \in 1..n |-> Default]

InsertInPlace(x, i, s) ==
    /\ There(x) /\ i <= buf[x].size
    /\ buf[x].size + Len(s) <= Min({buf[x].cap, MaxSize})
    /\ LET rest == buf[x].size - i
           Grown(k) == unchecked_push_back(World, x, Defaults(k))
           Moved(k) == MovedUp(Grown(Len(s)), x, i, Len(s), k)
           Written(k) == Overwritten(Moved(rest), x, i, s, k)
       IN  \/ /\ Ends(Written(Len(s)), IF rest = 0 THEN "done" ELSE "shifted")
              /\ IsValid(Written(Len(s)), x)
           \/ \E k \in 0..Len(s) - 1 :
                 (Ends(Grown(k), "basic") \/ Ends(Written(k), "basic")) /\ UNCHANGED failed
           \/ \E k \in 0..rest - 1 : Ends(Moved(k), "basic") /\ UNCHANGED failed

InsertAtEnd(x, s) ==
    /\ There(x) /\ buf[x].size + Len(s) <= Min({buf[x].cap, MaxSize})
    /\ \/ LET w == unchecked_push_back(World, x, s) IN Ends(w, "done") /\ IsValid(w, x)
       \/ Throws("basic")

(* The elements are put together in a new buffer, which one_sided_swap makes *)
(* this one: temp has no memory when it is destroyed.                        *)
InsertGrowing(x, i, s) ==
    /\ There(x) /\ i <= buf[x].size
    /\ buf[x].size + Len(s) > buf[x].cap
    /\ buf[x].size + Len(s) <= MaxSize
    /\ LET n == buf[x].size + Len(s)
           cap == new_capacity_impl(buf[x], n)
           new == Place(mem, x, cap)
           old == Contents(World, x)
           temp == Built(allocate(mem, x, cap), new, 0,
                         Part(old, 0, i) \o s \o Part(old, i, Len(old)))
           w == [mem |-> auto_buffer_destroy(temp, buf[x]),
                 buf |-> [buf EXCEPT ![x] = [at |-> new, cap |-> cap, size |-> n]]]
       IN  \/ Ends(w, "done") /\ Asserted(is_valid(w.buf[x], x) /\ n >= buf[x].size + 1)
           \/ Throws("basic")

-----------------------------------------------------------------------------
(* pop_back, pop_back_n and clear. *)
Pop(x, n) ==
    /\ There(x) /\ n <= buf[x].size
    /\ Ends(pop_back_n(World, x, n), "done")
    /\ UNCHANGED failed

(* Mutant: the elements that move down are those after the first erased one. *)
EraseFromNext(x, i, j) ==
    /\ There(x) /\ i < j /\ j <= buf[x].size
    /\ LET s == Part(Contents(World, x), i + 1, i + 1 + buf[x].size - j)
           w == pop_back_n(Overwritten(World, x, i, s, Len(s)), x, j - i)
       IN  Ends(w, "done") /\ Asserted(~full(w.buf[x]))

(* Mutant: the elements are moved, but the last ones stay. *)
EraseKeeping(x, i, j) ==
    /\ There(x) /\ i < j /\ j <= buf[x].size
    /\ LET Moved(k) == Overwritten(World, x, i,
                                   Part(Contents(World, x), j, buf[x].size), k)
       IN  Ends(Moved(buf[x].size - j), "done") /\ Asserted(~full(buf[x]))

(* erase of the elements from i up to j: those after move down, and the last *)
(* are destroyed.                                                            *)
Erase(x, i, j) ==
    /\ There(x) /\ i <= j /\ j <= buf[x].size
    /\ i = j => "erase_nothing" \in Calls
    /\ LET rest == buf[x].size - j
           Moved(k) == Overwritten(World, x, i,
                                   Part(Contents(World, x), j, buf[x].size), k)
           w == pop_back_n(Moved(rest), x, j - i)
       IN  \/ Ends(w, "done") /\ Asserted(~full(w.buf[x]))
           \/ \E k \in 0..rest - 1 : Ends(Moved(k), "basic") /\ UNCHANGED failed

-----------------------------------------------------------------------------
(* x = y. *)
AssignWithin(x, y) ==
    /\ There(x) /\ There(y) /\ x # y
    /\ buf[x].cap >= buf[y].size
    /\ LET s == Contents(World, y)
           more == buf[y].size - buf[x].size
           Sized(k) == IF buf[x].size >= buf[y].size
                       THEN pop_back_n(World, x, buf[x].size - buf[y].size)
                       ELSE unchecked_push_back(World, x, Defaults(k))
           Copied(k) == Overwritten(Sized(more), x, 0, s, k)
       IN  \/ Ends(Copied(Len(s)), "done") /\ IsValid(Copied(Len(s)), x)
           \/ \E k \in 0..Len(s) - 1 : Ends(Copied(k), "basic") /\ UNCHANGED failed
           \/ /\ buf[x].size < buf[y].size
              /\ \E k \in 0..more - 1 : Ends(Sized(k), "basic") /\ UNCHANGED failed

(* The memory is released first.  If the new one cannot be had, or its       *)
(* elements cannot be copied ("assign_throws"), buffer_ is left null but     *)
(* size_ and capacity_ are not: the buffer is no sequence any more.          *)
AssignGrowing(x, y) ==
    /\ There(x) /\ There(y) /\ x # y
    /\ buf[x].cap < buf[y].size
    /\ LET n == buf[y].size
           freed == auto_buffer_destroy(mem, buf[x])
           new == Place(freed, x, n)
           w == [mem |-> Built(allocate(freed, x, n), new, 0, Contents(World, y)),
                 buf |-> [buf EXCEPT ![x] = [at |-> new, cap |-> n, size |-> n]]]
       IN  \/ Ends(w, "done") /\ IsValid(w, x)
           \/ /\ "assign_throws" \in Calls
              /\ Ends([mem |-> freed, buf |-> [buf EXCEPT ![x].at = None]], "basic")
              /\ UNCHANGED failed

-----------------------------------------------------------------------------
(* x.swap(y). *)
BothValid(w, x, y) == Asserted(is_valid(w.buf[x], x) /\ is_valid(w.buf[y], y))

SwapHeap(x, y) ==
    /\ There(x) /\ There(y) /\ x # y
    /\ ~is_on_stack(buf[x]) /\ ~is_on_stack(buf[y])
    /\ LET w == [mem |-> mem, buf |-> [buf EXCEPT ![x] = buf[y], ![y] = buf[x]]]
       IN  Ends(w, "done") /\ BothValid(w, x, y)

(* x has its elements within itself and y has not: they are copied into y,   *)
(* and x takes the memory of y.                                              *)
SwapOne(x, y) ==
    /\ There(x) /\ There(y)
    /\ is_on_stack(buf[x]) /\ ~is_on_stack(buf[y])
    /\ LET copied == Built(mem, y, 0, Contents(World, x))
           w == [mem |-> auto_buffer_destroy(copied, buf[x]),
                 buf |-> [buf EXCEPT ![x] = buf[y], ![y] = [buf[x] EXCEPT !.at = y]]]
       IN  \/ Ends(w, "done") /\ BothValid(w, x, y)
           \/ Throws("strong")

(* Both are on the stack, and x is not the greater: elements are swapped as  *)
(* far as x goes, and the rest is copied to it.  A swap of two elements is a *)
(* copy and two assignments, each of which may throw.                        *)
SwapStack(x, y) ==
    /\ There(x) /\ There(y) /\ x # y
    /\ is_on_stack(buf[x]) /\ is_on_stack(buf[y])
    /\ buf[x].size <= buf[y].size
    /\ LET common == buf[x].size
           rest == Part(Contents(World, y), common, buf[y].size)
           Swapped(k) == Overwritten(
                            Overwritten(World, x, 0, Contents(World, y), k),
                            y, 0, Contents(World, x), k)
           HalfSwapped(k) == Overwritten(Swapped(k), x, k, <<Contents(World, y)[k + 1]>>, 1)
           Pushed(k) == unchecked_push_back(Swapped(common), x, SubSeq(rest, 1, k))
           w == pop_back_n(Pushed(Len(rest)), y, Len(rest))
       IN  \/ Ends(w, "done") /\ BothValid(w, x, y)
           \/ \E k \in 0..common - 1 :
                 /\ Ends(Swapped(k), "basic swap") \/ Ends(HalfSwapped(k), "basic swap")
                 /\ UNCHANGED failed
           \/ \E k \in 0..Len(rest) - 1 : Ends(Pushed(k), "basic swap") /\ UNCHANGED failed
-----------------------------------------------------------------------------
Sizes == 0..MaxSize
Capacities == 0..MaxSize + 1
Ranges == UNION {[1..n -> Elems] : n \in 1..2}

Next ==
    \/ \E x \in Buffers, n \in Sizes :
          Construct(x, n, << >>) \/ Pop(x, n) \/ reserve_precisely(x, n)
    \/ \E x \in Buffers, n \in Capacities : reserve(x, n)
    \/ \E x \in Buffers : Destroy(x) \/ shrink_to_fit(x) \/ push_back(x, <<Default>>)
    \/ \E x \in Buffers, s \in Ranges :
          \/ Construct(x, 0, s) \/ push_back(x, s) \/ InsertAtEnd(x, s)
          \/ \E i \in Sizes : InsertInPlace(x, i, s) \/ InsertGrowing(x, i, s)
    \/ \E x \in Buffers, i, j \in Sizes : Erase(x, i, j)
    \/ \E x, y \in Buffers :
          \/ There(y) /\ Construct(x, 0, Contents(World, y))
          \/ AssignWithin(x, y) \/ AssignGrowing(x, y)
          \/ SwapHeap(x, y) \/ SwapOne(x, y) \/ SwapStack(x, y)

Spec == Init /\ [][Next]_vars
-----------------------------------------------------------------------------
(* Properties. *)

(* Through every sequence of operations, whichever of them throw and where,  *)
(* a constructor for which an element cannot be copied and an assignment     *)
(* that cannot grow excepted (Calls): a cell is constructed exactly if its   *)
(* element is in the buffer, so that no object is destroyed twice, used raw, *)
(* overwritten or forgotten, and every block of the heap belongs to one      *)
(* buffer, which knows its size.                                             *)
CellsExact ==
    /\ \A b \in DOMAIN mem : \A k \in DOMAIN mem[b] :
          IF \E x \in Buffers : There(x) /\ buf[x].at = b /\ k < buf[x].size
          THEN Good(mem[b][k]) ELSE mem[b][k] = Raw
    /\ \A b \in DOMAIN mem \ Buffers :
          \E x \in Buffers : There(x) /\ buf[x].at = b /\ buf[x].cap = Cardinality(DOMAIN mem[b])
    /\ \A x, y \in Buffers :
          There(x) /\ There(y) /\ buf[x].at = buf[y].at /\ buf[x].at # None => x = y

(* The assertions of the code hold: is_valid() after every operation, and    *)
(* that what has been erased from is not full.                               *)
AssertionsHold == ~failed

(* What each buffer is seen to hold: size_ elements from begin() on.  If     *)
(* buffer_ is null, there are none at these places.                          *)
viewed == [x \in Buffers |->
             IF ~There(x) THEN None
             ELSE IF buf[x].at = None THEN [k \in 1..buf[x].size |-> Bad]
             ELSE Contents(World, x)]

(* An auto_buffer is a sequence, wherever its elements are: growing and      *)
(* shrinking it, taking its elements within itself and swapping do not show, *)
(* and what throws leaves what its comment says, the assignment that cannot  *)
(* grow excepted: with "assign_throws" in Calls this does not hold.  An      *)
(* insertion that moves elements up within the buffer is held to the length  *)
(* only: std::copy goes forwards over the elements that it has still to move.*)
Sequence == INSTANCE BufferContents
            WITH contents <- viewed, Values <- Elems \cup {Default}
ImplementsContents == Sequence!Spec
=============================================================================
