--------------------------- MODULE BufferContents ---------------------------
(* What the buffers of detail/auto_buffer.hpp promise: each is a sequence.   *)
(* An operation that throws says how much it leaves as it was: nothing has   *)
(* changed ("strong"), or no other buffer has and this one is a sequence of  *)
(* elements still ("basic"), or each of them is ("basic swap").              *)
EXTENDS Naturals, Sequences

CONSTANTS
    Buffers,
    Values,     \* the values of elements
    None

VARIABLES
    contents,   \* the elements of each buffer, None if there is no buffer
    outcome     \* how the last operation ended: "done" or "shifted", "strong",
                \* "basic" or "basic swap"

vars == <<contents, outcome>>

Init == contents = [x \in Buffers |-> None] /\ outcome = "done"

Becomes(x, s) == contents' = [contents EXCEPT ![x] = s]
BecomesSequence(x) == contents'[x] \in Seq(Values) /\ Becomes(x, contents'[x])
There(x) == contents[x] # None

Destroy(x) == There(x) /\ Becomes(x, None)

(* From now on the buffer holds a sequence that it is given, or a copy.      *)
Construct(x) == ~There(x) /\ BecomesSequence(x)
Assign(x, y) == There(x) /\ There(y) /\ Becomes(x, contents[y])

(* The sequence changes in one place: where i elements precede and j follow. *)
Insert(x) ==
    /\ There(x) /\ BecomesSequence(x)
    /\ \E i \in 0..Len(contents[x]) :
          LET new == contents'[x]
              n == Len(new) - Len(contents[x])
          IN  /\ n > 0
              /\ SubSeq(new, 1, i) = SubSeq(contents[x], 1, i)
              /\ SubSeq(new, i + n + 1, Len(new))
                    = SubSeq(contents[x], i + 1, Len(contents[x]))

(* Elements were moved up for new ones: nothing is said of their values.     *)
Shift(x) ==
    /\ There(x) /\ BecomesSequence(x)
    /\ Len(contents'[x]) > Len(contents[x])

Erase(x) ==
    /\ There(x)
    /\ \E i \in 0..Len(contents[x]) : \E j \in i..Len(contents[x]) :
          Becomes(x, SubSeq(contents[x], 1, i)
                        \o SubSeq(contents[x], j + 1, Len(contents[x])))

Swap(x, y) ==
    /\ There(x) /\ There(y)
    /\ contents' = [contents EXCEPT ![x] = contents[y], ![y] = contents[x]]

Done ==
    \/ UNCHANGED contents
    \/ \E x \in Buffers : Destroy(x) \/ Construct(x) \/ Insert(x) \/ Erase(x)
    \/ \E x, y \in Buffers : Assign(x, y) \/ Swap(x, y)

Next ==
    \/ outcome' = "done" /\ Done
    \/ outcome' = "shifted" /\ \E x \in Buffers : Shift(x)
    \/ outcome' = "strong" /\ UNCHANGED contents
    \/ outcome' = "basic" /\ \E x \in Buffers : There(x) /\ BecomesSequence(x)
    \/ outcome' = "basic swap" /\ \A x \in Buffers :
            IF There(x) THEN contents'[x] \in Seq(Values) ELSE contents'[x] = None

Spec == Init /\ [][Next]_vars
=============================================================================
