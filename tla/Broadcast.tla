------------------------------ MODULE Broadcast ------------------------------
(* What a signal promises its users (doc/thread_safety.xml, doc/tutorial.xml),*)
(* without reference counts, list copies or garbage collection:              *)
(*   - the connected slots are in the order of their groups;                 *)
(*   - an invocation takes the slots connected when it begins, and calls     *)
(*     those still connected and not blocked when their turn comes, each     *)
(*     once, in that order;                                                  *)
(*   - a slot that is disconnected is not called by any invocation that has  *)
(*     not reached it, and a slot connected later is not called by           *)
(*     invocations that have begun;                                          *)
(*   - an invocation ends when no slot is left, or at a slot where its       *)
(*     combiner stops or an exception leaves it.                             *)
EXTENDS SlotOrder

CONSTANTS Procs, Bodies, KeyOf, None

VARIABLES
    order,      \* the connected slots, in the order they are called
    expired,    \* the slots that track an object that is gone
    blocked,    \* the slots that are blocked
    busy,       \* the invocations under way
    queue,      \* the slots each invocation has still to consider
    current     \* the slot each invocation is at

vars == <<order, expired, blocked, busy, queue, current>>

Init ==
    /\ order = << >> /\ expired = {} /\ blocked = {}
    /\ busy = {}
    /\ queue = [p \in Procs |-> << >>]
    /\ current = [p \in Procs |-> None]

(* The slots of S are disconnected, for every invocation at once. *)
Forget(S) ==
    queue' = [p \in Procs |-> Without(queue[p], S)]

Connect(b, position) ==
    \E S \in SUBSET (expired \cap ToSet(order)) :
        /\ b \notin ToSet(order) \ S
        /\ order' = Inserted(Without(order, S), KeyOf, b, position)
        /\ Forget(S)
        /\ blocked' = blocked \ {b}
        /\ UNCHANGED <<busy, current>>

Disconnect(b) ==
    /\ order' = Without(order, {b})
    /\ Forget({b})
    /\ UNCHANGED <<blocked, busy, current>>

SetBlocked(S) == blocked' = S /\ UNCHANGED <<order, busy, queue, current>>

Emit(p) ==
    /\ p \notin busy
    /\ busy' = busy \cup {p}
    /\ queue' = [queue EXCEPT ![p] = order]
    /\ UNCHANGED <<order, blocked, current>>

(* The next slot is called, unless it is blocked. *)
Turn(p) ==
    /\ p \in busy /\ current[p] = None /\ queue[p] # << >>
    /\ current' = [current EXCEPT ![p] = IF Head(queue[p]) \in blocked THEN None
                                         ELSE Head(queue[p])]
    /\ queue' = [queue EXCEPT ![p] = Tail(@)]
    /\ UNCHANGED <<order, blocked, busy>>

Done(p) ==
    /\ current[p] # None
    /\ current' = [current EXCEPT ![p] = None]
    /\ UNCHANGED <<order, blocked, busy, queue>>

Finish(p) ==
    /\ p \in busy
    /\ queue[p] = << >> \/ current[p] # None
    /\ busy' = busy \ {p}
    /\ queue' = [queue EXCEPT ![p] = << >>]
    /\ current' = [current EXCEPT ![p] = None]
    /\ UNCHANGED <<order, blocked>>

(* Tracked objects may die in any step. *)
Next ==
    /\ expired' \subseteq Bodies
    /\ \/ \E b \in Bodies, position \in Positions : Connect(b, position)
       \/ \E b \in Bodies : Disconnect(b)
       \/ \E S \in SUBSET Bodies : SetBlocked(S)
       \/ \E p \in Procs : Emit(p) \/ Turn(p) \/ Done(p) \/ Finish(p)

Spec == Init /\ [][Next]_vars
=============================================================================
