------------------------------- MODULE Emission -------------------------------
(* What an invocation computes: the combiner (last_value.hpp,                *)
(* optional_last_value.hpp, or one of the program's own) drives the slot     *)
(* call iterator, which runs the slots and caches their results; and         *)
(* extended slots, which are passed their own connection.                    *)
(*                                                                           *)
(* Signal has every step an invocation takes on shared memory.  Here they    *)
(* are joined to what the combiner and the iterator keep between them.  The  *)
(* result of a slot is named by its body.  A slot that is running is         *)
(* Signal's "calling"; dereference is the step in which it returns.          *)
EXTENDS Signal

CONSTANTS
    Extended,       \* the bodies connected by connect_extended
    CombinerTypes   \* "last_value", the library's two; any other, the program's

ASSUME EmissionAssumption == Extended \subseteq Bodies /\ CombinerTypes # {}

VARIABLES
    combiner,   \* the type of the signal's combiner
    result,     \* cache.result of each invocation
    tried,      \* a library combiner has dereferenced the iterator where it is
    value,      \* last_value's `value'
    outcome,    \* how the combiner ended, "none" before that
    own,        \* *_connection in the slot function of an extended slot
    returned,   \* history: the slots that returned to each invocation
    overlooked  \* history: those that were blocked when each invocation reached them

combinerVars == <<combiner, value, outcome>>
emissionVars == <<combinerVars, result, tried, own, returned, overlooked>>
allVars == <<vars, emissionVars>>

EmissionInit ==
    /\ Init
    /\ combiner \in CombinerTypes
    /\ result = [p \in Procs |-> None]
    /\ tried = [p \in Procs |-> FALSE]
    /\ value = [p \in Procs |-> None]
    /\ outcome = [p \in Procs |-> "none"]
    /\ own = [b \in Bodies |-> None]
    /\ returned = [p \in Procs |-> << >>]
    /\ overlooked = [p \in Procs |-> {}]

Library == combiner = "last_value"

-----------------------------------------------------------------------------
(* Extended slots. *)

(* Mutant: the connection is set when the mutex has been released. *)
connect_extended_unlocked(b, position) ==
    /\ b \in Extended
    /\ \/ /\ Connect(b, position)
          /\ own' = [own EXCEPT ![b] = None]
       \/ /\ Exists(b) /\ own[b] = None
          /\ own' = [own EXCEPT ![b] = b]
          /\ UNCHANGED vars
    /\ UNCHANGED <<combinerVars, result, tried, returned, overlooked>>

(* The slot function is wrapped with a new connection object, which the      *)
(* connection is assigned to before the mutex is released.                   *)
connect_extended(b, position) ==
    /\ b \in Extended
    /\ Connect(b, position)
    /\ own' = [own EXCEPT ![b] = b]
    /\ UNCHANGED <<combinerVars, result, tried, returned, overlooked>>

(* Running the slot of b, with its connection if it is extended: such a slot *)
(* disconnects itself, for which it takes the mutex.                         *)
bound_extended_slot_function(b) ==
    [c \in Bodies |-> IF c = own[b] THEN nolock_disconnect(body[c]) ELSE body[c]]

slot_invoker(b) == IF b \in Extended THEN bound_extended_slot_function(b) ELSE body

-----------------------------------------------------------------------------
(* The iterator, and when the combiner uses it. *)

MayDereference(p) == pc[p] = "calling" /\ (Library => ~tried[p])
MayIncrement(p) == pc[p] = "calling" /\ (Library => tried[p])

(* Mutant: the first value is the one that is kept. *)
KeptFirst(p, r) == IF Library /\ value[p] = None THEN r ELSE value[p]

(* value = *first *)
Kept(p, r) == IF Library THEN r ELSE value[p]

(* Mutant: a result that is in the cache is not used. *)
dereference_uncached(p) ==
    \E b \in Bodies :
        /\ MayDereference(p) /\ iter[p] = b
        /\ body' = slot_invoker(b)
        /\ result' = [result EXCEPT ![p] = b]
        /\ returned' = [returned EXCEPT ![p] = Append(@, b)]
        /\ tried' = [tried EXCEPT ![p] = Library]
        /\ value' = [value EXCEPT ![p] = Kept(p, result'[p])]
        /\ UNCHANGED <<blocked, owned, listVars, procVars, combiner, outcome, own, overlooked>>

(* dereference: the slot returns, or has returned before. *)
dereference(p) ==
    \E b \in Bodies :
        /\ MayDereference(p) /\ iter[p] = b
        /\ IF result[p] = None
           THEN /\ body' = slot_invoker(b)
                /\ result' = [result EXCEPT ![p] = b]
                /\ returned' = [returned EXCEPT ![p] = Append(@, b)]
           ELSE UNCHANGED <<body, result, returned>>
        /\ tried' = [tried EXCEPT ![p] = Library]
        /\ value' = [value EXCEPT ![p] = Kept(p, result'[p])]
        /\ UNCHANGED <<blocked, owned, listVars, procVars, combiner, outcome, own, overlooked>>

(* Mutant: expired_slot passes through the iterator. *)
dereference_rethrows(p) ==
    /\ MayDereference(p) /\ result[p] = None
    /\ tried' = [tried EXCEPT ![p] = Library]
    /\ UNCHANGED <<vars, combinerVars, result, own, returned, overlooked>>

(* dereference: the slot throws expired_slot.  It is disconnected, and the   *)
(* combiner swallows the exception; one that does not stops there (Leave).   *)
dereference_expired(p) ==
    /\ MayDereference(p) /\ result[p] = None
    /\ SlotExpires(p)
    /\ tried' = [tried EXCEPT ![p] = Library]
    /\ UNCHANGED <<combinerVars, result, own, returned, overlooked>>

(* Mutant: the cached result is not reset. *)
increment_keeping(p) ==
    /\ MayIncrement(p)
    /\ Increment(p)
    /\ tried' = [tried EXCEPT ![p] = FALSE]
    /\ UNCHANGED <<combinerVars, result, own, returned, overlooked>>

increment(p) ==
    /\ MayIncrement(p)
    /\ Increment(p)
    /\ result' = [result EXCEPT ![p] = None]
    /\ tried' = [tried EXCEPT ![p] = FALSE]
    /\ UNCHANGED <<combinerVars, own, returned, overlooked>>

(* last_value and optional_last_value at the end of the range: without a     *)
(* value, last_value throws no_slots_error and optional_last_value returns   *)
(* an empty one.  A combiner of the program returns what it likes.           *)
combiner_invoker(p) == IF Library /\ value[p] = None THEN "no_value" ELSE "value"

Return(p) ==
    /\ ReachEnd(p)
    /\ outcome' = [outcome EXCEPT ![p] = combiner_invoker(p)]
    /\ UNCHANGED <<combiner, result, tried, value, own, returned, overlooked>>

(* An exception leaves a slot, or the program's combiner returns early. *)
Leave(p) ==
    /\ MayDereference(p)
    /\ StopEarly(p)
    /\ outcome' = [outcome EXCEPT ![p] = "left"]
    /\ result' = [result EXCEPT ![p] = None]
    /\ UNCHANGED <<combiner, tried, value, own, returned, overlooked>>

Forget(p) ==
    /\ Release(p)
    /\ result' = [result EXCEPT ![p] = None]
    /\ tried' = [tried EXCEPT ![p] = FALSE]
    /\ value' = [value EXCEPT ![p] = None]
    /\ outcome' = [outcome EXCEPT ![p] = "none"]
    /\ returned' = [returned EXCEPT ![p] = << >>]
    /\ overlooked' = [overlooked EXCEPT ![p] = {}]
    /\ UNCHANGED <<combiner, own>>

(* lock_next_callable looks at the slot the iterator has come to, and passes *)
(* over one that is blocked.                                                 *)
Reach(p) ==
    /\ Grab(p)
    /\ overlooked' = [overlooked EXCEPT ![p] = @ \cup (blocked \cap {iter[p]})]
    /\ UNCHANGED <<combinerVars, result, tried, own, returned>>

Skip(p) == pc[p] = "skipping" /\ Increment(p)

(* After set_combiner the current state is unique although an invocation     *)
(* holds its list, and connect, operator() and the janitor may change the    *)
(* list under it: combiner_snapshot shows that.  Here the program does       *)
(* nothing that would, unless the only readers are in S.                     *)
Undisturbed(S) ==
    Unique => {p \in Procs : local[p] # None /\ local[p].list = shared.list} \subseteq S

EmissionNext ==
    \/ \E b \in Bodies, position \in Positions :
          Undisturbed({}) /\ connect_extended(b, position)
    \/ \E b \in Bodies \ Extended, position \in Positions :
          Undisturbed({}) /\ Connect(b, position) /\ UNCHANGED emissionVars
    \/ /\ \/ \E b \in Bodies : Disconnect(b) \/ Connected(b) \/ Block(b) \/ Unblock(b)
          \/ \E o \in Objs : DropObject(o)
       /\ UNCHANGED emissionVars
    \/ \E c \in Combiners : SetCombiner(c) /\ UNCHANGED emissionVars
    \/ \E p \in Procs :
          \/ Undisturbed({}) /\ Invoke(p) /\ UNCHANGED emissionVars
          \/ Reach(p) \/ dereference(p) \/ dereference_expired(p) \/ increment(p)
          \/ Return(p) \/ Leave(p) \/ Forget(p)
          \/ (Skip(p) \/ CacheDtor(p)) /\ UNCHANGED emissionVars
          \/ /\ Undisturbed({q \in {p} : active[q] = None})
             /\ Janitor(p) /\ UNCHANGED emissionVars

EmissionSpec == EmissionInit /\ [][EmissionNext]_allVars
-----------------------------------------------------------------------------
(* Properties. *)

(* However often a combiner dereferences an iterator, and whatever happens   *)
(* to the slot meanwhile: the result in the cache is that of the slot the    *)
(* iterator is at, and an invocation runs a slot to its end at most once, in *)
(* the order of its list.  At its end it may erase nodes of that list.       *)
RunOnceInOrder ==
    \A p \in Procs :
        /\ result[p] # None => result[p] = iter[p]
        /\ pc[p] \in Invoking =>
              LET list == lists[local[p].list]
              IN  \A i, j \in DOMAIN returned[p] : i < j =>
                      Index(list, returned[p][i]) < Index(list, returned[p][j])

(* last_value and optional_last_value return the value of the last slot that *)
(* returned, and have none to return, or throw no_slots_error, when none     *)
(* did: all had expired or were blocked or disconnected, or there were none. *)
(* They come to the end of the list only when every slot of it that is still *)
(* connected has returned, or was blocked as the invocation reached it.      *)
LastValueReturned ==
    \A p \in Procs : local[p] # None /\ Library =>
        /\ value[p] = IF returned[p] = << >> THEN None ELSE Last(returned[p])
        /\ outcome[p] = "no_value" => returned[p] = << >>
        /\ outcome[p] \in {"value", "no_value"} =>
              \A b \in ToSet(lists[local[p].list]) :
                  body[b].connected => b \in ToSet(returned[p]) \cup overlooked[p]

(* An extended slot is passed its own connection even if another thread      *)
(* invokes the signal before connect_extended has returned it to its caller, *)
(* so a slot that disconnects itself is connected no more when it has run.   *)
(* Its node is erased, and its memory used again, only after the invocation. *)
ExtendedSlotFindsItself ==
    \A p \in Procs : pc[p] \in Invoking =>
        \A b \in ToSet(returned[p]) \cap Extended : ~body[b].connected
=============================================================================
