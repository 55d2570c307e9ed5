----------------------------- MODULE Deconstruct -----------------------------
(* Objects that are constructed and destroyed in two phases: deconstruct()   *)
(* (deconstruct.hpp) and deconstruct_ptr() (deconstruct_ptr.hpp).  User code *)
(* runs in the constructor, the postconstructor, the predestructor and the   *)
(* destructor; the first two may throw.                                      *)
EXTENDS Naturals, FiniteSets

CONSTANTS
    Objs,           \* objects
    Invokers,       \* postconstructor_invoker objects
    Handles,        \* shared_ptrs
    None,           \* a handle that is null, no invoker
    MaxFailures,    \* bound: postconstructors of an object that throw,
    MaxPost         \* and that complete

ASSUME DeconstructAssumption ==
    /\ None \notin Objs /\ None \notin [sp : Objs, postconstructed : BOOLEAN]
    /\ MaxFailures \in Nat /\ MaxPost \in Nat

VARIABLES
    obj,        \* each object: see Object
    invoker,    \* _sp and _postconstructed of each invoker, or None
    handle,     \* what each shared_ptr owns
    watched     \* the objects a weak_ptr refers to

vars == <<obj, invoker, handle, watched>>

(* An object: how it was made, or that it has not been, or that its memory   *)
(* has been freed; initialized_ of its deleter; whether its constructor has  *)
(* completed and its destructor has not run; how often its postconstructor   *)
(* has completed, has thrown, and its predestructor has run; and whether its *)
(* invoker was copied before it was converted.                               *)
Object == [made : {"no", "deconstruct", "deconstruct_ptr", "freed"},
           initialized : BOOLEAN, built : BOOLEAN, alive : BOOLEAN,
           post : Nat, failed : Nat, pre : Nat, copied : BOOLEAN]

Init ==
    /\ obj = [o \in Objs |-> [made |-> "no", initialized |-> FALSE, built |-> FALSE,
                              alive |-> FALSE, post |-> 0, failed |-> 0, pre |-> 0,
                              copied |-> FALSE]]
    /\ invoker = [i \in Invokers |-> None]
    /\ handle = [h \in Handles |-> None]
    /\ watched = {}

-----------------------------------------------------------------------------
(* The deleter.  An object is destroyed with the last shared_ptr to it.      *)

Owners(o, inv, han) ==
    {i \in Invokers : inv[i] # None /\ inv[i].sp = o}
        \cup {h \in Handles : han[h] = o}

(* Mutant: the predestructor also runs for what was never constructed. *)
destroy_always(r) ==
    [r EXCEPT !.pre = @ + 1, !.alive = FALSE, !.initialized = FALSE]

(* deconstruct_deleter::destroy. *)
destroy(r) ==
    IF r.initialized
    THEN [r EXCEPT !.pre = @ + 1, !.alive = FALSE, !.initialized = FALSE]
    ELSE r

(* predestructing_deleter: what the predestructor throws is swallowed. *)
predestruct_and_delete(r) == [r EXCEPT !.pre = @ + 1, !.alive = FALSE]

(* The deleter is called when the last owner goes, and its destructor, which *)
(* calls destroy() again, when the last weak_ptr has gone too.               *)
Disposed(r) ==
    IF r.made = "deconstruct" THEN destroy(r) ELSE predestruct_and_delete(r)
Freed(r) ==
    [(IF r.made = "deconstruct" THEN destroy(r) ELSE r) EXCEPT !.made = "freed"]

(* The object when inv and han own what invokers and handles did. *)
Left(o, inv, han) ==
    IF Owners(o, invoker, handle) = {} \/ Owners(o, inv, han) # {} THEN obj[o]
    ELSE IF o \in watched THEN Disposed(obj[o]) ELSE Freed(Disposed(obj[o]))

(* The handles become han. *)
SetHandles(han) ==
    /\ handle' = han
    /\ obj' = [o \in Objs |-> Left(o, invoker, han)]

(* The weak_ptrs refer to the objects of S only. *)
SetWatched(S) ==
    /\ watched' = S
    /\ obj' = [o \in Objs |-> IF o \in watched \ S /\ Owners(o, invoker, handle) = {}
                              THEN Freed(obj[o]) ELSE obj[o]]

-----------------------------------------------------------------------------
(* deconstruct<T>(): the shared_ptr pt owns memory and deleter before the    *)
(* constructor runs.  If that throws, pt is released.                        *)
deconstruct(o, i) ==
    /\ obj[o].made = "no" /\ invoker[i] = None
    /\ LET r == [obj[o] EXCEPT !.made = "deconstruct"]
       IN  \/ /\ obj' = [obj EXCEPT ![o] = [r EXCEPT !.initialized = TRUE, !.built = TRUE,
                                               !.alive = TRUE]]
              /\ invoker' = [invoker EXCEPT ![i] = [sp |-> o, postconstructed |-> FALSE]]
           \/ /\ obj' = [obj EXCEPT ![o] = Freed(Disposed(r))]
              /\ UNCHANGED invoker
    /\ UNCHANGED <<handle, watched>>

(* Mutant: _postconstructed is set before the postconstructor is called. *)
postconstruct_early(i, h) ==
    /\ invoker[i] # None /\ handle[h] = None
    /\ LET o == invoker[i].sp
           run == ~invoker[i].postconstructed
       IN  /\ invoker' = [invoker EXCEPT ![i].postconstructed = TRUE]
           /\ \/ /\ obj' = [obj EXCEPT ![o].post = IF run THEN @ + 1 ELSE @]
                 /\ handle' = [handle EXCEPT ![h] = o]
              \/ /\ run /\ obj[o].failed < MaxFailures
                 /\ obj' = [obj EXCEPT ![o].failed = @ + 1]
                 /\ UNCHANGED handle
    /\ UNCHANGED watched

(* Mutant: _postconstructed is never set. *)
postconstruct_again(i, h) ==
    /\ invoker[i] # None /\ handle[h] = None
    /\ obj[invoker[i].sp].post < MaxPost
    /\ obj' = [obj EXCEPT ![invoker[i].sp].post = @ + 1]
    /\ handle' = [handle EXCEPT ![h] = invoker[i].sp]
    /\ UNCHANGED <<invoker, watched>>

(* The invoker is converted to a shared_ptr, of which the program keeps a    *)
(* copy: the postconstructor runs unless it has.  If it throws the invoker   *)
(* is as it was.                                                             *)
postconstruct(i, h) ==
    /\ invoker[i] # None /\ handle[h] = None
    /\ LET o == invoker[i].sp
           run == ~invoker[i].postconstructed
       IN  \/ /\ run => obj[o].post < MaxPost
              /\ obj' = [obj EXCEPT ![o].post = IF run THEN @ + 1 ELSE @]
              /\ invoker' = [invoker EXCEPT ![i].postconstructed = TRUE]
              /\ handle' = [handle EXCEPT ![h] = o]
           \/ /\ run /\ obj[o].failed < MaxFailures
              /\ obj' = [obj EXCEPT ![o].failed = @ + 1]
              /\ UNCHANGED <<invoker, handle>>
    /\ UNCHANGED watched

(* Mutant: what the postconstructor throws is caught, the object deleted, and *)
(* the pointer to it returned.                                               *)
deconstruct_ptr_swallowing(o, h) ==
    /\ obj[o].made = "no" /\ handle[h] = None
    /\ LET r == [obj[o] EXCEPT !.made = "deconstruct_ptr", !.built = TRUE, !.alive = TRUE]
       IN  \/ obj' = [obj EXCEPT ![o] = [r EXCEPT !.post = 1]]
           \/ obj' = [obj EXCEPT ![o] = Freed(Disposed([r EXCEPT !.failed = 1]))]
    /\ handle' = [handle EXCEPT ![h] = o]
    /\ UNCHANGED <<invoker, watched>>

(* deconstruct_ptr(new T): the shared_ptr owns the object before the         *)
(* postconstructor runs.                                                     *)
deconstruct_ptr(o, h) ==
    /\ obj[o].made = "no" /\ handle[h] = None
    /\ LET r == [obj[o] EXCEPT !.made = "deconstruct_ptr", !.built = TRUE, !.alive = TRUE]
       IN  \/ /\ obj' = [obj EXCEPT ![o] = [r EXCEPT !.post = 1]]
              /\ handle' = [handle EXCEPT ![h] = o]
           \/ /\ obj' = [obj EXCEPT ![o] = Freed(Disposed([r EXCEPT !.failed = 1]))]
              /\ UNCHANGED handle
    /\ UNCHANGED <<invoker, watched>>

-----------------------------------------------------------------------------
(* What the program does with invokers and pointers. *)

CopyInvoker(i, j) ==
    /\ invoker[i] # None /\ invoker[j] = None
    /\ invoker' = [invoker EXCEPT ![j] = invoker[i]]
    /\ obj' = [obj EXCEPT ![invoker[i].sp].copied = @ \/ ~invoker[i].postconstructed]
    /\ UNCHANGED <<handle, watched>>

DropInvoker(i) ==
    /\ invoker[i] # None
    /\ invoker' = [invoker EXCEPT ![i] = None]
    /\ obj' = [o \in Objs |-> Left(o, [invoker EXCEPT ![i] = None], handle)]
    /\ UNCHANGED <<handle, watched>>

CopyHandle(h, g) ==
    /\ handle[h] # None /\ handle[g] = None
    /\ handle' = [handle EXCEPT ![g] = handle[h]]
    /\ UNCHANGED <<obj, invoker, watched>>

DropHandle(h) ==
    /\ handle[h] # None
    /\ SetHandles([handle EXCEPT ![h] = None])
    /\ UNCHANGED <<invoker, watched>>

(* A weak_ptr, as signals keep one to every object a slot tracks. *)
Watch(h) ==
    /\ handle[h] # None
    /\ watched' = watched \cup {handle[h]}
    /\ UNCHANGED <<obj, invoker, handle>>

Unwatch(o) ==
    /\ o \in watched
    /\ SetWatched(watched \ {o})
    /\ UNCHANGED <<invoker, handle>>

(* What the program does with invokers and the handles of H. *)
Program(H) ==
    \/ \E o \in Objs, i \in Invokers : deconstruct(o, i)
    \/ \E o \in Objs, h \in H : deconstruct_ptr(o, h)
    \/ \E i \in Invokers, h \in H : postconstruct(i, h)
    \/ \E i, j \in Invokers : CopyInvoker(i, j)
    \/ \E h, g \in H : CopyHandle(h, g)
    \/ \E i \in Invokers : DropInvoker(i)
    \/ \E h \in H : DropHandle(h)

Next ==
    \/ Program(Handles)
    \/ \E h \in Handles : Watch(h)
    \/ \E o \in Objs : Unwatch(o)

Spec == Init /\ [][Next]_vars
-----------------------------------------------------------------------------
(* Properties. *)

(* Records have their fields' types; what is owned or watched has memory.    *)
TypeOK ==
    /\ obj \in [Objs -> Object]
    /\ invoker \in [Invokers -> [sp : Objs, postconstructed : BOOLEAN] \cup {None}]
    /\ handle \in [Handles -> Objs \cup {None}]
    /\ watched \subseteq Objs
    /\ \A o \in Objs : o \in watched \/ Owners(o, invoker, handle) # {}
                            => obj[o].made \in {"deconstruct", "deconstruct_ptr"}

(* "insuring the postconstructor is run before the wrapped shared_ptr is     *)
(* accessible": what the program has a shared_ptr to is alive and has been   *)
(* postconstructed to the end, also if an earlier attempt threw.             *)
AccessibleIsComplete ==
    \A h \in Handles : handle[h] # None =>
        obj[handle[h]].alive /\ obj[handle[h]].post >= 1

(* The deleter may be called and destroyed in either order of owners and     *)
(* weak_ptrs, after a constructor that threw or not: the predestructor runs  *)
(* once for each object that was constructed, and before its destructor.     *)
PredestructedOnce ==
    \A o \in Objs :
        /\ obj[o].pre = IF obj[o].built /\ ~obj[o].alive THEN 1 ELSE 0
        /\ obj[o].made = "freed" => ~obj[o].alive

(* An object is not postconstructed again once it has been, however often    *)
(* its invoker is converted, and copied after that.  Only copies made before *)
(* each run the postconstructor: _postconstructed is a member of the invoker.*)
PostconstructedOnce == \A o \in Objs : ~obj[o].copied => obj[o].post <= 1
=============================================================================
