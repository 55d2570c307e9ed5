----------------------------- MODULE Destructors -----------------------------
(* Which destructors of user code run where.  The mutex of a signal is not   *)
(* recursive, and the destructor of a slot or of a tracked object may use    *)
(* the signal: garbage_collecting_lock (connection.hpp) and the order of     *)
(* clear() and lock in lock_next_callable are there so that such destructors *)
(* do not run in a thread that holds the mutex.  Some do.                    *)
(*                                                                           *)
(* Here a critical section is several steps, because other threads drop      *)
(* their shared_ptrs to tracked objects without the mutex.  The list of      *)
(* slots does not change; Signal models it.                                  *)
EXTENDS Naturals, Sequences, FiniteSets

CONSTANTS
    Threads,
    Bodies, Objs,
    Tracked,        \* the sequence of objects the slot of each body tracks
    Wrapped,        \* the signal_impl that a slot made of a signal refers to, or None
    Local,          \* a slot function or combiner that a member function has copied
    None,           \* no body, object or thread
    Calls           \* the operations the program makes use of

ASSUME DestructorsAssumption ==
    /\ Tracked \in [Bodies -> Seq(Objs)]
    /\ Wrapped \in [Bodies -> Objs \cup {None}]
    /\ Bodies \cap Objs = {} /\ None \notin Bodies \cup Objs \cup Threads
    /\ Local \notin Bodies \cup Objs \cup {None}
    /\ Threads # {} /\ IsFiniteSet(Threads)

VARIABLES
    mutex,      \* the thread that holds the signal's mutex, or None
    body,       \* connection_body: _connected, m_slot_refcount, m_slot # 0
    owned,      \* the threads with a shared_ptr of their own to each object
    destroyed,  \* the slots and objects whose destructor has been entered
    op, at,     \* what each thread is doing, and to which body
    pc,         \* where it is in that
    todo,       \* the tracked weak_ptrs it has still to lock
    temp,       \* locked_object
    kept,       \* cache.tracked_ptrs
    active,     \* cache.m_active_slot
    calling,    \* the body whose slot the combiner runs or may run, or None
    garbage,    \* the slots in its garbage_collecting_lock
    dtor        \* what it runs the destructor of, or None

vars == <<mutex, body, owned, destroyed, op, at, pc, todo, temp, kept, active, calling,
          garbage, dtor>>

Init ==
    /\ mutex = None
    /\ body = [b \in Bodies |-> [connected |-> TRUE, refcount |-> 1, slot |-> TRUE]]
    /\ owned = [o \in Objs |-> Threads]
    /\ destroyed = {}
    /\ op = [t \in Threads |-> "none"]
    /\ at = [t \in Threads |-> None]
    /\ pc = [t \in Threads |-> "idle"]
    /\ todo = [t \in Threads |-> << >>]
    /\ temp = [t \in Threads |-> None]
    /\ kept = [t \in Threads |-> {}]
    /\ active = [t \in Threads |-> None]
    /\ calling = [t \in Threads |-> None]
    /\ garbage = [t \in Threads |-> {}]
    /\ dtor = [t \in Threads |-> None]

-----------------------------------------------------------------------------
(* Reference counts. *)

Alive(o) ==
    owned[o] # {} \/ \E t \in Threads : temp[t] = o \/ o \in kept[t]

(* The references in the next state are those above, so an object dies in a  *)
(* step of t after which none is left: t enters its destructor.              *)
EnterDestructor(t, o) ==
    IF Alive(o)' THEN UNCHANGED <<dtor, destroyed>>
    ELSE /\ dtor' = [dtor EXCEPT ![t] = o]
         /\ destroyed' = destroyed \cup {o}

(* A thread that runs a destructor does nothing else. *)
Running(t, where) == dtor[t] = None /\ pc[t] = where

(* Mutant: release_slot does not reset m_slot. *)
dec_keeping_slot(r) == [r EXCEPT !.refcount = @ - 1]

dec_slot_refcount(r) ==
    [connected |-> r.connected, refcount |-> r.refcount - 1,
     slot |-> r.slot /\ r.refcount # 1]

inc_slot_refcount(r) == [r EXCEPT !.refcount = @ + 1]

nolock_disconnect(r) ==
    IF r.connected THEN dec_slot_refcount([r EXCEPT !.connected = FALSE]) ELSE r

(* add_trash(release_slot()): the slots whose count a critical section of t  *)
(* has taken to 0.                                                           *)
Trash(t) ==
    garbage' = [garbage EXCEPT ![t] = @ \cup
                   {b \in Bodies : body[b].refcount # 0 /\ body'[b].refcount = 0}]

-----------------------------------------------------------------------------
(* The critical sections that can end a life: connection::disconnect;        *)
(* connection::connected (also what num_slots and empty call for each body); *)
(* disconnect(slot), for each body; connect, which sweeps the list; that of  *)
(* set_combiner, at no body; and the steps of an invocation: "next" looks    *)
(* at a body in lock_next_callable, "end" gives up the active slot.  With    *)
(* "next" and "end" the combiner is done with the slot before.               *)
Begin(t, kind, b) ==
    /\ Running(t, "idle")
    /\ kind \in Calls
    /\ kind = "next" => b # active[t]
    /\ kind = "end" => active[t] \in {b, None}
    /\ op' = [op EXCEPT ![t] = kind]
    /\ at' = [at EXCEPT ![t] = IF kind = "set_combiner" THEN None ELSE b]
    /\ pc' = [pc EXCEPT ![t] = IF kind = "next" \/ (kind = "end" /\ active[t] = None)
                               THEN "clear" ELSE "lock"]
    /\ calling' = [calling EXCEPT ![t] = IF kind \in {"next", "end"} THEN None ELSE @]
    /\ UNCHANGED <<mutex, body, owned, destroyed, todo, temp, kept, active, garbage, dtor>>

(* Mutant: the pointers of the slot before are released under the lock. *)
ClearUnderLock(t) ==
    \/ \E o \in kept[t] :
          /\ Running(t, "locked") /\ todo[t] = Tracked[at[t]]
          /\ kept' = [kept EXCEPT ![t] = @ \ {o}]
          /\ UNCHANGED <<mutex, body, owned, op, at, pc, todo, temp, active, calling, garbage>>
          /\ EnterDestructor(t, o)
    \/ /\ Running(t, "clear")
       /\ pc' = [pc EXCEPT ![t] = IF op[t] = "next" THEN "lock" ELSE "idle"]
       /\ UNCHANGED <<mutex, body, owned, destroyed, op, at, todo, temp, kept, active, calling,
                      garbage, dtor>>

(* tracked_ptrs.clear(), before the lock is taken, and its destructor. *)
Clear(t) ==
    \/ \E o \in kept[t] :
          /\ Running(t, "clear")
          /\ kept' = [kept EXCEPT ![t] = @ \ {o}]
          /\ UNCHANGED <<mutex, body, owned, op, at, pc, todo, temp, active, calling, garbage>>
          /\ EnterDestructor(t, o)
    \/ /\ Running(t, "clear")
       /\ kept[t] = {}
       /\ pc' = [pc EXCEPT ![t] = IF op[t] = "next" THEN "lock" ELSE "idle"]
       /\ UNCHANGED <<mutex, body, owned, destroyed, op, at, todo, temp, kept, active, calling,
                      garbage, dtor>>

(* slot().expired(), which locks nothing. *)
Expired(b) == body[b].slot /\ \E i \in DOMAIN Tracked[b] : ~Alive(Tracked[b][i])

(* The weak_ptrs that will be locked: those of tracked objects, or in        *)
(* disconnect(slot) that of weak_signal.  The sweep of connect comes first   *)
(* of all; it puts the slots that have expired into the garbage.             *)
Lock(t) ==
    /\ Running(t, "lock")
    /\ mutex = None
    /\ mutex' = t
    /\ pc' = [pc EXCEPT ![t] = "locked"]
    /\ todo' = [todo EXCEPT ![t] =
                   CASE op[t] \in {"connected", "next"} /\ body[at[t]].slot -> Tracked[at[t]]
                     [] op[t] = "disconnect_slot" /\ body[at[t]].connected
                           /\ Wrapped[at[t]] # None -> <<Wrapped[at[t]]>>
                     [] OTHER -> << >>]
    /\ body' = IF op[t] = "connect" /\ Expired(at[t])
               THEN [body EXCEPT ![at[t]] = nolock_disconnect(@)] ELSE body
    /\ Trash(t)
    /\ UNCHANGED <<owned, destroyed, op, at, temp, kept, active, calling, dtor>>

(* nolock_grab_tracked_objects locks one weak_ptr; only an invocation has an *)
(* inserter that keeps the result.  An expired one disconnects the slot.     *)
(* weak_signal::contains locks one to compare what it points at, and keeps   *)
(* nothing either.                                                           *)
LockObject(t) ==
    /\ Running(t, "locked")
    /\ todo[t] # << >> /\ temp[t] = None
    /\ LET o == Head(todo[t])
       IN  IF Alive(o)
           THEN /\ temp' = [temp EXCEPT ![t] = o]
                /\ kept' = [kept EXCEPT ![t] = IF op[t] = "next" THEN @ \cup {o} ELSE @]
                /\ UNCHANGED <<body, todo>>
           ELSE /\ body' = IF op[t] = "disconnect_slot" THEN body
                           ELSE [body EXCEPT ![at[t]] = nolock_disconnect(@)]
                /\ todo' = [todo EXCEPT ![t] = << >>]
                /\ UNCHANGED <<temp, kept>>
    /\ Trash(t)
    /\ UNCHANGED <<mutex, owned, destroyed, op, at, pc, active, calling, dtor>>

(* locked_object, or the temporary in contains, goes out of scope. *)
DropTemp(t) ==
    \E o \in Objs :
        /\ Running(t, "locked")
        /\ temp[t] = o
        /\ temp' = [temp EXCEPT ![t] = None]
        /\ todo' = [todo EXCEPT ![t] = Tail(@)]
        /\ UNCHANGED <<mutex, body, owned, op, at, pc, kept, active, calling, garbage>>
        /\ EnterDestructor(t, o)

(* connect_extended ends with the destructors of two slots that have copies  *)
(* of the slot function, a connect that throws with that of the new body;    *)
(* set_combiner assigns to the combiner, or drops the state it was in.       *)
DestroyLocal(t) ==
    /\ Running(t, "locked")
    /\ op[t] \in {"connect", "set_combiner"}
    /\ dtor' = [dtor EXCEPT ![t] = Local]
    /\ UNCHANGED <<mutex, body, owned, destroyed, op, at, pc, todo, temp, kept, active, calling,
                   garbage>>

(* Mutant: the new active slot is not counted. *)
set_active_slot_uncounted(t, bd, new) ==
    [b \in Bodies |-> IF b = active[t] THEN dec_slot_refcount(bd[b]) ELSE bd[b]]

(* The active slot of t becomes `new', for the bodies bd. *)
set_active_slot(t, bd, new) ==
    [b \in Bodies |->
        LET r == IF b = active[t] THEN dec_slot_refcount(bd[b]) ELSE bd[b]
        IN  IF b = new THEN inc_slot_refcount(r) ELSE r]

(* The rest of the critical section, and unlock.  Whether a slot is the one  *)
(* to disconnect is for the program's operator == to say.                    *)
Unlock(t) ==
    /\ Running(t, "locked")
    /\ todo[t] = << >>
    /\ \/ /\ op[t] \in {"disconnect", "disconnect_slot"}
          /\ body' = [body EXCEPT ![at[t]] = nolock_disconnect(@)]
          /\ UNCHANGED <<active, calling>>
       \/ /\ op[t] = "next" /\ body[at[t]].connected
          /\ body' = set_active_slot(t, body, at[t])
          /\ active' = [active EXCEPT ![t] = at[t]]
          /\ calling' = [calling EXCEPT ![t] = at[t]]
       \/ /\ op[t] = "end"
          /\ body' = set_active_slot(t, body, None)
          /\ active' = [active EXCEPT ![t] = None]
          /\ UNCHANGED calling
       \/ /\ op[t] \in {"connected", "connect", "disconnect_slot", "set_combiner"}
              \/ (op[t] = "next" /\ ~body[at[t]].connected)
          /\ UNCHANGED <<body, active, calling>>
    /\ Trash(t)
    /\ mutex' = None
    /\ pc' = [pc EXCEPT ![t] = "unlocked"]
    /\ UNCHANGED <<owned, destroyed, op, at, todo, temp, kept, dtor>>

(* Mutant: the locked pointers are a local variable of lock_next_callable.  *)
EmptyGarbageAndPtrs(t) ==
    \/ \E o \in kept[t] :
          /\ Running(t, "unlocked") /\ op[t] = "next"
          /\ kept' = [kept EXCEPT ![t] = @ \ {o}]
          /\ UNCHANGED <<mutex, body, owned, op, at, pc, todo, temp, active, calling, garbage>>
          /\ EnterDestructor(t, o)
    \/ /\ Running(t, "unlocked")
       /\ op[t] = "next" => kept[t] = {}
       /\ garbage' = [garbage EXCEPT ![t] = {}]
       /\ destroyed' = destroyed \cup garbage[t]
       /\ pc' = [pc EXCEPT ![t] = IF op[t] = "end" THEN "clear" ELSE "idle"]
       /\ UNCHANGED <<mutex, body, owned, op, at, todo, temp, kept, active, calling, dtor>>

(* ~garbage_collecting_lock destroys the garbage after the lock. *)
EmptyGarbage(t) ==
    \/ \E b \in garbage[t] :
          /\ Running(t, "unlocked")
          /\ garbage' = [garbage EXCEPT ![t] = @ \ {b}]
          /\ dtor' = [dtor EXCEPT ![t] = b]
          /\ destroyed' = destroyed \cup {b}
          /\ UNCHANGED <<mutex, body, owned, op, at, pc, todo, temp, kept, active, calling>>
    \/ /\ Running(t, "unlocked")
       /\ garbage[t] = {}
       /\ pc' = [pc EXCEPT ![t] = IF op[t] = "end" THEN "clear" ELSE "idle"]
       /\ UNCHANGED <<mutex, body, owned, destroyed, op, at, todo, temp, kept, active, calling,
                      garbage, dtor>>

(* A destructor returns. *)
Return(t) ==
    /\ dtor[t] # None
    /\ dtor' = [dtor EXCEPT ![t] = None]
    /\ UNCHANGED <<mutex, body, owned, destroyed, op, at, pc, todo, temp, kept, active, calling, garbage>>

(* The program, or a slot it runs, drops a shared_ptr to an object. *)
DropOwned(t, o) ==
    /\ Running(t, "idle")
    /\ t \in owned[o]
    /\ owned' = [owned EXCEPT ![o] = @ \ {t}]
    /\ UNCHANGED <<mutex, body, op, at, pc, todo, temp, kept, active, calling, garbage>>
    /\ EnterDestructor(t, o)

-----------------------------------------------------------------------------
Kinds == {"disconnect", "connected", "disconnect_slot", "connect", "set_combiner", "next", "end"}

Next ==
    \E t \in Threads :
        \/ \E kind \in Kinds, b \in Bodies : Begin(t, kind, b)
        \/ Clear(t) \/ Lock(t) \/ LockObject(t) \/ DropTemp(t) \/ DestroyLocal(t)
        \/ Unlock(t) \/ EmptyGarbage(t) \/ Return(t)
        \/ \E o \in Objs : DropOwned(t, o)

Spec == Init /\ [][Next]_vars
-----------------------------------------------------------------------------
(* Properties. *)

(* No thread that holds the signal's mutex runs the destructor of a slot or, *)
(* when it disconnects, invokes or connects, that of a tracked object: these *)
(* could lock it again.  What the code does run there: the destructor of an  *)
(* object in connected() and disconnect(slot), whose temporary reference may *)
(* be the last; and those of what connect, connect_extended and set_combiner *)
(* have copied.                                                              *)
DestructorsRunUnlocked ==
    \A t \in Threads :
        dtor[t] # None /\ mutex = t =>
            \/ op[t] \in {"connected", "disconnect_slot"} /\ dtor[t] \in Objs
            \/ op[t] \in {"connect", "set_combiner"} /\ dtor[t] = Local

(* A slot is in its body, in the garbage of one thread, or destroyed, and    *)
(* only in one of them: it is destroyed once, and after nobody uses it.      *)
SlotsDestroyedOnce ==
    \A b \in Bodies :
        LET places == {t \in Threads : b \in garbage[t]}
        IN  /\ Cardinality(places) + (IF body[b].slot THEN 1 ELSE 0)
                  + (IF b \in destroyed THEN 1 ELSE 0) = 1
            /\ b \in destroyed => \A t \in Threads : active[t] # b

(* While a slot runs, neither it nor an object that it tracks is destroyed,  *)
(* nor is the slot in anyone's garbage: not when it disconnects itself or is *)
(* disconnected by others, not when the program drops its own references,    *)
(* and not by what the slot calls itself.                                    *)
SlotOutlivesCall ==
    \A t \in Threads : calling[t] # None =>
        /\ calling[t] \notin destroyed
        /\ \A u \in Threads : calling[t] \notin garbage[u]
        /\ \A i \in DOMAIN Tracked[calling[t]] : Tracked[calling[t]][i] \notin destroyed
=============================================================================
