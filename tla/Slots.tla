-------------------------------- MODULE Slots ---------------------------------
(* Slots on their own: what a slot tracks (detail/slot_template.hpp,         *)
(* slot_base.hpp, detail/tracked_objects_visitor.hpp), the trackable base    *)
(* class (trackable.hpp), pointers of other libraries                        *)
(* (detail/foreign_ptr.hpp) and slot::operator(), which locks what the slot  *)
(* tracks while it runs.                                                     *)
(*                                                                           *)
(* The objects and the program's pointers to them are those of Deconstruct,  *)
(* and the slots' weak_ptrs are the ones that keep an object's deleter.      *)
(* Other threads make and drop pointers between any two steps of a call.     *)
EXTENDS Deconstruct, Sequences, SequencesExt

CONSTANTS
    Slots, Callers, \* slots, and threads that call them
    Trackables,     \* objects of classes derived from trackable
    Tokens,         \* control blocks of their _tracked_ptr
    MaxTracked      \* bound: entries of the slots' _tracked_objects together

Cells == Callers \X (0..MaxTracked)
Pointers == Handles \ Cells

ASSUME SlotsAssumption ==
    /\ Cells \subseteq Handles /\ Tokens \subseteq Nat /\ MaxTracked \in Nat
    /\ IsFiniteSet(Slots)
    /\ None \notin Trackables /\ None \notin Slots /\ None \notin Tokens

VARIABLES
    slot,       \* _tracked_objects of each slot, or None
    token,      \* _tracked_ptr of each trackable, or None
    call        \* the call of a slot each thread makes, or None

slotVars == <<slot, token, call>>
allVars == <<vars, slotVars>>

(* A weak_ptr to an object, boost's or another library's; one that is empty  *)
(* has None for the object.  That of a trackable refers to a token; `of' is  *)
(* history: the trackable, until it is destroyed.                            *)
Entry == [kind : {"weak", "foreign"}, to : Objs \cup {None}]
            \cup [kind : {"trackable"}, to : Tokens, of : Trackables \cup {None}]

(* A call: of which slot, and how far its lock() is. *)
Call == [slot : Slots, at : Nat \ {0}, step : {"lock", "push", "running"}]

ASSUME NoneAssumption == None \notin Seq(Entry) /\ None \notin Call

Weak(o) == [kind |-> "weak", to |-> o]
Foreign(o) == [kind |-> "foreign", to |-> o]

SlotsInit ==
    /\ Init
    /\ slot = [s \in Slots |-> None]
    /\ token = [t \in Trackables |-> None]
    /\ call = [c \in Callers |-> None]

-----------------------------------------------------------------------------
(* slot_base: what a slot tracks. *)

Entries == UNION {ToSet(slot[s]) : s \in {r \in Slots : slot[r] # None}}

expired(e) ==
    IF e.kind = "trackable" THEN \A t \in Trackables : token[t] # e.to
    ELSE e.to = None \/ Owners(e.to, invoker, handle) = {}

ObjectsOf(sl) ==
    {e.to : e \in {d \in UNION {ToSet(sl[s]) : s \in {r \in Slots : sl[r] # None}} :
                      d.kind # "trackable"}} \ {None}

SetSlots(sl) ==
    /\ Cardinality(UNION {{s} \X DOMAIN sl[s] : s \in {r \in Slots : sl[r] # None}})
          <= MaxTracked
    /\ slot' = sl
    /\ SetWatched(ObjectsOf(sl))
    /\ UNCHANGED <<invoker, handle, token, call>>

(* Nobody calls the slot, which the program is to see to. *)
Quiet(s) == \A c \in Callers : call[c] # None => call[c].slot # s

(* tracked_objects_visitor: what an argument bound to the slot function      *)
(* adds.  A signal is tracked by lock_pimpl, which is null in one that has   *)
(* been moved from; null pointers, function pointers and other arguments     *)
(* add nothing.                                                              *)
Arguments ==
    [is : {"other"}] \cup [is : {"moved_signal"}]
        \cup [is : {"signal"}, h : {h \in Pointers : handle[h] # None}]
        \cup [is : {"trackable"}, t : {t \in Trackables : token[t] # None}]

tracked_objects_visitor(a) ==
    CASE a.is = "signal" -> <<Weak(handle[a.h])>>
      [] a.is = "moved_signal" -> <<Weak(None)>>
      [] a.is = "trackable" -> <<[kind |-> "trackable", to |-> token[a.t], of |-> a.t]>>
      [] a.is = "other" -> << >>

init_slot_function(s, a) ==
    /\ slot[s] = None
    /\ SetSlots([slot EXCEPT ![s] = tracked_objects_visitor(a)])

track_entries(s, list) ==
    /\ slot[s] # None /\ Quiet(s)
    /\ SetSlots([slot EXCEPT ![s] = @ \o list])

track(s, h) == handle[h] # None /\ track_entries(s, <<Weak(handle[h])>>)
track_foreign(s, h) == handle[h] # None /\ track_entries(s, <<Foreign(handle[h])>>)
track_slot(s, r) == slot[r] # None /\ track_entries(s, slot[r])

(* The copy constructor, with which connect puts a slot into a signal. *)
CopySlot(s, r) == slot[s] = None /\ slot[r] # None /\ SetSlots([slot EXCEPT ![s] = slot[r]])

DestroySlot(s) == slot[s] # None /\ Quiet(s) /\ SetSlots([slot EXCEPT ![s] = None])

-----------------------------------------------------------------------------
(* trackable *)

Unused == Tokens \ ({token[t] : t \in Trackables} \cup
                       {e.to : e \in {d \in Entries : d.kind = "trackable"}})

SetToken(t, k) ==
    /\ token' = [token EXCEPT ![t] = k]
    /\ UNCHANGED <<vars, slot, call>>

(* The default constructor makes a new token. *)
trackable(t) == token[t] = None /\ Unused # {} /\ SetToken(t, CHOOSE k \in Unused : TRUE)

(* Mutant: the copy constructor of the compiler. *)
trackable_copy_member(t, u) == token[t] = None /\ token[u] # None /\ SetToken(t, token[u])

(* So does the copy constructor, *)
trackable_copy(t, u) == token[u] # None /\ trackable(t)

(* Mutant: the assignment of the compiler. *)
assign_member(t, u) == token[t] # None /\ token[u] # None /\ SetToken(t, token[u])

(* and an assignment leaves the object the token it has. *)
assign(t, u) == token[t] # None /\ token[u] # None /\ UNCHANGED allVars

Gone(e, t) ==
    IF e.kind = "trackable" /\ e.of = t THEN [e EXCEPT !.of = None] ELSE e

DestroyTrackable(t) ==
    /\ token[t] # None
    /\ token' = [token EXCEPT ![t] = None]
    /\ slot' = [s \in Slots |-> IF slot[s] = None THEN None
                                ELSE [i \in DOMAIN slot[s] |-> Gone(slot[s][i], t)]]
    /\ UNCHANGED <<vars, call>>

-----------------------------------------------------------------------------
(* slot::operator(): lock() and the slot function.  Cell 0 of a thread is    *)
(* the temporary that lock_weak_ptr_visitor returns, the others are the      *)
(* elements of locked_objects.                                               *)

CellsOf(c) == {c} \X (0..MaxTracked)

(* Mutant: the destructor of a foreign pointer does not delete its copy. *)
ReleaseLeaking(c) ==
    LET list == slot[call[c].slot]
        kept == {<<c, i>> : i \in {j \in DOMAIN list : list[j].kind = "foreign"}}
    IN  /\ SetHandles([h \in Handles |-> IF h \in CellsOf(c) \ kept THEN None ELSE handle[h]])
        /\ call' = [call EXCEPT ![c] = None]

Release(c) ==
    /\ SetHandles([h \in Handles |-> IF h \in CellsOf(c) THEN None ELSE handle[h]])
    /\ call' = [call EXCEPT ![c] = None]

Enter(c, s) ==
    /\ call[c] = None /\ slot[s] # None
    /\ call' = [call EXCEPT ![c] =
                   [slot |-> s, at |-> 1,
                    step |-> IF slot[s] = << >> THEN "running" ELSE "lock"]]
    /\ UNCHANGED <<vars, slot, token>>

At(c, step) == call[c] # None /\ call[c].step = step
Current(c) == slot[call[c].slot][call[c].at]

(* Mutant: a foreign pointer is copied without a clone, so that the          *)
(* temporary deletes what the element points at.                             *)
shared_ptr_shallow(e, o) == IF e.kind = "foreign" THEN None ELSE o

(* Copying a void_shared_ptr_variant: a foreign pointer is cloned. *)
shared_ptr_copy(e, o) == o

lock_weak_ptr_visitor(e) == IF e.kind = "trackable" \/ expired(e) THEN None ELSE e.to

Locked(c) ==
    /\ handle' = [handle EXCEPT ![<<c, 0>>] = lock_weak_ptr_visitor(Current(c))]
    /\ call' = [call EXCEPT ![c].step = "push"]
    /\ UNCHANGED obj

Pushed(c) ==
    /\ SetHandles([handle EXCEPT ![<<c, 0>>] = None,
                      ![<<c, call[c].at>>] = shared_ptr_copy(Current(c), handle[<<c, 0>>])])
    /\ call' = [call EXCEPT ![c] =
                   IF @.at = Len(slot[@.slot]) THEN [@ EXCEPT !.step = "running"]
                   ELSE [slot |-> @.slot, at |-> @.at + 1, step |-> "lock"]]

(* Mutant: an entry is checked before it is locked. *)
lock_checking_first(c) ==
    /\ \/ At(c, "lock") /\ expired(Current(c)) /\ Release(c)
       \/ /\ At(c, "lock") /\ ~expired(Current(c))
          /\ call' = [call EXCEPT ![c].step = "push"]
          /\ UNCHANGED <<obj, handle>>
       \/ /\ At(c, "push")
          /\ SetHandles([handle EXCEPT ![<<c, call[c].at>>] = lock_weak_ptr_visitor(Current(c))])
          /\ call' = [call EXCEPT ![c] =
                   IF @.at = Len(slot[@.slot]) THEN [@ EXCEPT !.step = "running"]
                   ELSE [slot |-> @.slot, at |-> @.at + 1, step |-> "lock"]]
    /\ UNCHANGED <<invoker, watched, slot, token>>

(* One entry: a temporary is locked; it is copied to the end of the vector   *)
(* and destroyed, and expired_slot is thrown if the entry has expired, which *)
(* releases what has been locked.                                            *)
lock(c) ==
    /\ \/ At(c, "lock") /\ Locked(c)
       \/ At(c, "push") /\ ~expired(Current(c)) /\ Pushed(c)
       \/ At(c, "push") /\ expired(Current(c)) /\ Release(c)
    /\ UNCHANGED <<invoker, watched, slot, token>>

(* The slot function returns or throws. *)
Return(c) ==
    /\ At(c, "running")
    /\ Release(c)
    /\ UNCHANGED <<invoker, watched, slot, token>>

SlotsNext ==
    \/ Program(Pointers) /\ UNCHANGED slotVars
    \/ \E s \in Slots :
          \/ \E a \in Arguments : init_slot_function(s, a)
          \/ \E h \in Pointers : track(s, h) \/ track_foreign(s, h)
          \/ \E r \in Slots : track_slot(s, r) \/ CopySlot(s, r)
          \/ DestroySlot(s)
    \/ \E t \in Trackables :
          \/ trackable(t) \/ DestroyTrackable(t)
          \/ \E u \in Trackables : trackable_copy(t, u) \/ assign(t, u)
    \/ \E c \in Callers :
          \/ \E s \in Slots : Enter(c, s)
          \/ lock(c) \/ Return(c)

SlotsSpec == SlotsInit /\ [][SlotsNext]_allVars
-----------------------------------------------------------------------------
(* Properties. *)

(* Values have their types; the weak_ptrs that keep deleters are those of    *)
(* the slots; a thread whose call of a slot has ended, also by expired_slot  *)
(* from the middle of lock(), keeps no object locked.                        *)
SlotsTypeOK ==
    /\ TypeOK
    /\ \A s \in Slots : slot[s] # None => ToSet(slot[s]) \subseteq Entry
    /\ token \in [Trackables -> Tokens \cup {None}]
    /\ watched = ObjectsOf(slot)
    /\ \A c \in Callers : call[c] = None => \A k \in CellsOf(c) : handle[k] = None

(* Whenever other threads drop their pointers, between any two steps of      *)
(* slot::operator(): while the slot function runs, every object it tracks by *)
(* a shared_ptr, boost's or another library's, is alive; with one that had   *)
(* expired it is not run.                                                    *)
TrackedAliveWhileRunning ==
    \A c \in Callers : At(c, "running") =>
        \A e \in ToSet(slot[call[c].slot]) :
            e.kind # "trackable" => e.to # None /\ obj[e.to].alive

(* However trackables are copied and assigned to each other, a slot and its  *)
(* copies expire when the very object that was bound to it is destroyed, and *)
(* not before.                                                               *)
TrackableExpiresWithObject ==
    \A e \in Entries : e.kind = "trackable" => (expired(e) <=> e.of = None)
=============================================================================
