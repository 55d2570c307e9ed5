-------------------------------- MODULE Signal --------------------------------
(* The core of a signal: signal_impl (detail/signal_template.hpp), the       *)
(* connection bodies it shares with connections (connection.hpp) and the     *)
(* iterator that calls the slots (detail/slot_call_iterator.hpp).            *)
(*                                                                           *)
(* A critical section under the signal's mutex is one action: connection     *)
(* bodies lock the same mutex, and nothing under it waits.  What a thread    *)
(* does between two critical sections on its own copies is joined to one of  *)
(* them.  A call of the signal that takes several critical sections is run   *)
(* by a process, which stands for a thread or for a call made from inside a  *)
(* slot: the mutex is not held while a slot runs.                            *)
(*                                                                           *)
(* Memory is shared by reference counts.  An invocation_state is a pair of a *)
(* list and a combiner, and every state the code makes has at least one of   *)
(* the two new, so a state is identified by the pair; _shared_state is       *)
(* unique when no process holds it.  A list or combiner that no state refers *)
(* to is free, and a connection body in no list is free; both are reused.    *)
EXTENDS SlotOrder

CONSTANTS
    Procs,          \* calls of the signal that may be under way at once
    Bodies,         \* connection bodies
    KeyOf,          \* the group key a body is connected with
    Objs, Tracked,  \* objects, and those the slot of each body tracks
    Functions, FunctionOf,  \* slot functions, and that of each body
    Lists, Combs,   \* memory for slot lists and combiners
    Combiners, DefaultCombiner,     \* combiner values
    None,           \* a null pointer
    Calls           \* the operations the program makes use of

ASSUME SignalAssumption ==
    /\ KeyOf \in [Bodies -> GroupKeys]
    /\ Tracked \in [Bodies -> SUBSET Objs]
    /\ FunctionOf \in [Bodies -> Functions]
    /\ DefaultCombiner \in Combiners
    /\ Lists # {} /\ Combs # {}
    /\ End \notin Bodies /\ None \notin Bodies /\ End # None
    /\ None \notin [list : Lists, comb : Combs]
    /\ IsFiniteSet(Procs)

VARIABLES
    body,       \* connection_body: _connected, m_slot_refcount, m_slot # 0
    blocked,    \* the bodies some shared_connection_block blocks
    owned,      \* the objects the program owns, apart from the locked tracked_ptrs
    lists,      \* the slot lists
    combiners,  \* the combiner objects
    shared,     \* _shared_state
    gcIt,       \* _garbage_collector_it, with the list it points into
    pc,         \* what each process is doing
    local,      \* its local_state
    iter, stop, \* its list iterator and the iterator it stops at
    target,     \* the bodies a walk over the list is about
    active,     \* cache.m_active_slot, the body callable_iter points at
    held,       \* cache.tracked_ptrs
    tally       \* disconnected_slot_count - connected_slot_count; num_slots' count

bodyVars == <<body, blocked, owned>>
listVars == <<lists, combiners, shared, gcIt>>
walkVars == <<iter, stop, target, tally>>
procVars == <<pc, local, walkVars, active, held>>
vars == <<bodyVars, listVars, procVars>>

States == [list : Lists, comb : Combs]

Walks == {"disconnect_all", "disconnect_group", "disconnect_slot", "num_slots", "empty"}
Iterating == {"grab", "calling", "skipping", "end"}
Invoking == Iterating \cup {"janitor", "cache"}

Free == [connected |-> FALSE, refcount |-> 0, slot |-> FALSE]

Init ==
    /\ body = [b \in Bodies |-> Free]
    /\ blocked = {}
    /\ owned = Objs
    /\ lists = [l \in Lists |-> << >>]
    /\ combiners = [c \in Combs |-> DefaultCombiner]
    /\ shared \in {[list |-> CHOOSE l \in Lists : TRUE, comb |-> CHOOSE c \in Combs : TRUE]}
    /\ gcIt = [list |-> shared.list, node |-> End]
    /\ pc = [p \in Procs |-> "idle"]
    /\ local = [p \in Procs |-> None]
    /\ iter = [p \in Procs |-> End]
    /\ stop = [p \in Procs |-> End]
    /\ target = [p \in Procs |-> {}]
    /\ active = [p \in Procs |-> None]
    /\ held = [p \in Procs |-> {}]
    /\ tally = [p \in Procs |-> 0]

-----------------------------------------------------------------------------
(* Connection bodies. *)

NewBody == [connected |-> TRUE, refcount |-> 1, slot |-> TRUE]

inc_slot_refcount(r) == [r EXCEPT !.refcount = @ + 1]

(* release_slot with the last reference: the slot is destroyed after unlock. *)
dec_slot_refcount(r) ==
    [connected |-> r.connected, refcount |-> r.refcount - 1,
     slot |-> r.slot /\ r.refcount # 1]

(* Mutant: the check for _connected is forgotten. *)
nolock_disconnect_unchecked(r) == dec_slot_refcount([r EXCEPT !.connected = FALSE])

nolock_disconnect(r) ==
    IF r.connected THEN dec_slot_refcount([r EXCEPT !.connected = FALSE]) ELSE r

Alive(o) == o \in owned \/ \E p \in Procs : o \in held[p]

(* slot().expired(), for a body that still has its slot. *)
Expired(b) == body[b].slot /\ \E o \in Tracked[b] : ~Alive(o)

(* disconnect_expired_slot and the effect of nolock_grab_tracked_objects. *)
disconnect_expired_slot(b) ==
    IF Expired(b) THEN nolock_disconnect(body[b]) ELSE body[b]

(* Mutant: the previous active slot keeps its count. *)
set_active_slot_keeping_old(bd, old, new) ==
    [b \in Bodies |-> IF b = new THEN inc_slot_refcount(bd[b]) ELSE bd[b]]

(* cache.set_active_slot(new), applied to the bodies bd. *)
set_active_slot(bd, old, new) ==
    [b \in Bodies |->
        LET r == IF b = old THEN dec_slot_refcount(bd[b]) ELSE bd[b]
        IN  IF b = new THEN inc_slot_refcount(r) ELSE r]

-----------------------------------------------------------------------------
(* Slot lists and their garbage collection. *)

(* Mutant: off by one in the use count. *)
UniqueUpToOneReader == Cardinality({p \in Procs : local[p] = shared}) <= 1

Unique == \A p \in Procs : local[p] # shared

UsedStates == {shared} \cup {local[p] : p \in {q \in Procs : local[q] # None}}
FreeLists == Lists \ {s.list : s \in UsedStates}
FreeCombs == Combs \ {s.comb : s \in UsedStates}

(* The nodes that nolock_cleanup_connections_from looks at: `count' nodes    *)
(* from the iterator `from', or all the rest when count is 0; and the        *)
(* iterator it ends at.                                                      *)
SweepEnd(list, from, count) ==
    LET i == Index(list, from)
    IN  IF count = 0 \/ i + count > Len(list) + 1 THEN Len(list) + 1 ELSE i + count

Swept(list, from, count) ==
    {list[i] : i \in Index(list, from)..SweepEnd(list, from, count) - 1}

(* nolock_cleanup_connections_from: what becomes of the bodies when each     *)
(* swept one is checked for expired tracked objects (grab_tracked), and of   *)
(* the list when the disconnected ones are erased from it.                   *)
CleanedBodies(list, from, count) ==
    [b \in Bodies |->
        IF b \in Swept(list, from, count) THEN disconnect_expired_slot(b) ELSE body[b]]

CleanedList(list, from, count, bd) ==
    Without(list, {b \in Swept(list, from, count) : ~bd[b].connected})

(* Mutant: _garbage_collector_it is left at the node the sweep began with. *)
GcItStale(l, list, from, count) == [list |-> l, node |-> from]

GcItAfter(l, list, from, count) ==
    [list |-> l, node |-> NodeAt(list, SweepEnd(list, from, count))]

(* nolock_cleanup_connections starts at the garbage collection iterator. *)
SweepStart == IF gcIt.node = End THEN Begin(lists[shared.list]) ELSE gcIt.node

-----------------------------------------------------------------------------
(* connect: the list is made unique and swept (nolock_force_unique_...), and *)
(* a new body enters it.                                                     *)
Connect(b, position) ==
    LET list  == lists[shared.list]
        from  == IF Unique THEN SweepStart ELSE Begin(list)
        count == IF Unique THEN 2 ELSE 0
        l     == IF Unique THEN shared.list ELSE CHOOSE f \in FreeLists : TRUE
        bd    == CleanedBodies(list, from, count)
        kept  == CleanedList(list, from, count, bd)
    IN  /\ "connect" \in Calls
        /\ Unique \/ FreeLists # {}
        /\ b \notin ToSet(kept)
        /\ \A m \in Lists \ {l} : b \notin ToSet(lists[m])
        /\ body' = [bd EXCEPT ![b] = NewBody]
        /\ blocked' = blocked \ {b}
        /\ lists' = [lists EXCEPT ![l] = Inserted(kept, KeyOf, b, position)]
        /\ shared' = [shared EXCEPT !.list = l]
        /\ gcIt' = GcItAfter(l, list, from, count)
        /\ UNCHANGED <<owned, combiners, procVars>>

(* connection::disconnect, connection::connected: any thread, any time, as   *)
(* long as the body exists.                                                  *)
Exists(b) == \E l \in Lists : b \in ToSet(lists[l])

Disconnect(b) ==
    /\ "disconnect" \in Calls
    /\ Exists(b)
    /\ body' = [body EXCEPT ![b] = nolock_disconnect(@)]
    /\ UNCHANGED <<blocked, owned, listVars, procVars>>

Connected(b) ==
    /\ Exists(b)
    /\ body' = [body EXCEPT ![b] = disconnect_expired_slot(b)]
    /\ UNCHANGED <<blocked, owned, listVars, procVars>>

(* shared_connection_block::block and unblock. *)
Block(b) ==
    /\ "block" \in Calls
    /\ Exists(b)
    /\ blocked' = blocked \cup {b}
    /\ UNCHANGED <<body, owned, listVars, procVars>>

Unblock(b) ==
    /\ b \in blocked
    /\ blocked' = blocked \ {b}
    /\ UNCHANGED <<body, owned, listVars, procVars>>

(* The program drops its last shared_ptr to an object. *)
DropObject(o) ==
    /\ o \in owned
    /\ owned' = owned \ {o}
    /\ UNCHANGED <<body, blocked, listVars, procVars>>

(* Mutant: the new state starts with an empty list of its own. *)
SetCombinerEmptyList(c) ==
    /\ c # combiners[shared.comb]
    /\ \E f \in FreeCombs, l \in FreeLists :
          /\ combiners' = [combiners EXCEPT ![f] = c]
          /\ shared' = [list |-> l, comb |-> f]
          /\ gcIt' = [list |-> l, node |-> End]
    /\ UNCHANGED <<bodyVars, lists, procVars>>

(* set_combiner *)
SetCombiner(c) ==
    /\ c # combiners[shared.comb]
    /\ \/ /\ Unique
          /\ combiners' = [combiners EXCEPT ![shared.comb] = c]
          /\ UNCHANGED shared
       \/ /\ ~Unique
          /\ \E f \in FreeCombs :
                /\ combiners' = [combiners EXCEPT ![f] = c]
                /\ shared' = [shared EXCEPT !.comb = f]
    /\ UNCHANGED <<bodyVars, lists, gcIt, procVars>>

-----------------------------------------------------------------------------
(* operator(): clean up one connection if that is safe, take the state. *)
Invoke(p) ==
    LET list == lists[shared.list]
        kept == IF Unique THEN CleanedList(list, SweepStart, 1, body) ELSE list
    IN  /\ pc[p] = "idle"
        /\ "invoke" \in Calls
        /\ lists' = [lists EXCEPT ![shared.list] = kept]
        /\ gcIt' = IF Unique THEN GcItAfter(shared.list, list, SweepStart, 1) ELSE gcIt
        /\ pc' = [pc EXCEPT ![p] = IF kept = << >> THEN "end" ELSE "grab"]
        /\ local' = [local EXCEPT ![p] = shared]
        /\ iter' = [iter EXCEPT ![p] = Begin(kept)]
        /\ UNCHANGED <<bodyVars, combiners, shared, stop, target, tally, active, held>>

(* Mutant: the tracked objects are looked at but not kept. *)
GrabbedNothing(b) == {{}}

(* The tracked objects nolock_grab_tracked_objects may lock: all of them, or *)
(* those tracked before the first expired one.                               *)
Grabbed(b) ==
    IF ~body[b].slot THEN {{}}
    ELSE IF Expired(b) THEN SUBSET {o \in Tracked[b] : Alive(o)}
    ELSE {Tracked[b]}

(* Mutants: half of nolock_nograb_blocked. *)
CallableUnlessBlocked(b, r) == b \notin blocked
CallableIfConnected(b, r) == r.connected

(* nolock_nograb_blocked() == false, for a body whose record has become r. *)
Callable(b, r) == r.connected /\ b \notin blocked

(* The critical section of lock_next_callable. *)
Grab(p) ==
    \E b \in Bodies :
        LET r  == disconnect_expired_slot(b)
            bd == [body EXCEPT ![b] = r]
        IN  /\ pc[p] = "grab" /\ iter[p] = b
            /\ \E objs \in Grabbed(b) : held' = [held EXCEPT ![p] = objs]
            /\ tally' = [tally EXCEPT ![p] = IF r.connected THEN @ - 1 ELSE @ + 1]
            /\ IF Callable(b, r)
               THEN /\ body' = set_active_slot(bd, active[p], b)
                    /\ active' = [active EXCEPT ![p] = b]
                    /\ pc' = [pc EXCEPT ![p] = "calling"]
               ELSE /\ body' = bd
                    /\ pc' = [pc EXCEPT ![p] = "skipping"]
                    /\ UNCHANGED active
            /\ UNCHANGED <<blocked, owned, listVars, local, iter, stop, target>>

(* The combiner has the iterator: it may dereference it, which runs the slot *)
(* without the mutex.  The slot throws expired_slot; whether the combiner    *)
(* swallows the exception or not, the slot is disconnected.                  *)
SlotExpires(p) ==
    \E b \in Bodies :
        /\ "expired_slot" \in Calls
        /\ pc[p] = "calling" /\ iter[p] = b
        /\ body' = [body EXCEPT ![b] = nolock_disconnect(@)]
        /\ UNCHANGED <<blocked, owned, listVars, procVars>>

(* increment, or the next round of lock_next_callable's loop: between two    *)
(* critical sections, the iterator moves on and, unless it is at the end,    *)
(* the tracked objects of the slot it leaves are released.                   *)
Increment(p) ==
    LET next == Successor(lists[local[p].list], iter[p])
    IN  /\ pc[p] \in {"calling", "skipping"}
        /\ iter' = [iter EXCEPT ![p] = next]
        /\ held' = [held EXCEPT ![p] = IF next = End THEN @ ELSE {}]
        /\ pc' = [pc EXCEPT ![p] = IF next = End THEN "end" ELSE "grab"]
        /\ UNCHANGED <<bodyVars, listVars, local, stop, target, tally, active>>

(* The destructors of operator(): ~invocation_janitor enters its critical    *)
(* section when there were too many disconnected slots, the cache its own    *)
(* when a slot is active.                                                    *)
AfterCombiner(p, slotActive) ==
    IF tally[p] > 0 THEN "janitor" ELSE IF slotActive THEN "cache" ELSE "release"

(* lock_next_callable at the end of the list, where the combiner returns. *)
ReachEnd(p) ==
    /\ pc[p] = "end"
    /\ body' = set_active_slot(body, active[p], None)
    /\ active' = [active EXCEPT ![p] = None]
    /\ pc' = [pc EXCEPT ![p] = AfterCombiner(p, FALSE)]
    /\ tally' = [tally EXCEPT ![p] = 0]
    /\ UNCHANGED <<blocked, owned, listVars, local, iter, stop, target, held>>

(* The combiner has seen enough, or the slot has thrown: the iterators go. *)
StopEarly(p) ==
    /\ pc[p] = "calling"
    /\ iter' = [iter EXCEPT ![p] = End]
    /\ pc' = [pc EXCEPT ![p] = AfterCombiner(p, TRUE)]
    /\ tally' = [tally EXCEPT ![p] = 0]
    /\ UNCHANGED <<bodyVars, listVars, local, stop, target, active, held>>

(* Mutant: the list the invocation has used is cleaned up and becomes the    *)
(* current one, whatever the current one is.                                 *)
JanitorOwnList(p) ==
    LET list == lists[local[p].list]
        l    == CHOOSE f \in FreeLists : TRUE
    IN  /\ pc[p] = "janitor"
        /\ FreeLists # {}
        /\ lists' = [lists EXCEPT ![l] = CleanedList(list, Begin(list), 0, body)]
        /\ shared' = [shared EXCEPT !.list = l]
        /\ gcIt' = GcItAfter(l, list, Begin(list), 0)
        /\ pc' = [pc EXCEPT ![p] = IF active[p] = None THEN "release" ELSE "cache"]
        /\ UNCHANGED <<bodyVars, combiners, local, walkVars, active, held>>

(* force_cleanup_connections *)
Janitor(p) ==
    LET list == lists[shared.list]
        l    == IF Unique THEN shared.list ELSE CHOOSE f \in FreeLists : TRUE
    IN  /\ pc[p] = "janitor"
        /\ IF local[p].list = shared.list
           THEN /\ Unique \/ FreeLists # {}
                /\ lists' = [lists EXCEPT ![l] = CleanedList(list, Begin(list), 0, body)]
                /\ shared' = [shared EXCEPT !.list = l]
                /\ gcIt' = GcItAfter(l, list, Begin(list), 0)
           ELSE UNCHANGED <<lists, shared, gcIt>>
        /\ pc' = [pc EXCEPT ![p] = IF active[p] = None THEN "release" ELSE "cache"]
        /\ UNCHANGED <<bodyVars, combiners, local, walkVars, active, held>>

(* Mutant: the destructor forgets the active slot's count. *)
CacheDtorNoDec(p) ==
    /\ pc[p] = "cache"
    /\ active' = [active EXCEPT ![p] = None]
    /\ pc' = [pc EXCEPT ![p] = "release"]
    /\ UNCHANGED <<bodyVars, listVars, local, walkVars, held>>

(* ~slot_call_iterator_cache *)
CacheDtor(p) ==
    /\ pc[p] = "cache"
    /\ body' = set_active_slot(body, active[p], None)
    /\ active' = [active EXCEPT ![p] = None]
    /\ pc' = [pc EXCEPT ![p] = "release"]
    /\ UNCHANGED <<blocked, owned, listVars, local, walkVars, held>>

(* The call returns: tracked_ptrs and local_state are destroyed, and with    *)
(* the last reference the list and the combiner.                             *)
Release(p) ==
    LET others == {shared} \cup {local[q] : q \in {r \in Procs \ {p} : local[r] # None}}
    IN  /\ pc[p] = "release"
        /\ lists' = [l \in Lists |->
                        IF \E s \in others : s.list = l THEN lists[l] ELSE << >>]
        /\ combiners' = [c \in Combs |->
                        IF \E s \in others : s.comb = c THEN combiners[c] ELSE DefaultCombiner]
        /\ pc' = [pc EXCEPT ![p] = "idle"]
        /\ local' = [local EXCEPT ![p] = None]
        /\ iter' = [iter EXCEPT ![p] = End]
        /\ stop' = [stop EXCEPT ![p] = End]
        /\ target' = [target EXCEPT ![p] = {}]
        /\ held' = [held EXCEPT ![p] = {}]
        /\ tally' = [tally EXCEPT ![p] = 0]
        /\ UNCHANGED <<bodyVars, shared, gcIt, active>>

-----------------------------------------------------------------------------
(* disconnect_all_slots, disconnect(group), disconnect(slot), num_slots,     *)
(* empty: get_readable_state, then one critical section per node.            *)
Walk(p, kind, from, to, bodies) ==
    /\ pc[p] = "idle"
    /\ kind \in Calls
    /\ pc' = [pc EXCEPT ![p] = kind]
    /\ local' = [local EXCEPT ![p] = shared]
    /\ iter' = [iter EXCEPT ![p] = from]
    /\ stop' = [stop EXCEPT ![p] = to]
    /\ target' = [target EXCEPT ![p] = bodies]
    /\ UNCHANGED <<bodyVars, listVars, tally, active, held>>

BeginAll(p, kind) == Walk(p, kind, Begin(lists[shared.list]), End, Bodies)

(* Mutant: the walk stops at the last slot of the group. *)
BeginGroupButLast(p, g) ==
    LET list == lists[shared.list]
        low  == LowerBoundIndex(list, KeyOf, GroupKey(g))
        up   == UpperBoundIndex(list, KeyOf, GroupKey(g))
    IN  Walk(p, "disconnect_group", NodeAt(list, low + 1),
             NodeAt(list, IF up > low THEN up ELSE up + 1),
             {b \in Bodies : WeaklyEquivalent(KeyOf[b], GroupKey(g))})

BeginGroup(p, g) ==
    LET list == lists[shared.list]
    IN  Walk(p, "disconnect_group",
             NodeAt(list, LowerBoundIndex(list, KeyOf, GroupKey(g)) + 1),
             NodeAt(list, UpperBoundIndex(list, KeyOf, GroupKey(g)) + 1),
             {b \in Bodies : WeaklyEquivalent(KeyOf[b], GroupKey(g))})

BeginSlot(p, f) ==
    Walk(p, "disconnect_slot", Begin(lists[shared.list]), End,
         {b \in Bodies : FunctionOf[b] = f})

BeginWalk(p) ==
    \/ \E kind \in {"disconnect_all", "num_slots", "empty"} : BeginAll(p, kind)
    \/ \E g \in Groups : BeginGroup(p, g)
    \/ \E f \in Functions : BeginSlot(p, f)

(* Mutant: num_slots counts those that are not connected. *)
VisitNodeCountingDead(p) ==
    \E b \in Bodies :
        LET looks == pc[p] \in {"num_slots", "empty"}
            r     == IF looks THEN disconnect_expired_slot(b)
                     ELSE IF pc[p] = "disconnect_slot" /\ b \notin target[p] THEN body[b]
                     ELSE nolock_disconnect(body[b])
        IN  /\ pc[p] \in Walks /\ iter[p] = b /\ b # stop[p]
            /\ body' = [body EXCEPT ![b] = r]
            /\ tally' = [tally EXCEPT ![p] = IF looks /\ ~r.connected THEN @ + 1 ELSE @]
            /\ iter' = [iter EXCEPT ![p] = Successor(lists[local[p].list], b)]
            /\ pc' = [pc EXCEPT ![p] = IF @ = "empty" /\ r.connected THEN "release" ELSE @]
            /\ UNCHANGED <<blocked, owned, listVars, local, stop, target, active, held>>

(* Mutant: `continue' at a disconnected node skips the increment too. *)
VisitNodeContinue(p) ==
    \E b \in Bodies :
        LET looks == pc[p] \in {"num_slots", "empty"}
            r     == IF looks THEN disconnect_expired_slot(b)
                     ELSE IF pc[p] = "disconnect_slot" /\ b \notin target[p] THEN body[b]
                     ELSE nolock_disconnect(body[b])
        IN  /\ pc[p] \in Walks /\ iter[p] = b /\ b # stop[p]
            /\ body' = [body EXCEPT ![b] = r]
            /\ tally' = [tally EXCEPT ![p] = IF looks /\ r.connected THEN @ + 1 ELSE @]
            /\ iter' = [iter EXCEPT ![p] = IF body[b].connected
                                           THEN Successor(lists[local[p].list], b) ELSE @]
            /\ pc' = [pc EXCEPT ![p] = IF @ = "empty" /\ r.connected THEN "release" ELSE @]
            /\ UNCHANGED <<blocked, owned, listVars, local, stop, target, active, held>>

(* One node of a walk: connection_body_base::disconnect, or connected(). *)
VisitNode(p) ==
    \E b \in Bodies :
        LET looks == pc[p] \in {"num_slots", "empty"}
            r     == IF looks THEN disconnect_expired_slot(b)
                     ELSE IF pc[p] = "disconnect_slot" /\ b \notin target[p] THEN body[b]
                     ELSE nolock_disconnect(body[b])
        IN  /\ pc[p] \in Walks /\ iter[p] = b /\ b # stop[p]
            /\ body' = [body EXCEPT ![b] = r]
            /\ tally' = [tally EXCEPT ![p] = IF looks /\ r.connected THEN @ + 1 ELSE @]
            /\ iter' = [iter EXCEPT ![p] = Successor(lists[local[p].list], b)]
            /\ pc' = [pc EXCEPT ![p] = IF @ = "empty" /\ r.connected THEN "release" ELSE @]
            /\ UNCHANGED <<blocked, owned, listVars, local, stop, target, active, held>>

EndWalk(p) ==
    /\ pc[p] \in Walks /\ iter[p] = stop[p]
    /\ pc' = [pc EXCEPT ![p] = "release"]
    /\ UNCHANGED <<bodyVars, listVars, local, walkVars, active, held>>

-----------------------------------------------------------------------------
Step(p) ==
    \/ Grab(p) \/ SlotExpires(p) \/ Increment(p) \/ ReachEnd(p) \/ StopEarly(p)
    \/ Janitor(p) \/ CacheDtor(p) \/ Release(p)
    \/ VisitNode(p) \/ EndWalk(p)

Environment ==
    \/ \E b \in Bodies, position \in Positions : Connect(b, position)
    \/ \E b \in Bodies : Disconnect(b) \/ Connected(b) \/ Block(b) \/ Unblock(b)
    \/ \E o \in Objs : DropObject(o)

Next ==
    \/ Environment
    \/ \E p \in Procs : Invoke(p) \/ BeginWalk(p) \/ Step(p)

Spec == Init /\ [][Next]_vars

(* Programs that also call set_combiner: the list may then be modified under *)
(* a reader (combiner_snapshot), and what the others can rely on is lost.    *)
NextSettingCombiner == Next \/ \E c \in Combiners : SetCombiner(c)
SettingCombinerSpec == Init /\ [][NextSettingCombiner]_vars

(* A call that is under way goes on: threads are scheduled, and slots and    *)
(* combiners return.                                                         *)
Fairness == \A p \in Procs : WF_vars(Step(p))
FairSpec == Spec /\ Fairness
-----------------------------------------------------------------------------
(* Properties. *)

(* Pointers point at objects of their kind or are null, and counters that    *)
(* cannot be negative are not.                                               *)
TypeOK ==
    /\ body \in [Bodies -> [connected : BOOLEAN, refcount : Nat, slot : BOOLEAN]]
    /\ blocked \subseteq Bodies
    /\ owned \subseteq Objs
    /\ lists \in [Lists -> Seq(Bodies)]
    /\ combiners \in [Combs -> Combiners]
    /\ shared \in States
    /\ gcIt \in [list : Lists, node : Bodies \cup {End}]
    /\ pc \in [Procs -> Invoking \cup Walks \cup {"idle", "release"}]
    /\ local \in [Procs -> States \cup {None}]
    /\ iter \in [Procs -> Bodies \cup {End}]
    /\ stop \in [Procs -> Bodies \cup {End}]
    /\ target \in [Procs -> SUBSET Bodies]
    /\ active \in [Procs -> Bodies \cup {None}]
    /\ held \in [Procs -> SUBSET Objs]
    /\ tally \in [Procs -> Int]

(* m_slot_refcount counts the connection and the invocations that are at the *)
(* slot, through every interleaving of disconnection, expiry, early return   *)
(* and exception; so inc_slot_refcount and dec_slot_refcount never see 0     *)
(* (their assertions), and the slot is released with the last of them.       *)
Users(b) == {p \in Procs : active[p] = b}

RefcountExact ==
    \A b \in Bodies :
        /\ body[b].refcount = Cardinality(Users(b)) + IF body[b].connected THEN 1 ELSE 0
        /\ body[b].slot <=> body[b].refcount # 0

(* While a slot runs, and until its invocation moves on, it is not destroyed *)
(* whoever disconnects it, and the objects it tracks stay alive.             *)
SlotAliveWhileCalled ==
    \A p \in Procs : pc[p] = "calling" =>
        /\ body[iter[p]].slot
        /\ Tracked[iter[p]] \subseteq held[p]

(* The iterators a thread uses without the mutex point into the list its     *)
(* state holds: nobody erases a node under a reader.  The iterator the       *)
(* collector resumes from points into the current list.                      *)
IteratorsValid ==
    /\ \A p \in Procs : local[p] # None =>
          {iter[p], stop[p]} \subseteq ToSet(lists[local[p].list]) \cup {End}
    /\ \A p \in Procs : active[p] # None => active[p] \in ToSet(lists[local[p].list])
    /\ gcIt.list = shared.list
    /\ gcIt.node \in ToSet(lists[shared.list]) \cup {End}

(* Copying and cleaning up lists loses no connection: a connected slot is in *)
(* the list that the next invocation will take, once, in its place.          *)
NoConnectionLost ==
    LET list == lists[shared.list]
    IN  /\ \A b \in Bodies : body[b].connected => b \in ToSet(list)
        /\ Cardinality(ToSet(list)) = Len(list)
        /\ Sorted(list, KeyOf)

(* Every slot a walk has passed and is about is disconnected, when the walk  *)
(* disconnects all slots, a group or the slots with a function, or has found *)
(* no slot connected (empty); disconnecting a group touches no other slot;   *)
(* a walk at its end has passed every slot of its list that it is about;     *)
(* num_slots has counted at least the slots it has passed that are still     *)
(* connected, and no slot twice.                                             *)
Passed(p) ==
    LET list == lists[local[p].list]
    IN  {list[i] : i \in 1..Index(list, iter[p]) - 1}

WalksKeepTheirWord ==
    \A p \in Procs :
        /\ pc[p] \in Walks \ {"num_slots"} =>
              \A b \in Passed(p) \cap target[p] : ~body[b].connected
        /\ pc[p] \in Walks /\ iter[p] = stop[p] =>
              target[p] \cap ToSet(lists[local[p].list]) \subseteq Passed(p)
        /\ pc[p] = "disconnect_group" => iter[p] = stop[p] \/ iter[p] \in target[p]
        /\ pc[p] = "num_slots" =>
              /\ tally[p] >= Cardinality({b \in Passed(p) : body[b].connected})
              /\ tally[p] <= Cardinality(Passed(p))

(* "a signal invocation already in progress will not see any modifications   *)
(* made to the slot list": the list a thread reads without the mutex does    *)
(* not change while it holds it.                                             *)
SnapshotStable ==
    [][\A p \in Procs : local[p] # None /\ local'[p] = local[p] =>
           lists'[local[p].list] = lists[local[p].list]]_vars

(* Every call of the signal returns, however its list is modified meanwhile. *)
CallsReturn == \A p \in Procs : pc[p] # "idle" ~> pc[p] = "idle"

(* A slot that is disconnected while invocations are at it is destroyed      *)
(* once they have moved on.                                                  *)
DisconnectedSlotReleased ==
    \A b \in Bodies : (body[b].slot /\ ~body[b].connected) ~> ~body[b].slot

(* The signal keeps the promise of Broadcast: lists, copies, reference       *)
(* counts and garbage collection do not show.                                *)
LeftOf(p) ==
    LET list == lists[local[p].list]
        i    == Index(list, iter[p])
    IN  CASE pc[p] = "grab" -> SubSeq(list, i, Len(list))
          [] pc[p] \in {"calling", "skipping"} -> SubSeq(list, i + 1, Len(list))
          [] OTHER -> << >>

Disconnected == {b \in Bodies : ~body[b].connected}

Promised == INSTANCE Broadcast WITH
    order <- Without(lists[shared.list], Disconnected),
    expired <- {b \in Bodies : Expired(b)},
    busy <- {p \in Procs : pc[p] \in Iterating},
    queue <- [p \in Procs |-> Without(LeftOf(p), Disconnected)],
    current <- [p \in Procs |-> IF pc[p] = "calling" THEN iter[p] ELSE None]

KeepsPromise == Promised!Spec
=============================================================================
