# A verification of Boost.Signals2

Boost.Signals2 (`include/boost/signals2/`) is a thread-safe implementation of signals and
slots: a program connects *slots* (functions) to a *signal*, and calling the signal calls
the slots in a defined order, through a *combiner* that turns their results into one. Any
thread may connect, disconnect, block and call at any time, also from inside a slot.

This directory holds TLA+ models of the library's core, TLC configurations that check them
on small instances, and proofs checked by TLAPS.

## 1. Inventory

Paths are relative to `include/boost/signals2/`.

| component | state | operations |
|---|---|---|
| `detail/signal_template.hpp`, `signal_impl` | `_shared_state` (a list and a combiner, both by `shared_ptr`), `_garbage_collector_it`, `_mutex` | `connect`, `connect_extended`, `disconnect_all_slots`, `disconnect(group)`, `disconnect(slot)`, `operator()`, `num_slots`, `empty`, `combiner`, `set_combiner`; inside them `nolock_cleanup_connections(_from)`, `nolock_force_unique_connection_list`, `force_cleanup_connections` |
| `connection.hpp`, `connection_body_base`, `connection_body` | `_connected`, `m_slot_refcount`, `m_slot`, `_weak_blocker`, `_group_key` | `disconnect`, `connected`, `blocked`, `get_blocker`, `disconnect_expired_slot`, `nolock_grab_tracked_objects`, `inc_`/`dec_slot_refcount` |
| `detail/slot_call_iterator.hpp` | `iter`, `callable_iter`, and in the cache `result`, `tracked_ptrs`, `m_active_slot`, two counters | construction, `dereference`, `increment`, destruction of the cache |
| `detail/slot_groups.hpp`, `grouped_list` | a `std::list` and a `std::map` from group keys to list iterators | `push_front`, `push_back`, `erase` (node, group), copy, `clear`, `lower_bound`, `upper_bound` |
| `connection`, `scoped_connection` | a `weak_ptr` to a connection body | copy, move, assign, `release`, `disconnect`, `connected`, destruction |
| `shared_connection_block.hpp` | a `weak_ptr` to a body, a `shared_ptr` blocker | `block`, `unblock`, copy, destruction |
| slots: `slot_base.hpp`, `detail/slot_template.hpp`, `trackable.hpp`, `detail/foreign_ptr.hpp` | the slot function, `_tracked_objects` | `track`, `expired`, `lock` |
| `last_value.hpp`, `optional_last_value.hpp` | none across calls | a loop over the slot call iterators |
| weak signal, signal handles | `_pimpl`, `_weak_pimpl` | move, swap, destruction, a signal as a slot of another |
| `deconstruct.hpp`, `deconstruct_ptr.hpp` | `initialized_`, `_postconstructed` | two-phase construction and destruction of an object |
| `detail/auto_buffer.hpp` | `members_` (the cells within the object), `buffer_`, `capacity_`, `size_` | construction, assignment, `push_back`, `insert`, `erase`, `pop_back(_n)`, `reserve(_precisely)`, `shrink_to_fit`, `swap`, destruction |
| mutexes, argument-type and preprocessor support | - | - |

**How they interact.** A signal owns its state through `_shared_state`; an invocation, or
any other call that walks the list, copies that `shared_ptr` under the mutex and then reads
the list *without* the mutex. A call that modifies the list while someone reads it replaces
`_shared_state` by a copy first. Connection bodies are shared by the lists that contain
them; connections refer to them by `weak_ptr`. All bodies of a signal lock the signal's own
mutex (`connection_body::_mutex` is a reference to it). A slot belongs to its body and
carries a reference count: one for the connection and one for every invocation that is at
it, so that a slot that is disconnected while it runs is destroyed when it has finished.
Disconnected bodies stay in the list until a later connect or invocation collects them.

**What is hard.** Interleavings of critical sections between threads and between a call and
the calls its slots make; state read under the mutex and used after it (the list, the
iterator the collector resumes from, the active slot); memory whose lifetime depends on
reference counts, some in `shared_ptr`s and one counted by hand; exceptions and combiners
that leave a walk half way; tracked objects that die at any moment; growth of the list. The
hazards of each place are listed in `PROJECT.json`.

**What makes each component correct.**

* *connection bodies*: the slot's count is exact, the slot lives while it runs and goes
  when it is disconnected and nobody is at it;
* *signal_impl*: no connection is lost or kept twice by a copy or a cleanup; the list a
  thread reads does not change under it; iterators kept across critical sections are valid;
* *an invocation*: it calls, in group order and once, the slots that were connected when it
  began and, when it reaches them, are connected still and not blocked, however often its combiner looks at
  a result; an extended slot finds its own connection;
* *combiners*: the library's return the value of the last slot that returned, and notice
  when there is none;
* *slots*: what a slot tracks is alive while it runs, whatever other threads drop; a slot
  expires with the very object it was bound to; a call that fails keeps nothing alive;
* *walks* (`disconnect...`, `num_slots`, `empty`): what they have passed is as they say;
* *grouped_list*: the map always names the first node of each group, and the whole behaves
  as a sorted sequence, if the comparison that it was given agrees with the map's about which
  groups are equivalent;
* *the collector*: the list's length is bounded by the number of connected slots, and the
  disconnected ones go at last where the calls now and then leave the list to nobody;
* *handles, blockers*: a `scoped_connection` lets go of a connected slot only to another
  handle; a connection is blocked exactly as long as a block of it holds its blocker;
* *locking discipline*: no slot is destroyed by a thread that holds the mutex, and it is known
  which critical sections may destroy other objects of the program; a slot is destroyed once;
  while it runs, neither it nor what it tracks is;
* *signal objects*: no two own the same `signal_impl`; one that is about to be called as a slot
  of another, or runs as one, is there;
* *deconstruct*: an object is accessible only when it is complete, is postconstructed once,
  and is predestructed once if it was constructed at all;
* *auto_buffer*: a cell is constructed exactly if it is an element; the contents are those of
  a sequence, wherever they are; what throws leaves what its comment says (but see section 4).

## 2. Modules

```
SlotOrder          group keys, their order, and lists as sequences
  SlotOrderProofs      lemmas about the list operators
  OrderedSlots         abstract: a sorted sequence with insertion and erasure
  GroupedList          the list with its group map; refines OrderedSlots
    MCGroupedList
    SlotListProofs     its inductive invariant and the refinement; GarbageCollector's bound
  Broadcast            abstract: what a signal promises
  Signal               signal_impl, connection bodies, slot call iterator; refines Broadcast
    MCSignal
    Emission             results, combiners and extended slots         (MCEmission)
      SignalProofs         the inductive invariants of both; the refinement of Broadcast
GarbageCollector   how long the list can get (proofs in SlotListProofs)
Destructors        which destructors run under the mutex            (MCDestructors)
  DestructorsProofs    its inductive invariant and the theorems
Handles            connection, scoped_connection, blocks            (MCHandles)
  HandlesProofs        its inductive invariant and the theorems
SignalLifetime     who keeps a signal_impl alive                    (MCSignalLifetime)
  SignalLifetimeProofs its inductive invariant and the theorems
Deconstruct        two-phase construction and destruction
  Slots                slots that track such objects; slot::operator()  (MCSlots)
    SlotsProofs          the inductive invariant of both, and the theorems
BufferContents     abstract: buffers are sequences
  AutoBuffer         down to the cells; refines BufferContents       (MCAutoBuffer)
    AutoBufferProofs   its inductive invariant, and the refinement
```

An operator introduced by a comment "Mutant:" is a deliberately wrong version of the one
after it. `PROJECT.json` names, for every property of every run, one that the property
refutes.

### SlotOrder, OrderedSlots, GroupedList

`GroupedList` models `grouped_list` statement by statement: `list` is `_list`, `map` is
`_group_map` as a function from keys to nodes. Its operations return list and map after the
code's own steps (`m_insert` finds the map entry, inserts, updates the entry;
`erase` looks whether the node is the first of its group and whether the next belongs to the
same). `EntersInPlace` says that a new node enters before or after its group and that nothing
else moves. Two groups may be *equivalent* under a `GroupCompare` without being equal,
which the map's `lower_bound` and `insert` must respect.

There are two comparisons. The constructor stores the object that it is given
(`slot_groups.hpp:66-68`), and `m_insert` and the assertions of `erase` ask it which keys are
equivalent: `group_key_compare` and `weakly_equivalent`, from `StoredRank`. The map is
default-constructed, so that its order, and with it the order of the list, is that of a
default-constructed `GroupCompare`: `KeyLess` and `WeaklyEquivalent` of `SlotOrder`, from `Rank`.
The properties need that the two make the same groups equivalent (`SameClasses`), but not
that they order them in the same way; section 4 says what happens else.

`ImplementsOrderedSlots` shows that the map does not show: the list behaves as
`OrderedSlots`, whose operations use the default comparison alone. `Signal` therefore uses the
operators of `SlotOrder` for the list.

A slot is in a list at most once, so a list node is named by its slot.

### Signal, Broadcast

One action of `Signal` is one critical section under the signal's mutex together with what
the thread does on its own copies up to the next one. Connection bodies lock the same mutex,
so nothing interleaves inside. Calls that take several critical sections (invocations, and
the walks of `disconnect...`, `num_slots`, `empty`) are run by a process of `Procs`. A process
stands for a thread or for a call made from inside a slot: the mutex is not held while a
slot runs, so the two interleave in the same way, except that a nested call returns first;
the model allows the other orders too.

| code | model |
|---|---|
| `_connected`, `m_slot_refcount`, `m_slot` | `body[b].connected`, `.refcount`, `.slot` |
| the `invocation_state` a thread holds | `local[p]`, a pair of a list and a combiner in memory |
| `_shared_state`, `.unique()` | `shared`; `Unique`: no process holds it |
| `_garbage_collector_it` | `gcIt`: the list and the node it points to |
| `iter`, `m_active_slot`, `tracked_ptrs` | `iter[p]`, `active[p]`, `held[p]` |
| `disconnected_slot_count - connected_slot_count` | `tally[p]` |
| critical section of `lock_next_callable` for one node | `Grab(p)` |
| the slot runs, the combiner goes on, or stops, or an exception leaves | between `Grab` and `Increment`, `SlotExpires`, `StopEarly` |
| end of the list | `ReachEnd(p)` |
| `~invocation_janitor`, `~slot_call_iterator_cache`, the end of `operator()` | `Janitor(p)`, `CacheDtor(p)`, `Release(p)` |
| a loop over the list | `BeginWalk(p)`, `VisitNode(p)` per node, `EndWalk(p)` |

A combiner is any program: after each dereference it may go on or stop, and it may skip the
dereference. The slot of `SlotExpires` throws `expired_slot`.

Memory for lists, combiners and bodies is finite and reused when no `shared_ptr` refers to
it. A connection that the code no longer needs is thus free for the next `Connect`, which is
what makes a use of a stale pointer visible.

`Broadcast` is the promise of `doc/thread_safety.xml` and `doc/tutorial.xml` without memory:
a sequence of connected slots, and for each invocation the queue of those it has still to
consider. `KeepsPromise` maps `Signal` to it: the queue is what is left of the list that the
invocation holds, without the disconnected slots.

### Emission

`Emission` extends `Signal`: each of its actions is one of `Signal`'s joined with what the combiner
and the iterator keep outside the shared memory. `calling` in `Signal` is the time between two
critical sections of `lock_next_callable`; `Emission` cuts it into the dereferences that happen
there. Meanwhile other threads connect, disconnect, block and unblock slots, ask whether they are
connected, drop tracked objects and set the combiner.

| code | model |
|---|---|
| `slot_call_iterator_cache::result` | `result[p]`: the body whose slot gave it |
| `last_value`, `optional_last_value`: the loop, `value`, `no_slots_error` | `Library`, `tried[p]` and `value[p]`; `outcome[p]` |
| a combiner of the program's own | dereferences as often as it likes, also not at all, and may stop |
| `lock_next_callable` for one node | `Reach(p)`: `Grab(p)`, with a note in `overlooked[p]` if the slot is blocked |
| `bound_extended_slot_function::_connection` | `own[b]` |

`LastValueReturned` is exact about what a library's combiner leaves out: a slot of the list
that is still connected when it comes to the end has returned, or was blocked when the invocation
reached it (`slot_call_iterator.hpp:163`). A slot whose object has died when it is reached is
disconnected there. The combiner type is chosen at the start: it is a template argument. An extended slot
disconnects itself, through the connection that it is passed, which is what such slots are for and
what shows that the connection was there. `Undisturbed` is a condition on the program: it
excludes the calls that modify a list under a reader after `set_combiner`, which is finding
1 of section 4. With them the properties of this module fail for the reason given there, and
with this exclusion they are about everything else.

### GarbageCollector

`Signal` can follow three bodies; how long the list gets needs more. `GarbageCollector` keeps
of a list only the connected flags, the collector's position and whether someone reads it,
so lists of tens of nodes fit. `Connect`, `Invoke` and `ForceCleanup` sweep as the code does.
`reading` is the other half of `_shared_state.unique()`. `DeadNodesCollected` is about a
program that has settled: from some moment on it only calls; and whose calls again and again
leave the list to nobody. The second condition is one on the program. It does not follow from
every call returning: while one of several overlapping calls holds the list, no other
collects in it.

### Destructors

`Signal` has no steps inside a critical section, and so cannot see what happens there while
*other threads* let go of tracked objects without the mutex. `Destructors` cuts the critical
sections into their steps: lock, lock one `weak_ptr` after the other (`LockObject`), drop the
temporary (`DropTemp`), the rest and unlock, and empty the garbage of
`garbage_collecting_lock` (`EmptyGarbage`). An object dies in the step that takes its last
reference, `dtor[t]` is the destructor that thread `t` is in. The list of slots does not
change here.

| code | `op[t]` |
|---|---|
| `connection::disconnect`, and those of a group or of all slots | `disconnect` |
| `connection::connected`, and each body of `num_slots` and `empty` | `connected` |
| `disconnect(slot)`, for each body, with the temporary of `weak_signal::contains` | `disconnect_slot` |
| `connect` and `connect_extended`, with their sweep and their local slots | `connect` |
| `set_combiner` | `set_combiner` |
| `lock_next_callable` for one body, and the end of an invocation | `next`, `end` |

`DestructorsRunUnlocked` says exactly which destructors the code runs in these critical
sections, of which the exceptions are finding 5. `calling[t]` is the slot that the combiner of
`t` runs or may run; `SlotOutlivesCall` is what the counts, `tracked_ptrs` and the garbage are
for: neither this slot nor anything it tracks is destroyed meanwhile. The sweep of `connect` is
modelled by what matters here: a body of the list whose slot has expired is disconnected and
its slot goes to the garbage.

### Handles

Every operation of `connection`, `scoped_connection` and `shared_connection_block` has at
most one critical section and is one action; objects that refer to the same body come from
any thread. `ref` is `_weak_connection_body`, `blocker` is `_blocker`, `weakBlocker` the
body's `_weak_blocker`. Memory for blockers is reused, so that an expired `_weak_blocker`
that happened to be taken for a live one would show. A body leaves the list (`Collect`) at
any time after its disconnection, or with its signal.

### SignalLifetime

Each thread has a stack of `frames`, one for each nested call of `operator()`.

| code | model |
|---|---|
| the call is one of a signal object, or of a `weak_signal` that is a slot | `via` |
| `shared_pimpl` of `weak_signal::operator()` | `strong` |
| the rest of the list the call holds: slots that are signals, others | `todo`, `plain` |
| `tracked_ptrs` of the call's cache | `held` |
| `disconnected_slot_count - connected_slot_count` | `excess` |
| a slot has been locked and counted by `lock_next_callable` (`ReachSlot`) and not yet called (`CallSlot`) | `at` is "grabbed", `next` is its `signal_impl` |

Between `ReachSlot` and `CallSlot` the mutex is free and other threads, or the combiner, may
disconnect that slot, or destroy, move or assign its signal. `weak_signal::operator()` then
locks its own `weak_ptr` and uses the pointer without looking whether it is null
(`signal_template.hpp:820-833`); that it never is follows from what the cache holds, and is
what `NestedCallsAlive` says. `ClearTracked` lets go of it when the next slot is looked for.

A slot that is disconnected stays in the lists, and calls that come to it count it
(`slot_call_iterator.hpp:161`); so does one whose signal is gone. Which disconnected slots a
sweep removes is left open. User code (the program outside all calls, or a slot that is
no signal) may construct, move, swap, destroy, connect and disconnect any signal. As a bound, a
list has at most one slot for each signal.

### Deconstruct

An object is the record of what was done to it. `deconstruct`, its conversions
(`postconstruct`) and `deconstruct_ptr` each end well or with an exception. An object's
deleter is called with its last owner and destroyed with its last `weak_ptr`; both end in
`destroy()`, which must act once. The actions that the program may take on the pointers of a
set `H` are `Program(H)`; `Watch` and `Unwatch`, which stand for any `weak_ptr`, are replaced
by the slots' in the composition that is checked.

### Slots

`Slots` extends `Deconstruct`: the objects that slots track are its objects, the weak
pointers in slots are what keeps their deleters after their last owner is gone.

| code | model |
|---|---|
| `_tracked_objects` | `slot[s]`, a sequence of entries: `weak`, `foreign` or `trackable` |
| `init_slot_function` and `tracked_objects_visitor` | an argument, of each kind that the visitor tells apart, is bound when the slot is made |
| `track`, `track_foreign`, `track(slot)`, copies | `track`, `track_foreign`, `track_slot`, `CopySlot` |
| `trackable::_tracked_ptr` | `token[t]`; a destroyed token may be used again |
| `slot::operator()` | `Enter`, `lock` per entry in two steps, running, `Return` |
| `locked_objects`, and the temporary of `lock_weak_ptr_visitor` | pointers (`Cells`) of the calling thread, in `handle` |

Between the two steps of an entry, and between entries, other threads make and drop
pointers, slots of their own and trackables. A slot that is being called is not modified or
destroyed (`Quiet`), which the program must see to: slots are not synchronized.

### AutoBuffer, BufferContents

A *world* is all memory, cell by cell, and the members of all buffers. The helpers of the code
(`reserve_impl`, `unchecked_push_back`, `pop_back_n`...) map worlds to worlds, so that an
operation that throws after its k-th copy ends in the world that it has reached. A cell
that is misused (constructed twice, read raw, destroyed raw) becomes `Bad`. `outcome` is the
guarantee that the code's comment gives for the way the operation ended ("strong", "basic",
"basic swap"), and `BufferContents` says what each guarantee means for the contents.
`viewed` is what a program sees of a buffer, and the refinement mapping. A buffer whose memory
is null has `size_` elements of which none is there (`Bad`). That there is no
memory is an exception of the operation that asks for it; `Blocks` must only be enough that
a buffer can grow while every other has a block (`HeapAssumption`).

## 3. Runs

| run | instance | what it shows |
|---|---|---|
| `grouped_list` | 4 nodes, 3 groups of which two are equivalent; the stored comparison agrees about that and orders them the other way | the map is exact after every sequence of operations, new nodes enter in place, `OrderedSlots` implemented, so that the list is always sorted |
| `core` | 2 processes, 3 bodies (2 in one group, 1 ungrouped), 3 lists | types, exact counts, valid iterators, no connection lost, stable snapshots, also against `disconnect(group)`, which does what it should |
| `tracking` | 2 processes, 2 bodies of a group, one with a tracked object, blocking | the running slot and its object stay alive; `Broadcast` implemented, with expiry and blocking |
| `liveness` | 2 processes, 2 bodies, one ungrouped | what `disconnect(slot)` and `num_slots` promise while others interfere; every call returns; every disconnected slot is destroyed |
| `emission` | 2 processes, 2 bodies, one extended and one that tracks an object, both kinds of combiner, blocking, `set_combiner` during calls | a slot runs once and in order whatever the combiner does; the library's combiners return the last value, or notice that there is none, and leave out no connected slot but what was blocked; an extended slot finds its connection; no connection lost |
| `combiner_snapshot` | 2 processes, 2 bodies, `set_combiner` and disconnection | expected to fail: the list that an invocation reads is modified, section 4 |
| `growth` | 4 slots connected at once, ungrouped, limit 12 | the list stays within twelve nodes, with any pattern of calls (for every number of slots the bound that is proved is five times their number, section 5); what is disconnected is collected if the program keeps calling and the calls again and again leave the list to nobody |
| `destructors` | 2 threads, 2 slots with 2 and 1 tracked objects, one of them made of a signal, every critical section | destructors run without the mutex, those of finding 5 excepted; a slot is destroyed once; one that runs outlives its call, with what it tracks |
| `handles` | 2 bodies, 1 connection, 2 scoped connections, 3 blocks, memory for 4 blockers | blocked exactly while a block holds, also for connections that are gone; scoped connections hand over or disconnect |
| `lifetime` | 2 threads, 2 calls at a time, 2 signals, 1 plain slot each | one owner; a signal that is about to be called as a slot, or runs as one, is there |
| `slots` | 1 object, 2 invokers, 2 pointers, 2 slots with 2 entries together, 2 trackables, 3 tokens, 1 thread that calls | complete when accessible, postconstructed once, predestructed once, though slots keep the deleter; tracked objects alive while a slot runs; slots expire with their trackable |
| `auto_buffer` | 2 buffers, 2 cells within, 3 elements of 2 values, 3 blocks of memory | cells exact, assertions hold, contents are sequences |

**Bounds.** Two processes are enough for every pairwise race of calls; the environment (connect,
disconnect, block, drop an object) is a third party that acts at any time. Three bodies give a list
with a first, a middle and a last node, two slots of one group, and the case where a body is
collected and its memory reused while an invocation is at another. Three lists are the current one
and one held by each process; a fourth could only be reached with a third process. The operations a
configuration uses are listed in `Calls`, so that each run stays within minutes; `set_combiner` is
in `Emission` and in `SettingCombinerSpec` only. `disconnect_all_slots` and `empty` are the walks of
`disconnect(group)` and `num_slots` over the whole list and up to the first connected slot; the
configurations leave them out, and can be given them for twice the time. In `auto_buffer` a buffer
holds one element more than fits within it, so that each operation happens on either side of that
border and across it; growing takes the capacity to three at least, so that growing again happens
only by `reserve(4)`. Two buffers are all that an operation involves. In `handles` a third block
makes the case that a blocker changes hands twice. `MaxCalls` 2 counts the calls of all threads,
nested or not, and a slot that is about to be called as the call it will be: it lets a signal call a
signal that calls a slot, or two threads call a signal each, while whichever thread runs user code
moves and destroys the signals. In `slots` a second object would only be a second copy of the first,
since entries of different objects do not meet; two entries give a lock that fails after one that
did not, and three tokens the case that a trackable takes the token of one that is gone, with a slot
that still refers to it keeping the token from being reused. One thread calls, the others are the
program around it. In `emission` each process has one invocation at a time and two bodies are enough
for a value to be kept while a later slot throws or has gone; two objects of combiner memory are the
current one and one in use. `MaxChanges` 1 (`MCEmission`) allows one of these at a time: a slot is
blocked, or was when a call that is under way passed it over; an old combiner is in use; the object
has been dropped. Each then meets every state of the calls and of the list, but not each other; the
proofs of section 5 have no such bound. `MaxTracked`, `MaxFailures` and `MaxPost` bound counters
that the code does not have. No other counter needs a bound: `tally` is bounded by the list. In
`growth` the list's length is bounded by what the code does, which is the claim.

**Fairness.** `Liveness` assumes weak fairness of `Step(p)` for each process: a thread in the
middle of a call is scheduled, its slots and its combiner return, and the mutex is released
by whoever has it (the critical sections wait for nothing). Nothing is assumed of the
environment; no call need begin. A combiner that goes on for ever at the last slot is
excluded, since `Step` must lead somewhere; repeated `SlotExpires` is impossible because
the slot is then disconnected.

`CallingSpec` of `GarbageCollector` assumes that the program calls the signal again and again
(`WF(Invoke)`). This is no matter of scheduling: the code collects only when it is called, and the
claim is about programs that call. Nothing is assumed of readers; the
claim itself is about behaviours in which nobody reads the list again and again
(`UnreadAgainAndAgain`), because calls of several threads that overlap without a gap, though
each returns, may keep `_shared_state.unique()` false for ever and the dead nodes in the list.

**Symmetry** is used in the safety runs only. **Deadlock** is checked in every run.

## 4. Where the code and its documentation disagree

The first has a run. Each of the others shows with the change to a configuration that is
given, or follows from reading the definition named.

1. `set_combiner` while a call is in progress (run `combiner_snapshot`). The new
   `invocation_state` shares the list of the old one, so `_shared_state.unique()` is true
   although the call in progress reads the list; a connect or another call then modifies it
   in place. The documentation promises a deep copy. Bodies can then be destroyed while an
   invocation is at them: `RefcountExact` and `IteratorsValid` are claimed, and proved, only
   for programs that do not call `set_combiner`.
2. `connect` while a call is in progress, then `set_combiner`: the new state shares the
   combiner of the old one (`signal_template.hpp:392`), is unique, and `set_combiner` assigns
   to the combiner object that the call runs. `doc/thread_safety.xml:115` says the call "will
   continue to use the old combiner undisturbed". It shows as a step that
   changes `combiners[local[p].comb]`.
3. The collector and groups (`Growth.cfg` with `Grouped = TRUE`, `MaxConnected = 3`, `Limit` 24
   or any other that we tried): connects that always enter just behind a disconnected slot
   make the list grow, contrary to the comment at `signal_template.hpp:486`. For ungrouped
   slots the comment holds.
4. A signal that is destroyed while it is called (`Lifetime.cfg` with `INVARIANT
   JanitorFindsSignal`): `doc/tutorial.xml:492` says that it "will complete its slot call
   sequence". `operator()` holds the list and the combiner but not the `signal_impl`; if the
   call has met more disconnected than connected slots, `~invocation_janitor` locks the mutex
   of the freed `signal_impl`. No run claims `JanitorFindsSignal`, and nothing is proved of it:
   for programs that keep a signal while it is called it would say only that they do.
5. Critical sections that run destructors of the program's objects. `connected()`, and with it
   `num_slots()` and `empty()`, locks tracked objects and keeps no reference
   (`connection.hpp:154, 178`, a null output iterator); `disconnect(slot)` compares with a
   slot that is a signal through a temporary `shared_ptr` (`signal_template.hpp:532-548, 837`).
   If the last other owner lets go in between, the object's destructor runs under
   the signal's mutex and deadlocks when it uses the signal: what
   `test/deadlock_regression_test.cpp` tests for invocations. `connect_extended` destroys its local
   copies of the slot function before it unlocks (179-184, 189-194), a `connect` that throws the
   body that it has made, and `set_combiner` the combiner that it replaces (307-314). The keys of
   groups, and copies of them, are also destroyed under the mutex; they are not modelled.
   `DestructorsRunUnlocked` excepts these by name; without an exception the run fails.
6. `connection::blocked()` of a disconnected connection is false as long as the body is in the
   list, and true after (`connection.hpp:278`); `doc/reference/connection.xml:124` says "true if
   the associated slot is either disconnected or blocked".
7. Assigning to a `scoped_connection` a connection that it already refers to disconnects it
   (`CopyAssign` of `Handles`); `doc/reference/connection.xml:270` speaks of "another connection".
8. Copies of a `postconstructor_invoker` made before the first conversion each run the
   postconstructor (`deconstruct.hpp:192`); `PostconstructedOnce` excepts them.
9. `auto_buffer`, in operations that the library itself does not use (it default constructs,
   appends, clears and destroys): `erase` of an empty range of a full buffer fails the
   assertion at `detail/auto_buffer.hpp:960` (`Calls = {"erase_nothing"}`); `operator=` that
   throws after it has freed the old memory leaves `size_` and `capacity_` with a null pointer
   (516-529), although the comment claims the basic guarantee (496): with
   `Calls = {"assign_throws"}` `ImplementsContents` fails, and the run, like the theorems,
   excludes that case; the copy and range constructors lose their memory if an element
   cannot be copied (`Calls = {"copy_throws"}`); and `insert` in the middle, when there is room,
   copies forwards over the elements it has still to move, so that `BufferContents` promises
   only the length there.
10. A connect that throws. `m_insert` puts the slot into the list before it touches the map
   (`detail/slot_groups.hpp:185`). If the map entry cannot be allocated (197), or the program's
   comparison of groups throws (186-192), connect ends with an exception and the slot stays
   connected; `doc/reference/signal_header.xml:209` claims the strong guarantee, "any exception
   thrown will cause the slot to not be connected". Where the entry of the group has been erased for the
   new first node (188), the whole group is without one afterwards, so that `GroupMapExact` fails and with
   it the assertions at lines 150 and 151 when a slot of the group is collected. It follows from
   `m_insert_map`: take `displaced_map` for the map, which is its value when the insertion throws.
11. A comparison object given to a signal's constructor. `doc/reference/signal_header.xml:138` says
   that the constructor "stores the given group comparison function object to compare groups".
   It is stored, but the map is default-constructed (`detail/slot_groups.hpp:66-68`) and orders the groups
   by another object of the type, so a `GroupCompare` with state does not decide the order of
   the slots: `GroupedList.cfg` with `SortedByStored` as an invariant fails. If the given one does
   not even agree about which groups are equivalent, the map itself is wrong: with
   `MCStoredRank` three different ranks, or three equal ones, `GroupMapExact` fails, and with it the
   assertions at lines 150 and 151. The properties and theorems about the list assume
   `SameClasses`, as every `GroupCompare` without state has it.

## 5. Proofs

### SignalProofs

With lemmas in `SlotOrderProofs`, for every number of processes,
bodies, objects and lists, under the named assumptions of `SlotOrder` and `Signal`
(constants of the right kind, finitely many processes, distinct null values). `Spec` is a
program that does not call `set_combiner`; with it the statements are false (finding 1), and
`SettingCombinerSpec`, which adds it, is for the run that shows this.

* `TypeCorrect`: `Spec => []TypeOK`. It is not inductive alone: that the count of a slot stays
  a natural number, in spite of `--m_slot_refcount` on an `unsigned`, needs the count to be
  exact.
* `RefcountCorrect`: `Spec => []RefcountExact`.
* `CalledSlotsAlive`: `Spec => []SlotAliveWhileCalled`.
* `SnapshotCorrect`: `Spec => SnapshotStable`, an action property.

They follow from one inductive invariant, `IInv`:

* `TypeOK` and `RefcountExact`. Every change of a count is paired with a change of the set of
  processes whose `active` is the body (`UsersMoved`, `SetActiveExact`);
* `ProcessOK(p)`: the iterators and the active slot of a process are in the list it holds,
  so that a body that `Connect` reuses is nobody's active slot; while a slot runs it is the
  active one, and what it tracks is held.

The steps that modify a list in place need `SharedUnread`: if the state is *unique*, nobody reads
its list. In the lemmas this is a hypothesis (for the janitor a weaker one, `MayCleanUp`), so that
they serve `Emission` too. For `Spec` it follows from `OneCombiner`, which is proved along with
`IInv`: all states in use have the combiner of the current one, so a state that differs from
`shared` differs in its list. There is a lemma for each action.

From the same invariant, together with one about the lists:

* `ListsCorrect`: `Spec => [](IInv /\ SharedUnread /\ ListsInv)`. `ListsInv` says that all lists in memory are
  sorted and without repetitions, that the collector's iterator is in the current list, and
  that every connected body is in it;
* `IteratorsCorrect`: `Spec => []IteratorsValid`;
* `ConnectionsKept`: `Spec => []NoConnectionLost`;
* `WalksCorrect`: `Spec => []WalksKeepTheirWord`;
* `PromiseKept`: `Spec => KeepsPromise`, the refinement of `Broadcast`.

`IteratorsValid` speaks of the iterators, and it is the lists that must not change under them:
a sweep erases only disconnected nodes and ends at a node that stays (`SweepKeeps`), and only
lists that nobody reads are swept (from `SharedUnread`). The walks need the strengthening
`WalkOK`: what is promised at the end holds at every moment of the nodes behind the iterator, and those before
it are still to be visited. Once true of a body it stays true, since nothing connects a body that is in a
list which somebody reads: only `Connect` connects, and it takes a body that is in no list in use
(`WalkUndisturbed`). `WalkMoves` is about the walk's own steps.

`PromiseKept` maps the current list without its disconnected bodies to the promised order, and the
rest of the list that an invocation holds, without its disconnected bodies, to the promised queue.
Every action has a lemma that names its image: `Connect` inserts into the order where the code
inserts into the list, among disconnected nodes that the promise does not see (`WithoutInserted`); a
`Disconnect` takes the body out of the order and of every queue (`ForgetMore`); `Grab` passes a
node, which is a stutter if the node is disconnected and `Turn`, `Done` or `Emit` otherwise
(`RestStep`); sweeps, copies of the list and the end of an invocation are stutters (`SweptUnseen`,
`StillForgets`). The initial state maps to the promised initial state.

### SlotOrderProofs

What the list operators return, for lists of any length. Erasing (`Restriction`, defined by
rank so that no recursion is needed) gives the nodes that are kept, in their order
(`WithoutSet`, `WithoutPrecedes`, `WithoutKeepsOrder`). The positions that `lower_bound` and
`upper_bound` look for exist; this uses the least-element principle, obtained from the
well-foundedness of `<`. Inserting puts the new node into its place and moves nothing else
(`InsertedPrecedes`).

Equalities of lists, which the refinements need, would ask for induction over the list. They
are obtained without it: a list without repetitions is determined by its set and by which
node precedes which (`SameList`; the first position where two such lists differ leads to a
contradiction). From it follow that erasing twice is erasing the union
(`WithoutTwice`), that erasing commutes with inserting (`WithoutInserted`), and what an
invocation has before it when it has passed one node more (`RestStep`).

### SignalProofs: what an invocation computes

Under the assumptions of `Signal` and `Emission`, for `EmissionSpec`, that is for invocations whose combiner
is a library's or anything a program may write, any set of extended slots, and programs that
block slots, drop tracked objects and call `set_combiner` at any time:

* `EmissionInvariant`; `RunsInOrder`: `EmissionSpec => []RunOnceInOrder`;
* `LastValueCorrect`: `EmissionSpec => []LastValueReturned`;
* `ExtendedSlotsCorrect`: `EmissionSpec => []ExtendedSlotFindsItself`;
* `EmissionKeepsConnections`: `EmissionSpec => []NoConnectionLost`.

`OneCombiner` is not an invariant of these programs. What takes its place is `Undisturbed` in the
guards of the steps that modify a list in place: it is `SharedUnread` for the calls, and
`MayCleanUp` for an invocation's own janitor, so that `IInv` and `ListsInv` are kept by the same
lemmas. The invariant `EInv` adds:

* `CacheOK`: a result in the cache is that of the slot the iterator is at, the last to return;
* `InOrder`: the slots that have returned are in the list before the iterator, or at it with the
  result still in the cache. So the slot that runs next is none of them and comes after them;
* `LibraryOK`: the value is that of the last slot that returned, and with a library's combiner
  each slot that is connected and behind the iterator has returned or was blocked when it was
  reached; hence at the end no other is left out;
* `OwnConnection`: an extended slot in a list has its connection.

The proof attempt changed two properties. `RunOnceInOrder` (its order) and `ExtendedSlotFindsItself`
used to speak of every process that holds a list; but once `set_combiner` has made a second state of
it, the janitor at the end of an invocation may erase nodes of this very list, whose bodies may be
used again, and then they say nothing sensible. It takes more bodies to get there than the two of
the run. They now speak of invocations that are not yet past their janitor, which is what they are
about.

### SlotListProofs: the list and its map

For every number of nodes and groups, and every two strict weak orders of the groups that ranks
can express, the map's and the stored one, with the same equivalence (`SameClasses`):

* `GroupedInvariant` and `GroupMapExactAlways`: `Spec => []GroupMapExact`;
* `EntersInPlaceAlways`: `Spec => EntersInPlace`, an action property;
* `ImplementsOrdered`: `Spec => ImplementsOrderedSlots`, the refinement of `OrderedSlots`, by the
  map's order;
* `InStoredOrder`: `Spec => []SortedByStored`, if the orders are the same too (`SameOrder`).

The invariant is `ListOK` (sorted, no repetitions) and `MapOK`: each entry of the map names the
first of the nodes that are *equivalent* to its key, each node has an entry, and no two
entries are equivalent. The last is needed because the map's searches and `insert` compare by the
default order: with two equivalent entries they might meet either. `MapLowerBound` and
`MapUpperBound` show that what the code finds through the map is what a search of the list would find;
`EnteredMap` and `CutMap` are the two ways that list and map change together. The code's
`erase` by group follows entries of the map to their end; that it erases what is between is `CutWithout`.

### SlotListProofs: the collector

For every number `MaxConnected` of slots that are connected at once, and whatever the order
in which slots are connected, disconnected and called:

* `CollectorTypes`: `CollectorSpec => []TypeOK`;
* `CollectorBounds`: if slots connect to no group and `5 * MaxConnected <= Limit`, then
  `CollectorSpec => []ListBounded`.

The hypothesis on groups is finding 3: with groups no `Limit` holds. The factor is not exact:
the run finds 12 to be enough for 4 slots, and with 6 slots the list gets longer than 18. A
connect adds one node and sweeps two. With m for `MaxConnected`, the invariant `CollectorInv`
says that no more than m are connected and that the sweep is at one of two stages. *Early*:
ahead of it, at most 4m nodes further, is the node k where those begin that entered at the
back since the last sweep ended; the nodes behind the sweep, the connected ones between it
and k, all from k on, and one for every two that it has yet to pass before k, are together at most
3m: so long will the list be, at most, when the sweep comes to k. *Late*: the
sweep is among those, and the list and the connected nodes ahead are together at most 4m.
A pair of nodes that a connect sweeps pays for the node that it adds: each is either erased,
and the list is shorter, or connected, and there is one fewer ahead (`SweepEarly`,
`SweepLate`). When the sweep comes to k it is late, and when it comes to the end of the list and starts
again it is early, with k at the end. The number of connected nodes in a stretch is
the cardinality of a set of positions, so that no induction over the list is needed.

### DestructorsProofs

For every number of threads, bodies and objects, and slots that track any sequence of them
(`DestructorsAssumption`: finitely many threads, at least one):

* `DestructorsInvariant`; `DestructorsUnlocked`: `Spec => []DestructorsRunUnlocked`;
* `SlotsOnce`: `Spec => []SlotsDestroyedOnce`;
* `SlotOutlivesCallAlways`: `Spec => []SlotOutlivesCall`.

The invariant adds to types: the mutex is held by the thread whose critical section it is (`ThreadOK`); what
`lock_next_callable` has in its temporary it has also kept, so that dropping the temporary
cannot be the last reference, which is the difference between it and `connected()` or
`disconnect(slot)`; the count of each slot is exact; a slot is in one place (`InOnePlace`): in its
body, or in one thread's garbage, or destroyed; and while a slot runs it is the active one, so
that it is counted, and everything it tracks is among the pointers that its thread keeps (`CallOK`). These
were locked one by one in a critical section in which the slot might still have been disconnected; it is
called only if none had expired.

### SignalLifetimeProofs

For every number of threads, signals and slots, calls nested to any depth:

* `LifetimeInvariant`; `OneOwnerAlways`: `Spec => []OneOwner`;
* `NestedCallsAliveAlways`: `Spec => []NestedCallsAlive`.

The invariant says of each frame (`FrameOK`) that a slot that is about to be called has its
`signal_impl` in `tracked_ptrs` (`held`), and that a call through a weak signal holds its own in
`shared_pimpl`; and of each stack (`StacksOK`) that every frame is of the right kind. The step that
matters is `CallSlot`: the `weak_ptr` that is locked there cannot have expired, because of what the
calling frame has held since the slot was reached, whatever was destroyed, assigned to or
disconnected in between.

### SlotsProofs

For `SlotsSpec`, the slots composed with the objects they track, for every number of objects,
invokers, pointers, slots, trackables, tokens and calling threads:

* `SlotsInvariant`; `NothingKeptLocked`: `SlotsSpec => []SlotsTypeOK`;
* `AccessibleAlways`, `PredestructedAlways`, `PostconstructedAlways`: the three properties of
  `Deconstruct`, which the composition keeps;
* `TrackedAlive`: `SlotsSpec => []TrackedAliveWhileRunning`;
* `TrackableExpires`: `SlotsSpec => []TrackableExpiresWithObject`.

`ObjInv` is about objects: an object is alive exactly while an invoker or a pointer owns it, and
`initialized_` says what its deleter has still to do (`Sound`); a pointer or weak pointer to it
exists only once it is postconstructed; an invoker that has not postconstructed is the only one,
unless it was copied (`Once`). `CallsInv` is about `operator()`: what the entries that a call has
passed track is held by its pointers, one for each, and the pointers of a thread that calls nothing
hold nothing. `TokensInv` says that a token belongs to one trackable at a time, and that the entry
of a trackable that is gone has a token that is no trackable's. Assumptions: finitely many slots, so
that `MaxTracked` bounds the entries, null values that are none of the values.

### HandlesProofs

For every number of connections, blocks and blockers, under `HandlesAssumption` (the sets of
objects are disjoint, null and the detached pointer are not among them), whatever operations
`Calls` allows:

* `HandlesTypeCorrect`: `Spec => []TypeOK`;
* `BlockedExactly`: `Spec => []BlockedByBlocks`, and `BlockingBlocks`:
  `Spec => []BlockingIsBlocked`;
* `ScopedHandsOverAlways`: `Spec => ScopedHandsOver`, an action property.

`BlockedByBlocks` is not inductive: it does not say which blocker a block holds. The
invariant `IInv` adds that objects that are gone refer to nothing, that each blocking block of
a body that is there holds the blocker the body knows (`HoldsItsBlocker`), and that no block of
another body does (`OnlyItsBlocks`), so that `get_blocker` finds the blocker in use or, if
there is none, makes one that no block holds (lemma `GetBlocker`). The operations of handles
change nothing of this (`BlocksUntouched`); the work is in `block()` (`DoBlockIInv`).

### AutoBufferProofs

For every number of buffers, every `N`, any sizes and any values of the elements, with exceptions
from every copy and allocation:

* `EachObjectOnce`: `Spec => []CellsExact`;
* `BuffersAreSequences`: `Spec => ImplementsContents`, the refinement of `BufferContents`;
* `NoAssertionFails`: `Spec => []AssertionsHold`.

Their hypotheses are those of the run. All exclude constructors that copy elements which
throw (`"copy_throws" \notin Calls`), which lose memory, and assignments that cannot grow
(`"assign_throws" \notin Calls`), which leave a buffer that is no sequence; the last also excludes
that programs erase nothing (`"erase_nothing" \notin Calls`), which an assertion forbids although
the operation does no harm. The three are part of finding 9. `HeapAssumption` says that with a block for every
buffer there is another to grow into; the code has no such number, an allocation gives memory or throws.

The inductive invariant is `BufferInv`: there are sequences, one for each buffer, with
`State`. `State` says that each buffer that has memory fits its sequence (`Fits`: size, capacity, and
that the memory is its own cells exactly if the capacity is `N`), that no two have the same
memory, and that the memory consists of the buffers' cells and of their blocks and of nothing else, each
holding just the elements of its sequence and raw cells behind them (`Stored`, `Cells`). Which sequences
they are follows from the memory (`HeldIs`), so that the invariant needs no quantifier over them.

The proof follows the code. What is done to cells is done to sequences (`BuiltCells`, `AssignedCells`,
`DestroyedCells`); from there each helper leads from worlds to worlds that are in some `State`
(`PushedBack`, `PoppedBack`, `OverwrittenIs`, `MovedUpIs`, `MadeState`, `MovedState`, `ReservedIs`),
and an operation that throws after k copies is one that has led k copies far (`Working`,
and `Between` for two buffers). Then there is a lemma for each operation, `PushBackGoes` to
`SwapStackGoes`: it keeps `BufferInv`, and is the step of `BufferContents` that its outcome says,
or a stutter (`Goes`). For `MovedUp`, which copies forwards over what it has still to move, the lemma
says that the cells hold *some* elements, and this is all that is promised there.

### What is not proved

Only model-checked: that calls return, that slots are destroyed and that the dead nodes go at
last. These are liveness properties and out of the prover's reach. Every other property of the
runs that are to pass is stated by a theorem, and holds for every value of the constants that its
hypotheses admit.

## 6. What is not modelled

* Data: arguments, results and slot functions; a slot is its body, and `disconnect(slot)`
  finds the bodies with a given function.
* The deprecated `trackable` is not kept alive by a call, by design of the code:
  `TrackedAliveWhileRunning` is about objects tracked by `shared_ptr`, boost's or another's.
  That the visitor finds an argument inside a bound function is `visit_each`'s work.
* The arguments of a signal and how they are passed on (`variadic_slot_invoker`, argument types).
* Exceptions from memory allocation, but in `AutoBuffer`.
* `auto_buffer` of element types with trivial constructors or assignment, and
  `uninitialized_grow`, `_shrink` and `_resize`, which leave raw cells to the caller.
* In `Deconstruct`, a program's own deleter, and a predestructor that throws out of
  `deconstruct_deleter`, which ends the program.
* Moved-from signals: their `_pimpl` is null and the program may only assign to or destroy them.
* The memory model: the mutex makes all shared state sequentially consistent. The exception
  is `blocked()` (`connection.hpp:94`), which reads `_weak_blocker` without the mutex while `get_blocker`
  may assign to it under the mutex: a data race on the `weak_ptr` itself, whose outcomes
  are not modelled.
* Group keys and their comparisons, as objects of the program with destructors and exceptions.
* Mutex classes, argument types, macros.

## 7. Plan

What is left, in this order:

1. The fault of item 10 of section 4, a connect that throws, as a run of its own.
2. `auto_buffer` for trivial element types, and its `uninitialized_` operations.
3. A bound for `ListBounded` that is exact.
