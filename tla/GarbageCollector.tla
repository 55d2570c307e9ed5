-------------------------- MODULE GarbageCollector --------------------------
(* How far the slot list can grow: the incremental garbage collection of     *)
(* signal_impl (detail/signal_template.hpp) on its own.                      *)
(*                                                                           *)
(* Signal keeps the identity of every connection body, and so can follow     *)
(* only a few of them.  Here the current list is reduced to what the         *)
(* collector looks at, the connected flag of each node and the node the next *)
(* sweep starts from, so that lists of any length fit.  Nothing bounds the   *)
(* list here but the collector; the program keeps at most MaxConnected slots *)
(* connected.                                                                *)
EXTENDS Integers, Sequences, FiniteSets

CONSTANTS
    MaxConnected,   \* slots the program has connected at once
    Grouped,        \* does the program connect to groups
    Limit           \* the length the list should not exceed

ASSUME GarbageCollectorAssumption ==
    MaxConnected \in Nat \ {0} /\ Grouped \in BOOLEAN /\ Limit \in Nat

VARIABLES
    flags,      \* _connected of the nodes of the current list
    gc,         \* _garbage_collector_it, as an index; Len(flags) + 1 is end()
    reading     \* is _shared_state also held by an invocation or another reader

collectorVars == <<flags, gc, reading>>

CollectorInit == flags = << >> /\ gc = 1 /\ reading = FALSE

(* The nodes that stay, all of them connected. *)
Kept(list) == [n \in 1..Cardinality({i \in DOMAIN list : list[i]}) |-> TRUE]

(* Mutant: the iterator does not account for the nodes erased before it. *)
SweepMiscounting(count) ==
    LET from == IF gc > Len(flags) THEN 1 ELSE gc
        upto == IF from + count > Len(flags) + 1 THEN Len(flags) ELSE from + count - 1
    IN  [list |-> SubSeq(flags, 1, from - 1) \o Kept(SubSeq(flags, from, upto))
                     \o SubSeq(flags, upto + 1, Len(flags)),
         gc   |-> upto + 1]

(* nolock_cleanup_connections: `count' nodes from gc, or from the beginning  *)
(* when gc is at the end, not beyond the end.                                *)
Sweep(count) ==
    LET from == IF gc > Len(flags) THEN 1 ELSE gc
        upto == IF from + count > Len(flags) + 1 THEN Len(flags) ELSE from + count - 1
        kept == Kept(SubSeq(flags, from, upto))
    IN  [list |-> SubSeq(flags, 1, from - 1) \o kept \o SubSeq(flags, upto + 1, Len(flags)),
         gc   |-> from + Len(kept)]

(* The copy, or the whole list, cleaned from its beginning. *)
FullSweep == [list |-> Kept(flags), gc |-> Len(Kept(flags)) + 1]

(* Mutant: one node per connect. *)
MadeUniqueSweepingOne == IF reading THEN FullSweep ELSE Sweep(1)

(* nolock_force_unique_connection_list *)
MadeUnique == IF reading THEN FullSweep ELSE Sweep(2)

(* Where a new node may enter: ungrouped slots enter at the ends; a group    *)
(* between those of two neighbours puts a node between them.                 *)
Places(list) == IF Grouped THEN 1..Len(list) + 1 ELSE {1, Len(list) + 1}

(* connect: group and position put the new node at index i.  A copy of a     *)
(* list that is being read becomes the current list, read by nobody.         *)
Connect(i) ==
    /\ Len(Kept(flags)) < MaxConnected
    /\ i \in Places(MadeUnique.list)
    /\ flags' = SubSeq(MadeUnique.list, 1, i - 1) \o <<TRUE>>
                   \o SubSeq(MadeUnique.list, i, Len(MadeUnique.list))
    /\ gc' = IF i <= MadeUnique.gc THEN MadeUnique.gc + 1 ELSE MadeUnique.gc
    /\ reading' = FALSE

Disconnect(i) ==
    /\ flags[i]
    /\ flags' = [flags EXCEPT ![i] = FALSE]
    /\ UNCHANGED <<gc, reading>>

(* Mutant: operator() leaves the collection to connect and to the janitor. *)
InvokeNotSweeping == flags' = flags /\ gc' = gc /\ reading' = TRUE

(* operator(): sweeps one node if the state is unique, and holds the state. *)
Invoke ==
    LET swept == IF reading THEN [list |-> flags, gc |-> gc] ELSE Sweep(1)
    IN  /\ flags' = swept.list
        /\ gc' = swept.gc
        /\ reading' = TRUE

(* The last reader of the current list is done. *)
DoneReading == reading /\ reading' = FALSE /\ UNCHANGED <<flags, gc>>

(* force_cleanup_connections, by an invocation that saw more disconnected    *)
(* slots than connected ones; it holds the list, which is therefore copied.  *)
ForceCleanup ==
    /\ reading
    /\ flags' = FullSweep.list
    /\ gc' = FullSweep.gc
    /\ reading' = FALSE

CollectorNext ==
    \/ \E i \in 1..Len(flags) + 1 : Connect(i)
    \/ \E i \in 1..Len(flags) : Disconnect(i)
    \/ Invoke \/ DoneReading \/ ForceCleanup

CollectorSpec == CollectorInit /\ [][CollectorNext]_collectorVars

(* A program that keeps calling the signal.  That each call returns does not *)
(* make DoneReading fair: calls of several threads that overlap without a    *)
(* gap hold the current list for ever, one of them at a time.                *)
CallingSpec == CollectorSpec /\ WF_collectorVars(Invoke)

-----------------------------------------------------------------------------
(* The list is a list and the iterator points into it or at its end. *)
TypeOK ==
    /\ flags \in Seq(BOOLEAN)
    /\ gc \in 1..Len(flags) + 1
    /\ reading \in BOOLEAN

(* "avoid corner cases where certain repeated connect/disconnect patterns    *)
(* cause the slot list to grow without limit": whatever the pattern of       *)
(* calls, the list stays within a limit that depends only on the number of   *)
(* slots connected at once.                                                  *)
ListBounded == Len(flags) <= Limit

(* "clean up a few connections in constant time": one node a call is enough. *)
(* If no more slots come or go, the calls reach every dead node at last,     *)
(* wherever the iterator stood and whatever full cleanups come in between,   *)
(* in a program whose calls again and again leave the list to nobody.        *)
(* Without that condition _shared_state.unique() may be false whenever a     *)
(* call asks, and the dead nodes stay.                                       *)
Settled == <>[][Invoke \/ DoneReading \/ ForceCleanup]_collectorVars
UnreadAgainAndAgain == []<>~reading
DeadNodesCollected ==
    Settled /\ UnreadAgainAndAgain => <>[](Kept(flags) = flags)
=============================================================================
