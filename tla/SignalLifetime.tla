--------------------------- MODULE SignalLifetime ---------------------------
(* Who keeps a signal_impl alive: the signal objects that own one            *)
(* (signal_template.hpp, class signal), the weak signals through which a     *)
(* signal is a slot of another, and the calls that run.  A slot may do       *)
(* anything to the signals, also destroy the one that called it.             *)
EXTENDS Integers, Sequences, FiniteSets

CONSTANTS
    Procs,          \* threads
    Signals,        \* signal objects
    Impls,          \* memory for signal_impl
    MaxCalls,       \* bound: how many calls run at a time, nested or not
    PlainSlots,     \* how many slots a signal has that are no signals
    None            \* a null pointer

ASSUME LifetimeAssumption ==
    /\ None \notin Impls
    /\ MaxCalls \in Nat /\ PlainSlots \in Nat

VARIABLES
    there,      \* the signal objects that are constructed
    pimpl,      \* _pimpl of each
    slots,      \* the slots of each signal_impl that are signals
    frames      \* the stack of calls of operator() of each thread

vars == <<there, pimpl, slots, frames>>

(* A slot that is a signal, with a weak_ptr to its signal_impl.              *)
Slot == [to : Impls, connected : BOOLEAN]

(* A call: the signal_impl it runs in; whether a signal object was called,   *)
(* or a slot that is a signal; shared_pimpl, which is for the latter; the    *)
(* slots that are signals and the number of others that it has not reached;  *)
(* what its cache holds in tracked_ptrs; the signal_impl it is about to      *)
(* call; how many more disconnected slots it met than connected ones; and    *)
(* what it is at: its list, a slot it is about to call, a slot that is no    *)
(* signal, or the janitor.                                                   *)
Frame == [impl : Impls, via : {"signal", "slot"}, strong : Impls \cup {None},
          todo : SUBSET Slot, plain : 0..PlainSlots, held : Impls \cup {None},
          next : Impls \cup {None}, excess : Int,
          at : {"list", "grabbed", "slot", "janitor"}]

Init ==
    /\ there = {}
    /\ pimpl = [s \in Signals |-> None]
    /\ slots = [i \in Impls |-> {}]
    /\ frames = [p \in Procs |-> << >>]

-----------------------------------------------------------------------------
Frames(p) == {frames[p][n] : n \in DOMAIN frames[p]}
AllFrames == UNION {Frames(p) : p \in Procs}

(* The use count of a signal_impl is not 0. *)
Alive(i) ==
    \/ \E s \in there : pimpl[s] = i
    \/ \E f \in AllFrames : f.strong = i \/ f.held = i

(* What thread p runs is the program, or a slot: user code, which may do     *)
(* anything to the signals.                                                  *)
InUserCode(p) == frames[p] # << >> => frames[p][Len(frames[p])].at = "slot"

(* The memory of a signal_impl is free for a new one: neither it nor a       *)
(* weak_ptr to it is there, in the slots of a signal or of a call.           *)
InUse(i) == Alive(i) \/ \E f \in AllFrames : f.impl = i
RefersTo(list, i) == \E r \in list : r.to = i
Unused(i) ==
    /\ ~InUse(i)
    /\ \A j \in Impls : ~RefersTo(slots[j], i)
    /\ \A f \in AllFrames : ~RefersTo(f.todo, i)

(* The lists of signals in the next state, if `lists' is what the step       *)
(* itself makes of them: a signal_impl that goes takes its own with it.      *)
GoneWithSignals(lists) ==
    slots' = [i \in Impls |-> IF Alive(i)' THEN lists[i] ELSE {}]

Construct(s) ==
    \E i \in Impls :
        /\ s \notin there
        /\ Unused(i)
        /\ there' = there \cup {s}
        /\ pimpl' = [pimpl EXCEPT ![s] = i]
        /\ UNCHANGED <<slots, frames>>

(* The move constructor swaps with a null pointer. *)
MoveConstruct(s, t) ==
    /\ s \notin there /\ t \in there
    /\ there' = there \cup {s}
    /\ pimpl' = [pimpl EXCEPT ![s] = pimpl[t], ![t] = None]
    /\ UNCHANGED <<slots, frames>>

(* Mutant: the moved-from signal is left as it is. *)
MoveAssignSharing(s, t) ==
    /\ s \in there /\ t \in there /\ s # t
    /\ pimpl' = [pimpl EXCEPT ![s] = pimpl[t]]
    /\ UNCHANGED <<there, slots, frames>>

MoveAssign(s, t) ==
    /\ s \in there /\ t \in there /\ s # t
    /\ pimpl' = [pimpl EXCEPT ![s] = pimpl[t], ![t] = None]
    /\ UNCHANGED <<there, frames>>
    /\ GoneWithSignals(slots)

Swap(s, t) ==
    /\ s \in there /\ t \in there
    /\ pimpl' = [pimpl EXCEPT ![s] = pimpl[t], ![t] = pimpl[s]]
    /\ UNCHANGED <<there, slots, frames>>

Destroy(s) ==
    /\ s \in there
    /\ there' = there \ {s}
    /\ pimpl' = [pimpl EXCEPT ![s] = None]
    /\ UNCHANGED frames
    /\ GoneWithSignals(slots)

(* The slots of a list that a sweep may remove. *)
Disconnected(list) == {r \in list : ~r.connected}
Expired(list) == {r \in list : ~Alive(r.to)}

(* A slot to signal_impl j is disconnected, in every list that has it.       *)
Without(list, j) == {[r EXCEPT !.connected = @ /\ r.to # j] : r \in list}

DisconnectIn(i, j, before) ==
    /\ slots' = [slots EXCEPT ![i] = Without(@, j)]
    /\ frames' = [p \in Procs |-> [n \in DOMAIN before[p] |->
            IF before[p][n].impl = i THEN [before[p][n] EXCEPT !.todo = Without(@, j)]
            ELSE before[p][n]]]

(* s.connect(t): the slot is a weak signal, and tracks t.  How far the sweep *)
(* of connect comes is left open.  As a bound, a list has at most one slot   *)
(* for each signal.                                                          *)
ConnectSignal(s, t) ==
    /\ s \in there /\ pimpl[s] # None
    /\ t \in there /\ pimpl[t] # None
    /\ LET i == pimpl[s] IN
       \E swept \in SUBSET (Disconnected(slots[i]) \cup Expired(slots[i])) :
          /\ ~RefersTo(slots[i] \ swept, pimpl[t])
          /\ slots' = [slots EXCEPT ![i] =
                           (@ \ swept) \cup {[to |-> pimpl[t], connected |-> TRUE]}]
    /\ UNCHANGED <<there, pimpl, frames>>

(* s.disconnect(t), which weak_signal::contains decides.  The slot stays in  *)
(* the lists, and the calls of s that run will still come to it.             *)
DisconnectSignal(s, t) ==
    /\ s \in there /\ pimpl[s] # None
    /\ t \in there /\ [to |-> pimpl[t], connected |-> TRUE] \in slots[pimpl[s]]
    /\ DisconnectIn(pimpl[s], pimpl[t], frames)
    /\ UNCHANGED <<there, pimpl>>

-----------------------------------------------------------------------------
(* Calls. *)

Top(p) == frames[p][Len(frames[p])]
Replace(p, f) == [frames EXCEPT ![p][Len(frames[p])] = f]

(* The bound counts a slot that is about to be called, too.                  *)
AboutToCall(p) == frames[p] # << >> /\ Top(p).at = "grabbed"
MayCall ==
    Cardinality({c \in Procs \X (1..MaxCalls) : c[2] <= Len(frames[c[1]])})
        + Cardinality({p \in Procs : AboutToCall(p)}) < MaxCalls

(* operator() of a signal_impl; its sweep, when nobody reads the list,       *)
(* removes one slot at most.                                                 *)
Enter(p, i, via, strong, before) ==
    /\ \E swept \in SUBSET Disconnected(slots[i]) :
          /\ Cardinality(swept) <= 1
          /\ swept # {} => \A f \in AllFrames : f.impl # i
          /\ slots' = [slots EXCEPT ![i] = @ \ swept]
    /\ frames' = [before EXCEPT ![p] =
           Append(@, [impl |-> i, via |-> via, strong |-> strong,
                      todo |-> slots'[i], plain |-> PlainSlots, held |-> None,
                      next |-> None, excess |-> 0, at |-> "list"])]

(* The program, or a slot, calls a signal object.                           *)
CallSignal(p, s) ==
    /\ InUserCode(p) /\ MayCall
    /\ s \in there /\ pimpl[s] # None
    /\ Enter(p, pimpl[s], "signal", None, frames)
    /\ UNCHANGED <<there, pimpl>>

AtList(p) == frames[p] # << >> /\ Top(p).at = "list"

(* tracked_ptrs.clear(), when the list goes on.                              *)
ClearTracked(p) ==
    /\ AtList(p) /\ Top(p).held # None
    /\ Top(p).todo # {} \/ Top(p).plain > 0
    /\ frames' = Replace(p, [Top(p) EXCEPT !.held = None])
    /\ UNCHANGED <<there, pimpl>>
    /\ GoneWithSignals(slots)

(* An invocation reaches a slot that is no signal: it has been disconnected, *)
(* or is called and does what it likes.                                      *)
ReachPlainSlot(p) ==
    /\ AtList(p) /\ Top(p).held = None /\ Top(p).plain > 0
    /\ \/ frames' = Replace(p, [Top(p) EXCEPT !.plain = @ - 1, !.excess = @ + 1])
       \/ frames' = Replace(p, [Top(p) EXCEPT !.plain = @ - 1, !.excess = @ - 1,
                                              !.at = "slot"])
    /\ UNCHANGED <<there, pimpl, slots>>

SlotReturns(p) ==
    /\ frames[p] # << >> /\ Top(p).at = "slot"
    /\ frames' = Replace(p, [Top(p) EXCEPT !.at = "list"])
    /\ UNCHANGED <<there, pimpl, slots>>

(* Mutant: the weak signal is not tracked. *)
GrabbedUntracked(f, r) ==
    [f EXCEPT !.todo = @ \ {r}, !.next = r.to, !.excess = @ - 1, !.at = "grabbed"]

Grabbed(f, r) ==
    [f EXCEPT !.todo = @ \ {r}, !.held = r.to, !.next = r.to, !.excess = @ - 1,
              !.at = "grabbed"]
Skipped(f, r) == [f EXCEPT !.todo = @ \ {r}, !.excess = @ + 1]

(* The invocation reaches a slot that is a signal.  If it is connected and   *)
(* the signal is there, it is locked and will be called; if the signal is    *)
(* gone, it is disconnected.                                                 *)
ReachSlot(p) ==
    /\ AtList(p) /\ Top(p).held = None
    /\ \E r \in Top(p).todo :
          \/ /\ r.connected /\ Alive(r.to) /\ MayCall
             /\ frames' = Replace(p, Grabbed(Top(p), r))
             /\ UNCHANGED slots
          \/ /\ r.connected /\ ~Alive(r.to)
             /\ DisconnectIn(Top(p).impl, r.to, Replace(p, Skipped(Top(p), r)))
          \/ /\ ~r.connected
             /\ frames' = Replace(p, Skipped(Top(p), r))
             /\ UNCHANGED slots
    /\ UNCHANGED <<there, pimpl>>

(* weak_signal::operator() locks its weak_ptr once more, and calls what it   *)
(* gets without a look at it.                                                *)
CallSlot(p) ==
    /\ AboutToCall(p)
    /\ LET j == Top(p).next
       IN  Enter(p, j, "slot", IF Alive(j) THEN j ELSE None,
                 Replace(p, [Top(p) EXCEPT !.next = None, !.at = "list"]))
    /\ UNCHANGED <<there, pimpl>>

Popped(p) == [frames EXCEPT ![p] = SubSeq(@, 1, Len(@) - 1)]

(* The combiner returns, at the end of the list or before.  ~janitor goes to *)
(* the signal_impl if the walk met more disconnected slots than connected.   *)
LeaveList(p) ==
    /\ AtList(p)
    /\ frames' = IF Top(p).excess > 0
                 THEN Replace(p, [Top(p) EXCEPT !.at = "janitor", !.excess = 0,
                                                !.todo = {}, !.plain = 0])
                 ELSE Popped(p)
    /\ UNCHANGED <<there, pimpl>>
    /\ GoneWithSignals(slots)

(* force_cleanup_connections removes disconnected slots from the list of the *)
(* signal_impl, unless that has another list by now; then the cache is       *)
(* destroyed, and the call returns.  What a call does that comes back to a   *)
(* signal_impl that is gone is undefined; here it returns.                   *)
Janitor(p) ==
    /\ frames[p] # << >> /\ Top(p).at = "janitor"
    /\ frames' = Popped(p)
    /\ UNCHANGED <<there, pimpl>>
    /\ \/ GoneWithSignals([slots EXCEPT ![Top(p).impl] = @ \ Disconnected(@)])
       \/ GoneWithSignals(slots)

-----------------------------------------------------------------------------
UserStep ==
    \/ \E s \in Signals : Construct(s) \/ Destroy(s)
    \/ \E s, t \in Signals :
          \/ MoveConstruct(s, t) \/ MoveAssign(s, t) \/ Swap(s, t)
          \/ ConnectSignal(s, t) \/ DisconnectSignal(s, t)

Next ==
    \/ (\E p \in Procs : InUserCode(p)) /\ UserStep
    \/ \E p \in Procs, s \in Signals : CallSignal(p, s)
    \/ \E p \in Procs :
          \/ ClearTracked(p) \/ ReachPlainSlot(p) \/ SlotReturns(p)
          \/ ReachSlot(p) \/ CallSlot(p)
          \/ LeaveList(p) \/ Janitor(p)

Spec == Init /\ [][Next]_vars
-----------------------------------------------------------------------------
(* Properties. *)

(* A signal is not copyable: however signals are moved and swapped, also by  *)
(* the slots they call, no two own the same signal_impl.                     *)
OneOwner ==
    \A s, t \in there : pimpl[s] = pimpl[t] /\ pimpl[s] # None => s = t

(* A signal that is a slot of another is there when it is called, and until  *)
(* that call has returned, whoever destroys, moves or assigns the signal     *)
(* object or disconnects the slot meanwhile: between the lock of the slot's  *)
(* tracked objects and the call nothing is checked again.                    *)
NestedCallsAlive ==
    \A f \in AllFrames :
        /\ f.at = "grabbed" => Alive(f.next)
        /\ f.via = "slot" => f.strong = f.impl

(* "a signal may be destroyed while it is in a calling sequence, in which    *)
(* case it will complete its slot call sequence": a call that goes back to   *)
(* its signal_impl finds it there.  This fails; no run checks it.            *)
JanitorFindsSignal ==
    \A f \in AllFrames : f.at = "janitor" => Alive(f.impl)
=============================================================================
