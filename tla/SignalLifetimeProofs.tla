------------------------ MODULE SignalLifetimeProofs ------------------------
(* Proofs about who keeps a signal_impl alive, for any number of threads and *)
(* of signals, and calls nested to any depth.                                *)
EXTENDS SignalLifetime, TLAPS

-----------------------------------------------------------------------------
(* The inductive invariant.                                                  *)

(* A call holds on to the slot it is about to call, and the call of a slot   *)
(* that is a signal holds on to the signal_impl.                             *)
FrameOK(f) ==
    /\ f \in Frame
    /\ f.at = "grabbed" => f.next \in Impls /\ f.held = f.next
    /\ f.via = "slot" => f.strong = f.impl

StacksOK(fs) ==
    /\ fs \in [Procs -> Seq(Frame)]
    /\ \A p \in Procs : \A n \in DOMAIN fs[p] : FrameOK(fs[p][n])

TypeOK ==
    /\ there \subseteq Signals
    /\ pimpl \in [Signals -> Impls \cup {None}]
    /\ slots \in [Impls -> SUBSET Slot]

IInv ==
    /\ TypeOK
    /\ OneOwner
    /\ StacksOK(frames)

-----------------------------------------------------------------------------
(* The stacks of calls.                                                      *)

LEMMA TopOK ==
  ASSUME IInv, NEW p \in Procs, frames[p] # << >>
  PROVE  FrameOK(Top(p)) /\ Top(p) \in Frame /\ Top(p) \in AllFrames
<1>1. frames[p] \in Seq(Frame) /\ Len(frames[p]) \in DOMAIN frames[p]
  BY DEF IInv, StacksOK
<1> QED BY <1>1 DEF Top, AllFrames, Frames, IInv, StacksOK, FrameOK

LEMMA ReplaceOK ==
  ASSUME IInv, NEW p \in Procs, frames[p] # << >>, NEW f, FrameOK(f)
  PROVE  StacksOK(Replace(p, f))
<1> DEFINE n == Len(frames[p])
           new == [frames[p] EXCEPT ![n] = f]
<1>1. frames[p] \in Seq(Frame) /\ n \in DOMAIN frames[p] /\ f \in Frame
  BY DEF IInv, StacksOK, FrameOK
<1>2. /\ new \in Seq(Frame) /\ DOMAIN new = DOMAIN frames[p]
      /\ \A m \in DOMAIN new : new[m] = IF m = n THEN f ELSE frames[p][m]
  BY <1>1
<1>3. Replace(p, f) = [frames EXCEPT ![p] = new]
  BY DEF Replace
<1> HIDE DEF new, n
<1>4. \A m \in DOMAIN new : FrameOK(new[m])
  BY <1>2 DEF IInv, StacksOK
<1> QED BY <1>2, <1>3, <1>4 DEF IInv, StacksOK

LEMMA PoppedOK ==
  ASSUME IInv, NEW p \in Procs, frames[p] # << >>
  PROVE  StacksOK(Popped(p))
<1> DEFINE rest == SubSeq(frames[p], 1, Len(frames[p]) - 1)
<1>1. frames[p] \in Seq(Frame) /\ Len(frames[p]) \in Nat \ {0}
  BY DEF IInv, StacksOK
<1>2. /\ rest \in Seq(Frame)
      /\ \A m \in DOMAIN rest : m \in DOMAIN frames[p] /\ rest[m] = frames[p][m]
  BY <1>1
<1>3. Popped(p) = [frames EXCEPT ![p] = rest]
  BY DEF Popped
<1> HIDE DEF rest
<1>4. \A m \in DOMAIN rest : FrameOK(rest[m])
  BY <1>2 DEF IInv, StacksOK
<1> QED BY <1>2, <1>3, <1>4 DEF IInv, StacksOK

LEMMA AppendOK ==
  ASSUME NEW fs, StacksOK(fs), NEW p \in Procs, NEW f, FrameOK(f)
  PROVE  StacksOK([fs EXCEPT ![p] = Append(fs[p], f)])
<1> DEFINE new == Append(fs[p], f)
<1>1. fs[p] \in Seq(Frame) /\ f \in Frame
  BY DEF StacksOK, FrameOK
<1>2. /\ new \in Seq(Frame)
      /\ \A m \in DOMAIN new : new[m] = f \/ (m \in DOMAIN fs[p] /\ new[m] = fs[p][m])
  BY <1>1
<1> HIDE DEF new
<1>3. \A m \in DOMAIN new : FrameOK(new[m])
  BY <1>2 DEF StacksOK
<1>4. StacksOK([fs EXCEPT ![p] = new])
  BY <1>2, <1>3 DEF StacksOK
<1> QED BY <1>4 DEF new

(* To disconnect a slot changes no call but for the slots it has to reach.   *)
LEMMA DisconnectOK ==
  ASSUME IInv, NEW i \in Impls, NEW j, NEW fs, StacksOK(fs), DisconnectIn(i, j, fs)
  PROVE  StacksOK(frames') /\ slots' \in [Impls -> SUBSET Slot]
<1> DEFINE left(f) == IF f.impl = i THEN [f EXCEPT !.todo = Without(f.todo, j)] ELSE f
<1>1. ASSUME NEW list \in SUBSET Slot
      PROVE  Without(list, j) \in SUBSET Slot
  BY DEF Without, Slot
<1>2. ASSUME NEW f, FrameOK(f)
      PROVE  FrameOK(left(f))
  <2>1. f \in Frame /\ Without(f.todo, j) \in SUBSET Slot
    BY <1>1, <1>2 DEF FrameOK, Frame
  <2> DEFINE todo == Without(f.todo, j)
             g == [f EXCEPT !.todo = todo]
  <2> HIDE DEF todo
  <2>2. /\ g \in Frame /\ g.at = f.at /\ g.next = f.next /\ g.held = f.held
        /\ g.via = f.via /\ g.strong = f.strong /\ g.impl = f.impl
    BY <2>1 DEF Frame, todo
  <2> HIDE DEF g
  <2>3. FrameOK(g)
    BY <1>2, <2>2 DEF FrameOK
  <2>4. left(f) = g \/ left(f) = f
    BY DEF g, todo
  <2> QED BY <1>2, <2>3, <2>4
<1>3. frames' = [p \in Procs |-> [n \in DOMAIN fs[p] |-> left(fs[p][n])]]
  BY DEF DisconnectIn
<1> HIDE DEF left
<1>4. ASSUME NEW p \in Procs
      PROVE  /\ frames'[p] \in Seq(Frame)
             /\ \A n \in DOMAIN frames'[p] : FrameOK(frames'[p][n])
  <2>1. fs[p] \in Seq(Frame)
    BY DEF StacksOK
  <2>2. Len(fs[p]) \in Nat /\ DOMAIN fs[p] = 1..Len(fs[p])
    BY <2>1
  <2>3. frames'[p] = [n \in 1..Len(fs[p]) |-> left(fs[p][n])]
    BY <1>3, <2>2
  <2>4. \A n \in 1..Len(fs[p]) : FrameOK(left(fs[p][n])) /\ left(fs[p][n]) \in Frame
    BY <1>2, <2>2 DEF StacksOK, FrameOK
  <2> QED BY <2>2, <2>3, <2>4
<1>5. StacksOK(frames')
  BY <1>3, <1>4 DEF StacksOK
<1>6. slots' \in [Impls -> SUBSET Slot]
  <2>1. Without(slots[i], j) \in SUBSET Slot
    BY <1>1 DEF IInv, TypeOK
  <2> QED BY <2>1 DEF DisconnectIn, IInv, TypeOK
<1> QED BY <1>5, <1>6

LEMMA GoneType ==
  ASSUME NEW lists \in [Impls -> SUBSET Slot], GoneWithSignals(lists)
  PROVE  slots' \in [Impls -> SUBSET Slot]
BY DEF GoneWithSignals

-----------------------------------------------------------------------------
(* Preservation.                                                             *)

(* Steps that touch no signal object. *)
LEMMA CallStep ==
  ASSUME IInv, StacksOK(frames'), slots' \in [Impls -> SUBSET Slot], UNCHANGED <<there, pimpl>>
  PROVE  IInv'
<1>1. OneOwner'
  BY DEF IInv, OneOwner
<1>2. TypeOK'
  BY DEF IInv, TypeOK
<1> QED BY <1>1, <1>2 DEF IInv, StacksOK

(* Steps of the signal objects. *)
LEMMA ObjectStep ==
  ASSUME IInv, UNCHANGED frames, there' \subseteq Signals,
         pimpl' \in [Signals -> Impls \cup {None}], slots' \in [Impls -> SUBSET Slot],
         OneOwner'
  PROVE  IInv'
BY DEF IInv, TypeOK, StacksOK

LEMMA ConstructStep ==
  ASSUME IInv, NEW s \in Signals, Construct(s)
  PROVE  IInv'
<1>1. PICK i \in Impls :
        /\ s \notin there
        /\ Unused(i)
        /\ there' = there \cup {s}
        /\ pimpl' = [pimpl EXCEPT ![s] = i]
        /\ UNCHANGED <<slots, frames>>
  BY DEF Construct
<1>2. /\ there' \subseteq Signals /\ pimpl' \in [Signals -> Impls \cup {None}]
      /\ slots' \in [Impls -> SUBSET Slot]
  BY <1>1 DEF IInv, TypeOK
<1>3. \A t \in there : pimpl'[t] = pimpl[t] /\ pimpl[t] # i
  BY <1>1 DEF IInv, TypeOK, Unused, InUse, Alive
<1>4. OneOwner'
  BY <1>1, <1>3 DEF IInv, TypeOK, OneOwner
<1> QED BY <1>1, <1>2, <1>4, ObjectStep

LEMMA MoveStep ==
  ASSUME IInv, NEW s \in Signals, NEW t \in Signals, MoveConstruct(s, t) \/ MoveAssign(s, t)
  PROVE  IInv'
<1>1. /\ t \in there /\ s # t
      /\ there' = there \cup {s}
      /\ pimpl' = [pimpl EXCEPT ![s] = pimpl[t], ![t] = None]
      /\ UNCHANGED frames
      /\ slots' = slots \/ GoneWithSignals(slots)
  BY DEF MoveConstruct, MoveAssign
<1>2. /\ there' \subseteq Signals /\ pimpl' \in [Signals -> Impls \cup {None}]
      /\ slots' \in [Impls -> SUBSET Slot]
  BY <1>1, GoneType DEF IInv, TypeOK
<1>3. /\ pimpl'[s] = pimpl[t] /\ pimpl'[t] = None
      /\ \A u \in Signals \ {s, t} : pimpl'[u] = pimpl[u]
  BY <1>1 DEF IInv, TypeOK
<1>4. OneOwner'
  BY <1>1, <1>3 DEF IInv, TypeOK, OneOwner
<1> QED BY <1>1, <1>2, <1>4, ObjectStep

LEMMA SwapStep ==
  ASSUME IInv, NEW s \in Signals, NEW t \in Signals, Swap(s, t)
  PROVE  IInv'
<1>1. /\ s \in there /\ t \in there
      /\ pimpl' = [pimpl EXCEPT ![s] = pimpl[t], ![t] = pimpl[s]]
      /\ UNCHANGED <<there, slots, frames>>
  BY DEF Swap
<1>2. pimpl' \in [Signals -> Impls \cup {None}]
  BY <1>1 DEF IInv, TypeOK
<1>3. /\ pimpl'[s] = pimpl[t] /\ pimpl'[t] = pimpl[s]
      /\ \A u \in Signals \ {s, t} : pimpl'[u] = pimpl[u]
  BY <1>1 DEF IInv, TypeOK
<1>4. OneOwner'
  BY <1>1, <1>3 DEF IInv, TypeOK, OneOwner
<1> QED BY <1>1, <1>2, <1>4, ObjectStep DEF IInv, TypeOK

LEMMA DestroyStep ==
  ASSUME IInv, NEW s \in Signals, Destroy(s)
  PROVE  IInv'
<1>1. /\ there' = there \ {s}
      /\ pimpl' = [pimpl EXCEPT ![s] = None]
      /\ UNCHANGED frames
      /\ GoneWithSignals(slots)
  BY DEF Destroy
<1>2. /\ pimpl' \in [Signals -> Impls \cup {None}] /\ \A u \in there' : pimpl'[u] = pimpl[u]
      /\ slots' \in [Impls -> SUBSET Slot]
  BY <1>1, GoneType DEF IInv, TypeOK
<1>3. OneOwner'
  BY <1>1, <1>2 DEF IInv, OneOwner
<1> QED BY <1>1, <1>2, <1>3, ObjectStep DEF IInv, TypeOK

LEMMA ConnectSignalStep ==
  ASSUME IInv, NEW s \in Signals, NEW t \in Signals, ConnectSignal(s, t)
  PROVE  IInv'
<1>1. /\ pimpl[s] \in Impls /\ pimpl[t] \in Impls
      /\ UNCHANGED <<there, pimpl, frames>>
  BY DEF ConnectSignal, IInv, TypeOK
<1>2. PICK swept : slots' = [slots EXCEPT ![pimpl[s]] =
                     (slots[pimpl[s]] \ swept) \cup {[to |-> pimpl[t], connected |-> TRUE]}]
  BY DEF ConnectSignal
<1>3. (slots[pimpl[s]] \ swept) \cup {[to |-> pimpl[t], connected |-> TRUE]} \in SUBSET Slot
  <2>1. slots[pimpl[s]] \in SUBSET Slot
    BY <1>1 DEF IInv, TypeOK
  <2>2. [to |-> pimpl[t], connected |-> TRUE] \in Slot
    BY <1>1 DEF Slot
  <2> QED BY <2>1, <2>2
<1>4. slots' \in [Impls -> SUBSET Slot]
  BY <1>2, <1>3 DEF IInv, TypeOK
<1> QED BY <1>1, <1>4, CallStep DEF IInv

LEMMA DisconnectSignalStep ==
  ASSUME IInv, NEW s \in Signals, NEW t \in Signals, DisconnectSignal(s, t)
  PROVE  IInv'
<1>1. /\ pimpl[s] \in Impls /\ DisconnectIn(pimpl[s], pimpl[t], frames)
      /\ UNCHANGED <<there, pimpl>>
  BY DEF DisconnectSignal, IInv, TypeOK
<1>2. StacksOK(frames') /\ slots' \in [Impls -> SUBSET Slot]
  BY <1>1, DisconnectOK DEF IInv
<1> QED BY <1>1, <1>2, CallStep

(* A call begins: of a signal object, or of a slot that is a signal. *)
LEMMA EnterStep ==
  ASSUME IInv, NEW p \in Procs, NEW i \in Impls, NEW via \in {"signal", "slot"},
         NEW strong \in Impls \cup {None}, via = "slot" => strong = i,
         NEW before, StacksOK(before),
         Enter(p, i, via, strong, before), UNCHANGED <<there, pimpl>>
  PROVE  IInv'
<1> DEFINE new == [impl |-> i, via |-> via, strong |-> strong,
                   todo |-> slots'[i], plain |-> PlainSlots, held |-> None,
                   next |-> None, excess |-> 0, at |-> "list"]
<1>1. slots' \in [Impls -> SUBSET Slot]
  <2>1. PICK swept : slots' = [slots EXCEPT ![i] = slots[i] \ swept]
    BY DEF Enter
  <2>2. slots[i] \ swept \in SUBSET Slot
    BY DEF IInv, TypeOK
  <2> QED BY <2>1, <2>2 DEF IInv, TypeOK
<1>2. frames' = [before EXCEPT ![p] = Append(before[p], new)]
  BY DEF Enter
<1>3. /\ new \in Frame /\ new.at = "list" /\ new.via = via
      /\ new.strong = strong /\ new.impl = i
  <2>1. slots'[i] \in SUBSET Slot /\ PlainSlots \in 0..PlainSlots
    BY <1>1, LifetimeAssumption
  <2> DEFINE todo == slots'[i]
  <2> HIDE DEF todo
  <2> SUFFICES [impl |-> i, via |-> via, strong |-> strong, todo |-> todo,
                plain |-> PlainSlots, held |-> None, next |-> None, excess |-> 0,
                at |-> "list"] \in Frame
    BY DEF todo
  <2>2. todo \in SUBSET Slot
    BY <2>1 DEF todo
  <2> QED BY <2>1, <2>2 DEF Frame
<1> HIDE DEF new
<1>4. FrameOK(new)
  BY <1>3 DEF FrameOK
<1>5. StacksOK(frames')
  BY <1>2, <1>4, AppendOK
<1> QED BY <1>1, <1>5, CallStep

LEMMA CallSignalStep ==
  ASSUME IInv, NEW p \in Procs, NEW s \in Signals, CallSignal(p, s)
  PROVE  IInv'
<1>1. /\ pimpl[s] \in Impls
      /\ Enter(p, pimpl[s], "signal", None, frames)
      /\ UNCHANGED <<there, pimpl>>
  BY DEF CallSignal, IInv, TypeOK
<1> QED BY <1>1, EnterStep DEF IInv

(* The signal_impl is there: the caller holds it. *)
LEMMA CallSlotStep ==
  ASSUME IInv, NEW p \in Procs, CallSlot(p)
  PROVE  IInv'
<1> DEFINE j == Top(p).next
           f == [Top(p) EXCEPT !.next = None, !.at = "list"]
<1>1. /\ frames[p] # << >> /\ Top(p).at = "grabbed"
      /\ Enter(p, j, "slot", IF Alive(j) THEN j ELSE None, Replace(p, f))
      /\ UNCHANGED <<there, pimpl>>
  BY DEF CallSlot, AboutToCall
<1>2. FrameOK(Top(p)) /\ Top(p) \in Frame /\ Top(p) \in AllFrames
  BY <1>1, TopOK
<1>3. j \in Impls /\ Alive(j)
  BY <1>1, <1>2 DEF FrameOK, Alive
<1>4. FrameOK(f)
  <2>1. /\ f \in Frame /\ f.at = "list" /\ f.via = Top(p).via
        /\ f.strong = Top(p).strong /\ f.impl = Top(p).impl
    BY <1>2 DEF Frame
  <2> HIDE DEF f
  <2> QED BY <1>2, <2>1 DEF FrameOK
<1> HIDE DEF f, j
<1>5. StacksOK(Replace(p, f))
  BY <1>1, <1>4, ReplaceOK
<1>6. Enter(p, j, "slot", j, Replace(p, f))
  BY <1>1, <1>3
<1> QED BY <1>1, <1>3, <1>5, <1>6, EnterStep

(* A call comes to another place. *)
LEMMA FrameMoved ==
  ASSUME NEW f, FrameOK(f), NEW todo \in SUBSET Slot, NEW plain \in 0..PlainSlots,
         NEW excess \in Int, NEW at \in {"list", "slot", "janitor"},
         NEW held \in Impls \cup {None}
  PROVE  FrameOK([f EXCEPT !.todo = todo, !.plain = plain, !.excess = excess,
                           !.at = at, !.held = held])
<1> DEFINE g == [f EXCEPT !.todo = todo, !.plain = plain, !.excess = excess,
                          !.at = at, !.held = held]
<1>1. f \in Frame
  BY DEF FrameOK
<1>2. /\ g \in Frame /\ g.at = at /\ g.via = f.via /\ g.strong = f.strong
      /\ g.impl = f.impl
  BY <1>1 DEF Frame
<1> HIDE DEF g
<1>3. FrameOK(g)
  BY <1>2 DEF FrameOK
<1> QED BY <1>3 DEF g

LEMMA ReachSlotStep ==
  ASSUME IInv, NEW p \in Procs, ReachSlot(p)
  PROVE  IInv'
<1>1. frames[p] # << >> /\ Top(p).at = "list" /\ UNCHANGED <<there, pimpl>>
  BY DEF ReachSlot, AtList
<1>2. FrameOK(Top(p)) /\ Top(p) \in Frame
  BY <1>1, TopOK
<1>3. PICK r \in Top(p).todo :
        \/ frames' = Replace(p, Grabbed(Top(p), r)) /\ UNCHANGED slots
        \/ DisconnectIn(Top(p).impl, r.to, Replace(p, Skipped(Top(p), r)))
        \/ frames' = Replace(p, Skipped(Top(p), r)) /\ UNCHANGED slots
  BY DEF ReachSlot
<1>4. /\ Top(p).impl \in Impls /\ r.to \in Impls /\ Top(p).todo \ {r} \in SUBSET Slot
      /\ Top(p).excess - 1 \in Int /\ Top(p).excess + 1 \in Int
  BY <1>2 DEF Frame, Slot
<1>5. FrameOK(Grabbed(Top(p), r))
  <2> DEFINE g == Grabbed(Top(p), r)
  <2>1. g = [Top(p) EXCEPT !.todo = Top(p).todo \ {r}, !.held = r.to, !.next = r.to,
                           !.excess = Top(p).excess - 1, !.at = "grabbed"]
    BY DEF Grabbed
  <2>2. /\ g \in Frame /\ g.at = "grabbed" /\ g.held = r.to /\ g.next = r.to
        /\ g.via = Top(p).via /\ g.strong = Top(p).strong /\ g.impl = Top(p).impl
    BY <1>2, <1>4, <2>1 DEF Frame
  <2> HIDE DEF g
  <2>3. FrameOK(g)
    BY <1>2, <1>4, <2>2 DEF FrameOK
  <2> QED BY <2>3 DEF g
<1>6. FrameOK(Skipped(Top(p), r))
  <2> DEFINE g == Skipped(Top(p), r)
  <2>1. g = [Top(p) EXCEPT !.todo = Top(p).todo \ {r}, !.excess = Top(p).excess + 1]
    BY DEF Skipped
  <2>2. /\ g \in Frame /\ g.at = "list"
        /\ g.via = Top(p).via /\ g.strong = Top(p).strong /\ g.impl = Top(p).impl
    BY <1>1, <1>2, <1>4, <2>1 DEF Frame
  <2> HIDE DEF g
  <2>3. FrameOK(g)
    BY <1>2, <2>2 DEF FrameOK
  <2> QED BY <2>3 DEF g
<1>7. StacksOK(Replace(p, Grabbed(Top(p), r))) /\ StacksOK(Replace(p, Skipped(Top(p), r)))
  BY <1>1, <1>5, <1>6, ReplaceOK
<1>8. StacksOK(frames') /\ slots' \in [Impls -> SUBSET Slot]
  BY <1>3, <1>4, <1>7, DisconnectOK DEF IInv, TypeOK
<1> QED BY <1>1, <1>8, CallStep

LEMMA OtherCallStep ==
  ASSUME IInv, NEW p \in Procs,
         \/ ClearTracked(p) \/ ReachPlainSlot(p) \/ SlotReturns(p)
         \/ LeaveList(p) \/ Janitor(p)
  PROVE  IInv'
<1>1. frames[p] # << >> /\ UNCHANGED <<there, pimpl>>
  BY DEF ClearTracked, ReachPlainSlot, SlotReturns, LeaveList, Janitor, AtList
<1>2. FrameOK(Top(p)) /\ Top(p) \in Frame
  BY <1>1, TopOK
<1>3. slots' \in [Impls -> SUBSET Slot]
  <2>1. slots \in [Impls -> SUBSET Slot]
    BY DEF IInv, TypeOK
  <2>2. [slots EXCEPT ![Top(p).impl] = @ \ Disconnected(@)] \in [Impls -> SUBSET Slot]
    BY <2>1 DEF Disconnected
  <2> QED BY <2>1, <2>2, GoneType
          DEF ClearTracked, ReachPlainSlot, SlotReturns, LeaveList, Janitor
<1> DEFINE moved(todo, plain, excess, at, held) ==
             [Top(p) EXCEPT !.todo = todo, !.plain = plain, !.excess = excess,
                            !.at = at, !.held = held]
<1>4. ASSUME NEW todo \in SUBSET Slot, NEW plain \in 0..PlainSlots, NEW excess \in Int,
             NEW at \in {"list", "slot", "janitor"}, NEW held \in Impls \cup {None}
      PROVE  StacksOK(Replace(p, moved(todo, plain, excess, at, held)))
  <2>1. FrameOK(moved(todo, plain, excess, at, held))
    BY <1>2, FrameMoved
  <2> HIDE DEF moved
  <2> QED BY <1>1, <2>1, ReplaceOK
<1>5. /\ Top(p).todo \in SUBSET Slot /\ Top(p).plain \in 0..PlainSlots
      /\ Top(p).excess \in Int /\ Top(p).held \in Impls \cup {None}
  BY <1>2 DEF Frame
<1>6. StacksOK(frames')
  <2>1. ASSUME ClearTracked(p) PROVE StacksOK(frames')
    <3>1. [Top(p) EXCEPT !.held = None] =
             moved(Top(p).todo, Top(p).plain, Top(p).excess, "list", None)
      BY <1>2, <2>1 DEF ClearTracked, AtList, Frame
    <3>2. frames' = Replace(p, [Top(p) EXCEPT !.held = None])
      BY <2>1 DEF ClearTracked
    <3> HIDE DEF moved
    <3> QED BY <1>4, <1>5, <3>1, <3>2
  <2>2. ASSUME ReachPlainSlot(p) PROVE StacksOK(frames')
    <3>1. /\ Top(p).plain - 1 \in 0..PlainSlots
          /\ Top(p).excess + 1 \in Int /\ Top(p).excess - 1 \in Int
      BY <1>5, <2>2, LifetimeAssumption DEF ReachPlainSlot
    <3>2. [Top(p) EXCEPT !.plain = @ - 1, !.excess = @ + 1] =
             moved(Top(p).todo, Top(p).plain - 1, Top(p).excess + 1, "list", Top(p).held)
      BY <1>2, <2>2 DEF ReachPlainSlot, AtList, Frame
    <3>3. [Top(p) EXCEPT !.plain = @ - 1, !.excess = @ - 1, !.at = "slot"] =
             moved(Top(p).todo, Top(p).plain - 1, Top(p).excess - 1, "slot", Top(p).held)
      BY <1>2 DEF Frame
    <3>4. \/ frames' = Replace(p, [Top(p) EXCEPT !.plain = @ - 1, !.excess = @ + 1])
          \/ frames' = Replace(p, [Top(p) EXCEPT !.plain = @ - 1, !.excess = @ - 1,
                                                 !.at = "slot"])
      BY <2>2 DEF ReachPlainSlot
    <3> HIDE DEF moved
    <3>5. StacksOK(Replace(p, moved(Top(p).todo, Top(p).plain - 1, Top(p).excess + 1, "list",
                                    Top(p).held)))
      BY <1>4, <1>5, <3>1
    <3>6. StacksOK(Replace(p, moved(Top(p).todo, Top(p).plain - 1, Top(p).excess - 1, "slot",
                                    Top(p).held)))
      BY <1>4, <1>5, <3>1
    <3> QED BY <3>2, <3>3, <3>4, <3>5, <3>6
  <2>3. ASSUME SlotReturns(p) PROVE StacksOK(frames')
    <3>1. [Top(p) EXCEPT !.at = "list"] =
             moved(Top(p).todo, Top(p).plain, Top(p).excess, "list", Top(p).held)
      BY <1>2 DEF Frame
    <3>2. frames' = Replace(p, [Top(p) EXCEPT !.at = "list"])
      BY <2>3 DEF SlotReturns
    <3> HIDE DEF moved
    <3> QED BY <1>4, <1>5, <3>1, <3>2
  <2>4. ASSUME LeaveList(p) PROVE StacksOK(frames')
    <3>1. [Top(p) EXCEPT !.at = "janitor", !.excess = 0, !.todo = {}, !.plain = 0] =
             moved({}, 0, 0, "janitor", Top(p).held)
      BY <1>2 DEF Frame
    <3>2. {} \in SUBSET Slot /\ 0 \in 0..PlainSlots /\ 0 \in Int
      BY LifetimeAssumption
    <3>3. \/ frames' = Replace(p, [Top(p) EXCEPT !.at = "janitor", !.excess = 0,
                                                 !.todo = {}, !.plain = 0])
          \/ frames' = Popped(p)
      BY <2>4 DEF LeaveList
    <3> HIDE DEF moved
    <3>4. StacksOK(Replace(p, moved({}, 0, 0, "janitor", Top(p).held)))
      BY <1>4, <1>5, <3>2
    <3> QED BY <1>1, <3>1, <3>3, <3>4, PoppedOK
  <2>5. ASSUME Janitor(p) PROVE StacksOK(frames')
    <3>1. frames' = Popped(p)
      BY <2>5 DEF Janitor
    <3> QED BY <1>1, <3>1, PoppedOK
  <2> QED BY <2>1, <2>2, <2>3, <2>4, <2>5
<1> QED BY <1>1, <1>3, <1>6, CallStep

LEMMA InitIInv == Init => IInv
<1> SUFFICES ASSUME Init PROVE IInv
  OBVIOUS
<1>1. TypeOK
  BY DEF Init, TypeOK
<1>2. StacksOK(frames)
  <2>1. << >> \in Seq(Frame) /\ DOMAIN << >> = {}
    OBVIOUS
  <2> QED BY <2>1 DEF Init, StacksOK
<1> QED BY <1>1, <1>2 DEF Init, IInv, OneOwner

LEMMA NextIInv ==
  ASSUME IInv, [Next]_vars
  PROVE  IInv'
<1>1. CASE UNCHANGED vars
  BY <1>1, CallStep DEF vars, IInv, TypeOK
<1>2. CASE UserStep
  BY <1>2, ConstructStep, DestroyStep, MoveStep, SwapStep, ConnectSignalStep,
     DisconnectSignalStep DEF UserStep
<1> QED BY <1>1, <1>2, CallSignalStep, ReachSlotStep, CallSlotStep, OtherCallStep DEF Next

-----------------------------------------------------------------------------
(* Every reachable state satisfies the invariant.                            *)
THEOREM LifetimeInvariant == Spec => []IInv
<1>1. IInv /\ [Next]_vars => IInv'
  BY NextIInv
<1> QED BY InitIInv, <1>1, PTL DEF Spec

(* However signals are moved and swapped, no two own the same signal_impl.   *)
THEOREM OneOwnerAlways == Spec => []OneOwner
<1>1. IInv => OneOwner
  BY DEF IInv
<1> QED BY <1>1, LifetimeInvariant, PTL

(* A signal that is a slot of another is there when it is called, and until  *)
(* that call has returned, whatever the program does with it meanwhile.      *)
THEOREM NestedCallsAliveAlways == Spec => []NestedCallsAlive
<1>1. IInv => NestedCallsAlive
  <2> SUFFICES ASSUME IInv, NEW f \in AllFrames
               PROVE  /\ f.at = "grabbed" => Alive(f.next)
                      /\ f.via = "slot" => f.strong = f.impl
    BY DEF NestedCallsAlive
  <2>1. FrameOK(f)
    BY DEF IInv, StacksOK, AllFrames, Frames
  <2> QED BY <2>1 DEF FrameOK, Alive
<1> QED BY <1>1, LifetimeInvariant, PTL
=============================================================================
