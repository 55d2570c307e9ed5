---------------------------- MODULE SignalProofs ----------------------------
(* Proofs about the core of a signal, for any number of calls, connection    *)
(* bodies and objects, and lists of any length; and, in the last part, about *)
(* what an invocation computes, as Emission has it.                          *)
(*                                                                           *)
(* The programs of Spec do not call set_combiner, and must not here: with    *)
(* it a list can be modified under a reader (SnapshotStable fails in the run *)
(* combiner_snapshot), and with the list go the bodies the readers are at.   *)
(* What depends on this is said by a hypothesis of its own, SharedUnread, so *)
(* that the lemmas serve the programs of EmissionSpec too, which set it.     *)
EXTENDS Emission, SlotOrderProofs

-----------------------------------------------------------------------------
(* The inductive invariant.                                                  *)

(* What a process may rely on when it leaves one critical section and until  *)
(* it enters the next.                                                       *)
ProcessOK(p) ==
    /\ pc[p] = "idle" <=> local[p] = None
    /\ local[p] # None => {iter[p], stop[p]} \subseteq ToSet(lists[local[p].list]) \cup {End}
    /\ active[p] # None => local[p] # None /\ active[p] \in ToSet(lists[local[p].list])
    /\ pc[p] \in Invoking \cup {"idle"} => stop[p] = End
    /\ pc[p] \in {"end", "janitor", "cache"} => iter[p] = End
    /\ pc[p] \in Walks \cup {"idle", "release"} => active[p] = None
    /\ pc[p] = "calling" =>
          active[p] = iter[p] /\ active[p] # None /\ Tracked[iter[p]] \subseteq held[p]

IInv ==
    /\ TypeOK
    /\ RefcountExact
    /\ \A p \in Procs : ProcessOK(p)

-----------------------------------------------------------------------------
(* Connection bodies and their reference counts.                             *)

BodyRecord == [connected : BOOLEAN, refcount : Nat, slot : BOOLEAN]

(* A record that n invocations are at. *)
Exact(r, n) ==
    /\ r.refcount = n + IF r.connected THEN 1 ELSE 0
    /\ r.slot <=> r.refcount # 0

UsersIn(act, b) == {p \in Procs : act[p] = b}

BodiesOK(bd, act) ==
    /\ bd \in [Bodies -> BodyRecord]
    /\ \A b \in Bodies : Exact(bd[b], Cardinality(UsersIn(act, b)))

LEMMA DecExact ==
  ASSUME NEW r \in BodyRecord, NEW n \in Nat, Exact(r, n + 1)
  PROVE  /\ dec_slot_refcount(r) \in BodyRecord
         /\ dec_slot_refcount(r).connected = r.connected
         /\ Exact(dec_slot_refcount(r), n)
<1>1. /\ r.connected \in BOOLEAN /\ r.refcount \in Nat /\ r.slot \in BOOLEAN
  BY DEF BodyRecord
<1>3. r.refcount = n + 1 + (IF r.connected THEN 1 ELSE 0) /\ r.slot
  BY <1>1 DEF Exact
<1>4. r.refcount - 1 \in Nat
  BY <1>1, <1>3
<1> QED BY <1>1, <1>3, <1>4 DEF BodyRecord, Exact, dec_slot_refcount

LEMMA IncExact ==
  ASSUME NEW r \in BodyRecord, NEW n \in Nat, Exact(r, n), r.connected
  PROVE  /\ inc_slot_refcount(r) \in BodyRecord
         /\ Exact(inc_slot_refcount(r), n + 1)
BY DEF BodyRecord, Exact, inc_slot_refcount

LEMMA DisconnectExact ==
  ASSUME NEW r \in BodyRecord, NEW n \in Nat, Exact(r, n)
  PROVE  /\ nolock_disconnect(r) \in BodyRecord
         /\ ~nolock_disconnect(r).connected
         /\ Exact(nolock_disconnect(r), n)
<1> DEFINE d == [r EXCEPT !.connected = FALSE]
<1>1. r.connected \in BOOLEAN
  BY DEF BodyRecord
<1>2. d \in BodyRecord /\ ~d.connected /\ d.refcount = r.refcount /\ d.slot = r.slot
  BY DEF BodyRecord
<1> HIDE DEF d
<1>3. CASE r.connected
  <2>1. Exact(d, n + 1)
    BY <1>2, <1>3 DEF Exact, BodyRecord
  <2>2. /\ dec_slot_refcount(d) \in BodyRecord
        /\ dec_slot_refcount(d).connected = d.connected
        /\ Exact(dec_slot_refcount(d), n)
    BY <1>2, <2>1, DecExact
  <2>3. nolock_disconnect(r) = dec_slot_refcount(d)
    BY <1>3 DEF nolock_disconnect, d
  <2> QED BY <1>2, <2>2, <2>3
<1>4. CASE ~r.connected
  BY <1>4 DEF nolock_disconnect
<1> QED BY <1>1, <1>3, <1>4

LEMMA UsersFinite ==
  ASSUME NEW act, NEW b
  PROVE  IsFiniteSet(UsersIn(act, b)) /\ Cardinality(UsersIn(act, b)) \in Nat
<1>1. UsersIn(act, b) \in SUBSET Procs
  BY DEF UsersIn
<1>2. IsFiniteSet(UsersIn(act, b))
  BY <1>1, FS_Subset, SignalAssumption
<1> QED BY <1>2, FS_CardinalityType

(* An invocation that moves from one body to another is one user less of the *)
(* one and one more of the other.                                            *)
LEMMA UsersMoved ==
  ASSUME NEW act \in [Procs -> Bodies \cup {None}], NEW p \in Procs,
         NEW new \in Bodies \cup {None}, NEW b \in Bodies
  PROVE  LET before == Cardinality(UsersIn(act, b))
             after  == Cardinality(UsersIn([act EXCEPT ![p] = new], b))
         IN  /\ b = new /\ b # act[p] => after = before + 1
             /\ b # new /\ b = act[p] => before = after + 1
             /\ (b = new <=> b = act[p]) => after = before
<1> DEFINE U == UsersIn(act, b)
           V == UsersIn([act EXCEPT ![p] = new], b)
<1>1. IsFiniteSet(U) /\ IsFiniteSet(V)
  BY UsersFinite
<1>2. CASE b = new /\ b # act[p]
  <2>1. V = U \cup {p} /\ p \notin U
    BY <1>2 DEF UsersIn
  <2> QED BY <1>1, <1>2, <2>1, FS_AddElement
<1>3. CASE b # new /\ b = act[p]
  <2>1. U = V \cup {p} /\ p \notin V
    BY <1>3 DEF UsersIn
  <2> QED BY <1>1, <1>3, <2>1, FS_AddElement
<1>4. CASE b = new <=> b = act[p]
  <2>1. V = U
    BY <1>4 DEF UsersIn
  <2> QED BY <1>4, <2>1
<1> QED BY <1>2, <1>3, <1>4

(* set_active_slot keeps the counts exact: it moves one user.                *)
LEMMA SetActiveExact ==
  ASSUME NEW bd, NEW act \in [Procs -> Bodies \cup {None}], BodiesOK(bd, act),
         NEW p \in Procs, NEW new \in Bodies \cup {None},
         new # None => bd[new].connected
  PROVE  BodiesOK(set_active_slot(bd, act[p], new), [act EXCEPT ![p] = new])
<1> DEFINE bd2 == set_active_slot(bd, act[p], new)
           act2 == [act EXCEPT ![p] = new]
<1>1. ASSUME NEW b \in Bodies
      PROVE  bd2[b] \in BodyRecord /\ Exact(bd2[b], Cardinality(UsersIn(act2, b)))
  <2> DEFINE n == Cardinality(UsersIn(act, b))
             n2 == Cardinality(UsersIn(act2, b))
             r == IF b = act[p] THEN dec_slot_refcount(bd[b]) ELSE bd[b]
  <2>1. n \in Nat /\ n2 \in Nat
    BY UsersFinite
  <2>2. bd[b] \in BodyRecord /\ Exact(bd[b], n)
    BY DEF BodiesOK
  <2>3. /\ b = new /\ b # act[p] => n2 = n + 1
        /\ b # new /\ b = act[p] => n = n2 + 1
        /\ (b = new <=> b = act[p]) => n2 = n
    BY UsersMoved
  <2>4. bd2[b] = IF b = new THEN inc_slot_refcount(r) ELSE r
    BY DEF set_active_slot
  <2>5. b = new => bd[b].connected
    BY SignalAssumption
  <2>6. b = act[p] => n # 0
    <3>1. b = act[p] => p \in UsersIn(act, b)
      BY DEF UsersIn
    <3>2. b = act[p] => UsersIn(act, b) # {}
      BY <3>1
    <3> QED BY <3>2, UsersFinite, FS_EmptySet
  <2> SUFFICES bd2[b] \in BodyRecord /\ Exact(bd2[b], n2)
    OBVIOUS
  <2> HIDE DEF n, n2, bd2
  <2>7. CASE b = act[p]
    <3>1. n - 1 \in Nat /\ (n - 1) + 1 = n
      BY <2>1, <2>6, <2>7
    <3>2. r \in BodyRecord /\ r.connected = bd[b].connected /\ Exact(r, n - 1)
      BY <2>2, <2>7, <3>1, DecExact
    <3> HIDE DEF r
    <3>3. CASE b = new
      <4>1. inc_slot_refcount(r) \in BodyRecord /\ Exact(inc_slot_refcount(r), n)
        BY <2>5, <3>1, <3>2, <3>3, IncExact
      <4> QED BY <2>3, <2>4, <2>7, <3>3, <4>1
    <3>4. CASE b # new
      <4>1. n2 = n - 1
        BY <2>1, <2>3, <2>7, <3>4
      <4> QED BY <2>4, <3>2, <3>4, <4>1
    <3> QED BY <3>3, <3>4
  <2>8. CASE b # act[p]
    <3>1. r = bd[b]
      BY <2>8
    <3> HIDE DEF r
    <3>2. CASE b = new
      <4>1. inc_slot_refcount(r) \in BodyRecord /\ Exact(inc_slot_refcount(r), n + 1)
        BY <2>1, <2>2, <2>5, <3>1, <3>2, IncExact
      <4> QED BY <2>3, <2>4, <2>8, <3>2, <4>1
    <3>3. CASE b # new
      BY <2>2, <2>3, <2>4, <2>8, <3>1, <3>3
    <3> QED BY <3>2, <3>3
  <2> QED BY <2>7, <2>8
<1>2. bd2 = [b \in Bodies |-> bd2[b]]
  BY DEF set_active_slot
<1> QED BY <1>1, <1>2 DEF BodiesOK

(* Disconnecting a body, and checking whether its slot has expired, keep the *)
(* counts exact too.                                                         *)
LEMMA BodyChanged ==
  ASSUME NEW bd, NEW act, BodiesOK(bd, act), NEW b \in Bodies,
         NEW r \in {bd[b], nolock_disconnect(bd[b])}
  PROVE  BodiesOK([bd EXCEPT ![b] = r], act)
<1>1. \A c \in Bodies : Cardinality(UsersIn(act, c)) \in Nat
  BY UsersFinite
<1>2. r \in BodyRecord /\ Exact(r, Cardinality(UsersIn(act, b)))
  BY <1>1, DisconnectExact DEF BodiesOK
<1> QED BY <1>2 DEF BodiesOK

LEMMA CleanedBodiesOK ==
  ASSUME NEW act, BodiesOK(body, act), NEW list, NEW from, NEW count
  PROVE  BodiesOK(CleanedBodies(list, from, count), act)
<1> DEFINE bd == CleanedBodies(list, from, count)
<1>1. ASSUME NEW b \in Bodies
      PROVE  bd[b] \in BodyRecord /\ Exact(bd[b], Cardinality(UsersIn(act, b)))
  <2>1. bd[b] = body[b] \/ bd[b] = nolock_disconnect(body[b])
    BY DEF CleanedBodies, disconnect_expired_slot
  <2>2. Cardinality(UsersIn(act, b)) \in Nat
    BY UsersFinite
  <2>3. body[b] \in BodyRecord /\ Exact(body[b], Cardinality(UsersIn(act, b)))
    BY DEF BodiesOK
  <2> QED BY <2>1, <2>2, <2>3, DisconnectExact
<1>2. bd = [b \in Bodies |-> bd[b]]
  BY DEF CleanedBodies
<1> QED BY <1>1, <1>2 DEF BodiesOK

-----------------------------------------------------------------------------
(* The parts of the invariant that a step can disturb.                       *)

LEMMA BodiesInIInv ==
  ASSUME IInv
  PROVE  /\ BodiesOK(body, active)
         /\ active \in [Procs -> Bodies \cup {None}]
BY DEF IInv, TypeOK, RefcountExact, BodiesOK, BodyRecord, Exact, Users, UsersIn

LEMMA BodiesInIInvNext ==
  ASSUME BodiesOK(body', active')
  PROVE  /\ body' \in [Bodies -> BodyRecord]
         /\ RefcountExact'
BY DEF RefcountExact, BodiesOK, BodyRecord, Exact, Users, UsersIn

(* Steps that change nothing of the lists and nothing of the processes.      *)
LEMMA BodyStep ==
  ASSUME IInv, BodiesOK(body', active), blocked' \subseteq Bodies, owned' \subseteq Objs,
         UNCHANGED <<listVars, procVars>>
  PROVE  IInv'
<1>1. active' = active
  BY DEF procVars
<1>2. body' \in [Bodies -> BodyRecord] /\ RefcountExact'
  BY <1>1, BodiesInIInvNext
<1>3. TypeOK'
  BY <1>2 DEF IInv, TypeOK, BodyRecord, listVars, procVars, walkVars
<1>5. \A p \in Procs : ProcessOK(p)'
  BY DEF IInv, ProcessOK, listVars, procVars, walkVars
<1> QED BY <1>2, <1>3, <1>5 DEF IInv

(* No process reads the list l.                                              *)
Unread(l) == \A p \in Procs : local[p] # None => local[p].list # l

(* A list that is modified because the state is unique is read by nobody.    *)
SharedUnread == Unique => Unread(shared.list)

(* In programs that do not call set_combiner all states have one combiner,   *)
(* and differ in their lists.                                                *)
OneCombiner == \A p \in Procs : local[p] # None => local[p].comb = shared.comb

LEMMA UniqueUnread ==
  ASSUME IInv, OneCombiner
  PROVE  SharedUnread
<1>1. shared \in States /\ local \in [Procs -> States \cup {None}]
  BY DEF IInv, TypeOK
<1>2. ASSUME Unique, NEW p \in Procs, local[p] # None, local[p].list = shared.list PROVE FALSE
  <2>1. local[p] \in States /\ local[p].comb = shared.comb
    BY <1>1, <1>2 DEF OneCombiner
  <2>2. local[p] = shared
    BY <1>1, <1>2, <2>1 DEF States
  <2> QED BY <1>2, <2>2 DEF Unique
<1> QED BY <1>2 DEF Unread, SharedUnread

LEMMA FreeUnread ==
  ASSUME NEW l \in FreeLists
  PROVE  l \in Lists /\ Unread(l)
<1>1. ASSUME NEW p \in Procs, local[p] # None, local[p].list = l PROVE FALSE
  <2>1. local[p] \in UsedStates
    BY <1>1 DEF UsedStates
  <2> QED BY <1>1, <2>1 DEF FreeLists
<1> QED BY <1>1 DEF Unread, FreeLists

(* The list that a step modifies is the current one, or a free one.          *)
LEMMA ModifiedListType ==
  ASSUME IInv, Unique \/ FreeLists # {}
  PROVE  LET l == IF Unique THEN shared.list ELSE CHOOSE f \in FreeLists : TRUE
         IN  l \in Lists /\ (~Unique => Unread(l))
<1>1. ~Unique => (CHOOSE f \in FreeLists : TRUE) \in FreeLists
  OBVIOUS
<1>2. shared.list \in Lists
  BY DEF IInv, TypeOK, States
<1> QED BY <1>1, <1>2, FreeUnread

LEMMA ModifiedListUnread ==
  ASSUME IInv, SharedUnread, Unique \/ FreeLists # {}
  PROVE  LET l == IF Unique THEN shared.list ELSE CHOOSE f \in FreeLists : TRUE
         IN  l \in Lists /\ Unread(l)
BY ModifiedListType DEF SharedUnread

(* The effect of a sweep on a list is a list, and it ends at a node of it or *)
(* at end().                                                                 *)
LEMMA SweepType ==
  ASSUME NEW list \in Seq(Bodies), NEW from, NEW count, NEW bd, NEW l \in Lists
  PROVE  /\ CleanedList(list, from, count, bd) \in Seq(Bodies)
         /\ GcItAfter(l, list, from, count) \in [list : Lists, node : Bodies \cup {End}]
<1>1. NodeAt(list, SweepEnd(list, from, count)) \in Bodies \cup {End}
  BY NodeAtType, ToSetType
<1> QED BY <1>1, WithoutType DEF CleanedList, GcItAfter

-----------------------------------------------------------------------------
(* Each action preserves the invariant.                                      *)

LEMMA ConnectStep ==
  ASSUME IInv, SharedUnread, NEW b \in Bodies, NEW position \in Positions,
         Connect(b, position)
  PROVE  IInv'
<1> DEFINE list  == lists[shared.list]
           from  == IF Unique THEN SweepStart ELSE Begin(list)
           count == IF Unique THEN 2 ELSE 0
           l     == IF Unique THEN shared.list ELSE CHOOSE f \in FreeLists : TRUE
           bd    == CleanedBodies(list, from, count)
           kept  == CleanedList(list, from, count, bd)
<1>1. /\ Unique \/ FreeLists # {}
      /\ \A m \in Lists \ {l} : b \notin ToSet(lists[m])
      /\ body' = [bd EXCEPT ![b] = NewBody]
      /\ blocked' = blocked \ {b}
      /\ lists' = [lists EXCEPT ![l] = Inserted(kept, KeyOf, b, position)]
      /\ shared' = [shared EXCEPT !.list = l]
      /\ gcIt' = GcItAfter(l, list, from, count)
      /\ UNCHANGED <<owned, combiners, procVars>>
  BY DEF Connect
<1>2. l \in Lists /\ Unread(l)
  BY <1>1, ModifiedListUnread
<1>3. list \in Seq(Bodies)
  BY DEF IInv, TypeOK, States
<1> HIDE DEF list, from, count, l
<1>4. kept \in Seq(Bodies) /\ gcIt' \in [list : Lists, node : Bodies \cup {End}]
  BY <1>1, <1>2, <1>3, SweepType
<1>5. Inserted(kept, KeyOf, b, position) \in Seq(Bodies)
  BY <1>4, InsertedType
<1>6. UsersIn(active, b) = {}
  <2> SUFFICES ASSUME NEW p \in Procs, active[p] = b PROVE FALSE
    BY DEF UsersIn
  <2>1. active[p] # None
    BY SignalAssumption
  <2>2. local[p] # None /\ b \in ToSet(lists[local[p].list])
    BY <2>1 DEF IInv, ProcessOK
  <2>3. local[p].list \in Lists \ {l}
    BY <1>2, <2>2 DEF IInv, TypeOK, States, Unread
  <2> QED BY <1>1, <2>2, <2>3
<1>7. BodiesOK(body', active')
  <2>1. BodiesOK(bd, active)
    BY BodiesInIInv, CleanedBodiesOK
  <2>2. NewBody \in BodyRecord /\ Exact(NewBody, 0)
    BY DEF NewBody, BodyRecord, Exact
  <2>3. Cardinality(UsersIn(active, b)) = 0
    BY <1>6, FS_EmptySet
  <2> HIDE DEF bd
  <2>4. BodiesOK([bd EXCEPT ![b] = NewBody], active)
    BY <2>1, <2>2, <2>3 DEF BodiesOK
  <2> QED BY <1>1, <2>4 DEF procVars
<1>8. body' \in [Bodies -> BodyRecord] /\ RefcountExact'
  BY <1>7, BodiesInIInvNext
<1> HIDE DEF kept, bd
<1>9. TypeOK'
  BY <1>1, <1>2, <1>4, <1>5, <1>8
     DEF IInv, TypeOK, BodyRecord, States, procVars, walkVars
<1>11. ASSUME NEW p \in Procs PROVE ProcessOK(p)'
  <2>1. local[p] # None => lists'[local[p].list] = lists[local[p].list]
    BY <1>1, <1>2 DEF IInv, TypeOK, States, Unread
  <2> QED BY <1>1, <2>1 DEF IInv, ProcessOK, procVars, walkVars
<1> QED BY <1>8, <1>9, <1>11 DEF IInv

(* What other threads do with a connection, or with a tracked object.       *)
LEMMA HandleStep ==
  ASSUME IInv, NEW b \in Bodies, Disconnect(b) \/ Connected(b) \/ Block(b) \/ Unblock(b)
  PROVE  IInv'
<1>1. blocked \subseteq Bodies /\ owned \subseteq Objs
  BY DEF IInv, TypeOK
<1>2. BodiesOK(body, active)
  BY BodiesInIInv
<1>3. BodiesOK([body EXCEPT ![b] = nolock_disconnect(body[b])], active)
  BY <1>2, BodyChanged
<1>4. CASE Disconnect(b)
  BY <1>1, <1>3, <1>4, BodyStep DEF Disconnect
<1>5. CASE Connected(b)
  BY <1>1, <1>2, <1>3, <1>5, BodyStep, BodyChanged DEF Connected, disconnect_expired_slot
<1>6. CASE Block(b)
  BY <1>1, <1>2, <1>6, BodyStep DEF Block
<1>7. CASE Unblock(b)
  BY <1>1, <1>2, <1>7, BodyStep DEF Unblock
<1> QED BY <1>4, <1>5, <1>6, <1>7

LEMMA DropObjectStep ==
  ASSUME IInv, NEW o \in Objs, DropObject(o)
  PROVE  IInv'
<1>1. BodiesOK(body', active) /\ blocked' \subseteq Bodies /\ owned' \subseteq Objs
  BY BodiesInIInv DEF DropObject, IInv, TypeOK
<1> QED BY <1>1, BodyStep DEF DropObject

LEMMA SlotExpiresStep ==
  ASSUME IInv, NEW p \in Procs, SlotExpires(p)
  PROVE  IInv'
<1>1. PICK b \in Bodies :
        /\ body' = [body EXCEPT ![b] = nolock_disconnect(body[b])]
        /\ UNCHANGED <<blocked, owned, listVars, procVars>>
  BY DEF SlotExpires
<1>2. BodiesOK(body', active)
  BY <1>1, BodiesInIInv, BodyChanged
<1> QED BY <1>1, <1>2, BodyStep DEF IInv, TypeOK

(* A step of p leaves alone what the other processes rely on.                *)
Steady(q) ==
    /\ pc'[q] = pc[q] /\ local'[q] = local[q] /\ iter'[q] = iter[q] /\ stop'[q] = stop[q]
    /\ active'[q] = active[q] /\ held'[q] = held[q]
    /\ local[q] # None => lists'[local[q].list] = lists[local[q].list]

LEMMA OtherProcesses ==
  ASSUME IInv, NEW p \in Procs, ProcessOK(p)', \A q \in Procs \ {p} : Steady(q)
  PROVE  \A q \in Procs : ProcessOK(q)'
BY DEF IInv, ProcessOK, Steady

LEMMA InvokeStep ==
  ASSUME IInv, SharedUnread, NEW p \in Procs, Invoke(p)
  PROVE  IInv'
<1> DEFINE list == lists[shared.list]
           kept == IF Unique THEN CleanedList(list, SweepStart, 1, body) ELSE list
<1>1. /\ pc[p] = "idle"
      /\ lists' = [lists EXCEPT ![shared.list] = kept]
      /\ gcIt' = IF Unique THEN GcItAfter(shared.list, list, SweepStart, 1) ELSE gcIt
      /\ pc' = [pc EXCEPT ![p] = IF kept = << >> THEN "end" ELSE "grab"]
      /\ local' = [local EXCEPT ![p] = shared]
      /\ iter' = [iter EXCEPT ![p] = Begin(kept)]
      /\ UNCHANGED <<bodyVars, combiners, shared, stop, target, tally, active, held>>
  BY DEF Invoke
<1>2. shared \in States /\ shared.list \in Lists /\ list \in Seq(Bodies) /\ shared # None
  BY SignalAssumption DEF IInv, TypeOK, States
<1>3. kept \in Seq(Bodies) /\ gcIt' \in [list : Lists, node : Bodies \cup {End}]
  BY <1>1, <1>2, SweepType DEF IInv, TypeOK
<1>4. Begin(kept) \in ToSet(kept) \cup {End} /\ ToSet(kept) \subseteq Bodies
  BY <1>3, BeginType, ToSetType
<1>5. Unread(shared.list) \/ kept = list
  BY DEF SharedUnread
<1> HIDE DEF list, kept
<1>6. BodiesOK(body', active')
  BY <1>1, BodiesInIInv DEF bodyVars
<1>7. body' \in [Bodies -> BodyRecord] /\ RefcountExact'
  BY <1>6, BodiesInIInvNext
<1>8. TypeOK'
  BY <1>1, <1>2, <1>3, <1>4, <1>7
     DEF IInv, TypeOK, BodyRecord, bodyVars, Invoking, Iterating
<1>10. local[p] = None /\ active[p] = None /\ stop[p] = End
  BY <1>1 DEF IInv, ProcessOK
<1>11. lists'[shared.list] = kept
  BY <1>1, <1>2 DEF IInv, TypeOK
<1>12. ProcessOK(p)'
  <2>1. /\ pc'[p] = IF kept = << >> THEN "end" ELSE "grab"
        /\ local'[p] = shared /\ iter'[p] = Begin(kept)
        /\ stop'[p] = End /\ active'[p] = None
    BY <1>1, <1>10 DEF IInv, TypeOK
  <2>2. pc'[p] = "end" => iter'[p] = End
    BY <2>1 DEF Begin
  <2> QED BY <1>2, <1>4, <1>11, <2>1, <2>2 DEF ProcessOK, Walks
<1>13. ASSUME NEW q \in Procs \ {p} PROVE Steady(q)
  <2>1. local[q] # None => lists'[local[q].list] = lists[local[q].list]
    BY <1>1, <1>2, <1>5 DEF IInv, TypeOK, Unread, list
  <2> QED BY <1>1, <2>1 DEF IInv, TypeOK, Steady
<1>14. \A q \in Procs : ProcessOK(q)'
  BY <1>12, <1>13, OtherProcesses
<1> QED BY <1>7, <1>8, <1>14 DEF IInv

LEMMA GrabStep ==
  ASSUME IInv, NEW p \in Procs, Grab(p)
  PROVE  IInv'
<1>1. PICK b \in Bodies :
        LET r  == disconnect_expired_slot(b)
            bd == [body EXCEPT ![b] = r]
        IN  /\ pc[p] = "grab" /\ iter[p] = b
            /\ \E objs \in Grabbed(b) : held' = [held EXCEPT ![p] = objs]
            /\ tally' = [tally EXCEPT ![p] = IF r.connected THEN @ - 1 ELSE @ + 1]
            /\ IF Callable(b, r)
               THEN /\ body' = set_active_slot(bd, active[p], b)
                    /\ active' = [active EXCEPT ![p] = b]
                    /\ pc' = [pc EXCEPT ![p] = "calling"]
               ELSE /\ body' = bd
                    /\ pc' = [pc EXCEPT ![p] = "skipping"]
                    /\ UNCHANGED active
            /\ UNCHANGED <<blocked, owned, listVars, local, iter, stop, target>>
  BY DEF Grab
<1> DEFINE r  == disconnect_expired_slot(b)
           bd == [body EXCEPT ![b] = r]
<1>2. PICK objs \in Grabbed(b) : held' = [held EXCEPT ![p] = objs]
  BY <1>1
<1>3. r = IF Expired(b) THEN nolock_disconnect(body[b]) ELSE body[b]
  BY DEF disconnect_expired_slot
<1>4. BodiesOK(bd, active) /\ body[b] \in BodyRecord
      /\ Exact(body[b], Cardinality(UsersIn(active, b)))
      /\ Cardinality(UsersIn(active, b)) \in Nat
  BY <1>3, BodiesInIInv, BodyChanged, UsersFinite DEF BodiesOK
<1>5. r.connected => ~Expired(b) /\ body[b].slot
  <2>1. ~nolock_disconnect(body[b]).connected
    BY <1>4, DisconnectExact
  <2>2. body[b].connected => body[b].slot
    BY <1>4 DEF BodyRecord, Exact
  <2> QED BY <1>3, <2>1, <2>2
<1>6. r.connected => objs = Tracked[b]
  BY <1>5 DEF Grabbed
<1>7. objs \subseteq Objs
  BY SignalAssumption DEF Grabbed
<1>8. bd[b] = r
  BY DEF IInv, TypeOK
<1> HIDE DEF r, bd
<1>9. CASE Callable(b, r)
  <2>1. BodiesOK(body', active')
    <3>1. bd[b].connected
      BY <1>8, <1>9 DEF Callable
    <3>2. BodiesOK(set_active_slot(bd, active[p], b), [active EXCEPT ![p] = b])
      BY <1>4, <3>1, BodiesInIInv, SetActiveExact
    <3> QED BY <1>1, <1>9, <3>2 DEF r, bd
  <2>2. body' \in [Bodies -> BodyRecord] /\ RefcountExact'
    BY <2>1, BodiesInIInvNext
  <2>3. /\ active' = [active EXCEPT ![p] = b]
        /\ pc' = [pc EXCEPT ![p] = "calling"]
    BY <1>1, <1>9 DEF r, bd
  <2>4. TypeOK'
    BY <1>1, <1>2, <1>7, <2>2, <2>3
       DEF IInv, TypeOK, BodyRecord, listVars, Invoking, Iterating
  <2>6. local[p] # None /\ b \in ToSet(lists[local[p].list])
    BY <1>1, SignalAssumption DEF IInv, ProcessOK
  <2>7. ProcessOK(p)'
    BY <1>1, <1>2, <1>6, <1>9, <2>3, <2>6, SignalAssumption
       DEF IInv, TypeOK, ProcessOK, Callable, Walks, listVars
  <2>8. \A q \in Procs \ {p} : Steady(q)
    BY <1>1, <1>2, <2>3 DEF IInv, TypeOK, Steady, listVars
  <2>9. \A q \in Procs : ProcessOK(q)'
    BY <2>7, <2>8, OtherProcesses
  <2> QED BY <2>2, <2>4, <2>9 DEF IInv
<1>10. CASE ~Callable(b, r)
  <2>1. body' = bd /\ pc' = [pc EXCEPT ![p] = "skipping"] /\ active' = active
    BY <1>1, <1>10 DEF r, bd
  <2>2. body' \in [Bodies -> BodyRecord] /\ RefcountExact'
    BY <1>4, <2>1, BodiesInIInvNext
  <2>3. TypeOK'
    BY <1>1, <1>2, <1>7, <2>1, <2>2
       DEF IInv, TypeOK, BodyRecord, listVars, Invoking, Iterating
  <2>5. ProcessOK(p)'
    BY <1>1, <2>1 DEF IInv, TypeOK, ProcessOK, Walks, listVars
  <2>6. \A q \in Procs \ {p} : Steady(q)
    BY <1>1, <1>2, <2>1 DEF IInv, TypeOK, Steady, listVars
  <2>7. \A q \in Procs : ProcessOK(q)'
    BY <2>5, <2>6, OtherProcesses
  <2> QED BY <2>2, <2>3, <2>7 DEF IInv
<1> QED BY <1>9, <1>10

(* Steps of a process that change no list.                                   *)
ProcessTypes ==
    /\ pc \in [Procs -> Invoking \cup Walks \cup {"idle", "release"}]
    /\ local \in [Procs -> States \cup {None}]
    /\ iter \in [Procs -> Bodies \cup {End}]
    /\ stop \in [Procs -> Bodies \cup {End}]
    /\ target \in [Procs -> SUBSET Bodies]
    /\ active \in [Procs -> Bodies \cup {None}]
    /\ held \in [Procs -> SUBSET Objs]
    /\ tally \in [Procs -> Int]

LEMMA ProcessStep ==
  ASSUME IInv, NEW p \in Procs, BodiesOK(body', active'),
         UNCHANGED <<blocked, owned, listVars>>, ProcessTypes',
         ProcessOK(p)', \A q \in Procs \ {p} : Steady(q)
  PROVE  IInv'
<1>1. body' \in [Bodies -> BodyRecord] /\ RefcountExact'
  BY BodiesInIInvNext
<1>2. TypeOK'
  BY <1>1 DEF IInv, TypeOK, ProcessTypes, BodyRecord, listVars
<1>4. \A q \in Procs : ProcessOK(q)'
  BY OtherProcesses
<1> QED BY <1>1, <1>2, <1>4 DEF IInv

(* The iterator of a process is in the list it reads, and so is the next.    *)
LEMMA NextIterator ==
  ASSUME IInv, NEW p \in Procs, local[p] # None
  PROVE  /\ Successor(lists[local[p].list], iter[p])
              \in ToSet(lists[local[p].list]) \cup {End}
         /\ Successor(lists[local[p].list], iter[p]) \in Bodies \cup {End}
<1>1. lists[local[p].list] \in Seq(Bodies)
  BY DEF IInv, TypeOK, States
<1> QED BY <1>1, SuccessorType, ToSetType

LEMMA IncrementStep ==
  ASSUME IInv, NEW p \in Procs, Increment(p)
  PROVE  IInv'
<1> DEFINE next == Successor(lists[local[p].list], iter[p])
<1>1. /\ pc[p] \in {"calling", "skipping"}
      /\ iter' = [iter EXCEPT ![p] = next]
      /\ held' = [held EXCEPT ![p] = IF next = End THEN @ ELSE {}]
      /\ pc' = [pc EXCEPT ![p] = IF next = End THEN "end" ELSE "grab"]
      /\ UNCHANGED <<bodyVars, listVars, local, stop, target, tally, active>>
  BY DEF Increment
<1>2. local[p] # None
  BY <1>1 DEF IInv, ProcessOK
<1>3. next \in ToSet(lists[local[p].list]) \cup {End} /\ next \in Bodies \cup {End}
  BY <1>2, NextIterator
<1> HIDE DEF next
<1>4. BodiesOK(body', active')
  BY <1>1, BodiesInIInv DEF bodyVars
<1>5. ProcessTypes'
  BY <1>1, <1>3 DEF IInv, TypeOK, ProcessTypes, Invoking, Iterating
<1>6. ProcessOK(p)'
  BY <1>1, <1>2, <1>3 DEF IInv, TypeOK, ProcessOK, Walks, listVars
<1>7. \A q \in Procs \ {p} : Steady(q)
  BY <1>1 DEF IInv, TypeOK, Steady, listVars
<1> QED BY <1>1, <1>4, <1>5, <1>6, <1>7, ProcessStep DEF bodyVars

(* The last slot is left: the cache's slot is reset to null.                 *)
LEMMA ActiveReset ==
  ASSUME IInv, NEW p \in Procs, body' = set_active_slot(body, active[p], None),
         active' = [active EXCEPT ![p] = None]
  PROVE  BodiesOK(body', active')
BY BodiesInIInv, SetActiveExact

LEMMA ReachEndStep ==
  ASSUME IInv, NEW p \in Procs, ReachEnd(p)
  PROVE  IInv'
<1> DEFINE next == AfterCombiner(p, FALSE)
<1>1. /\ pc[p] = "end"
      /\ active' = [active EXCEPT ![p] = None]
      /\ pc' = [pc EXCEPT ![p] = next]
      /\ tally' = [tally EXCEPT ![p] = 0]
      /\ UNCHANGED <<blocked, owned, listVars, local, iter, stop, target, held>>
  BY DEF ReachEnd
<1>2. next \in {"janitor", "release"}
  BY DEF AfterCombiner
<1> HIDE DEF next
<1>3. BodiesOK(body', active')
  BY ActiveReset DEF ReachEnd
<1>4. ProcessTypes'
  BY <1>1, <1>2 DEF IInv, TypeOK, ProcessTypes, Invoking, Iterating
<1>5. ProcessOK(p)'
  BY <1>1, <1>2 DEF IInv, TypeOK, ProcessOK, Invoking, Iterating, listVars
<1>6. \A q \in Procs \ {p} : Steady(q)
  BY <1>1 DEF IInv, TypeOK, Steady, listVars
<1> QED BY <1>1, <1>3, <1>4, <1>5, <1>6, ProcessStep

LEMMA StopEarlyStep ==
  ASSUME IInv, NEW p \in Procs, StopEarly(p)
  PROVE  IInv'
<1> DEFINE next == AfterCombiner(p, TRUE)
<1>1. /\ pc[p] = "calling"
      /\ iter' = [iter EXCEPT ![p] = End]
      /\ pc' = [pc EXCEPT ![p] = next]
      /\ tally' = [tally EXCEPT ![p] = 0]
      /\ UNCHANGED <<bodyVars, listVars, local, stop, target, active, held>>
  BY DEF StopEarly
<1>2. next \in {"janitor", "cache"}
  BY DEF AfterCombiner
<1> HIDE DEF next
<1>3. BodiesOK(body', active')
  BY <1>1, BodiesInIInv DEF bodyVars
<1>4. ProcessTypes'
  BY <1>1, <1>2 DEF IInv, TypeOK, ProcessTypes, Invoking, Iterating
<1>5. ProcessOK(p)'
  BY <1>1, <1>2 DEF IInv, TypeOK, ProcessOK, Walks, listVars
<1>6. \A q \in Procs \ {p} : Steady(q)
  BY <1>1 DEF IInv, TypeOK, Steady, listVars
<1> QED BY <1>1, <1>3, <1>4, <1>5, <1>6, ProcessStep DEF bodyVars

LEMMA CacheDtorStep ==
  ASSUME IInv, NEW p \in Procs, CacheDtor(p)
  PROVE  IInv'
<1>1. /\ pc[p] = "cache"
      /\ active' = [active EXCEPT ![p] = None]
      /\ pc' = [pc EXCEPT ![p] = "release"]
      /\ UNCHANGED <<blocked, owned, listVars, local, walkVars, held>>
  BY DEF CacheDtor
<1>2. BodiesOK(body', active')
  BY ActiveReset DEF CacheDtor
<1>3. ProcessTypes'
  BY <1>1 DEF IInv, TypeOK, ProcessTypes, walkVars
<1>4. ProcessOK(p)'
  BY <1>1 DEF IInv, TypeOK, ProcessOK, Invoking, Iterating, listVars, walkVars
<1>5. \A q \in Procs \ {p} : Steady(q)
  BY <1>1 DEF IInv, TypeOK, Steady, listVars, walkVars
<1> QED BY <1>1, <1>2, <1>3, <1>4, <1>5, ProcessStep DEF walkVars

LEMMA WalkStep ==
  ASSUME IInv, NEW p \in Procs, NEW kind \in Walks, NEW from, NEW to,
         {from, to} \subseteq ToSet(lists[shared.list]) \cup {End},
         NEW bodies \in SUBSET Bodies, Walk(p, kind, from, to, bodies)
  PROVE  IInv'
<1>1. /\ pc[p] = "idle"
      /\ pc' = [pc EXCEPT ![p] = kind]
      /\ local' = [local EXCEPT ![p] = shared]
      /\ iter' = [iter EXCEPT ![p] = from]
      /\ stop' = [stop EXCEPT ![p] = to]
      /\ target' = [target EXCEPT ![p] = bodies]
      /\ UNCHANGED <<bodyVars, listVars, tally, active, held>>
  BY DEF Walk
<1>2. shared \in States /\ shared # None /\ lists[shared.list] \in Seq(Bodies)
  BY SignalAssumption DEF IInv, TypeOK, States
<1>3. ToSet(lists[shared.list]) \subseteq Bodies
  BY <1>2, ToSetType
<1>4. BodiesOK(body', active')
  BY <1>1, BodiesInIInv DEF bodyVars
<1>5. ProcessTypes'
  BY <1>1, <1>2, <1>3 DEF IInv, TypeOK, ProcessTypes
<1>6. ProcessOK(p)'
  BY <1>1, <1>2 DEF IInv, TypeOK, ProcessOK, Invoking, Iterating, Walks, listVars
<1>7. \A q \in Procs \ {p} : Steady(q)
  BY <1>1 DEF IInv, TypeOK, Steady, listVars
<1> QED BY <1>1, <1>4, <1>5, <1>6, <1>7, ProcessStep DEF bodyVars, IInv, TypeOK

LEMMA BeginWalkStep ==
  ASSUME IInv, NEW p \in Procs, BeginWalk(p)
  PROVE  IInv'
<1> DEFINE list == lists[shared.list]
<1>1. list \in Seq(Bodies)
  BY DEF IInv, TypeOK, States
<1>2. /\ Begin(list) \in ToSet(list) \cup {End}
      /\ \A i : NodeAt(list, i) \in ToSet(list) \cup {End}
  BY <1>1, BeginType, NodeAtType
<1>3. ASSUME NEW kind \in {"disconnect_all", "num_slots", "empty"}, BeginAll(p, kind)
      PROVE  IInv'
  BY <1>2, <1>3, WalkStep DEF BeginAll, Walks
<1>4. ASSUME NEW g \in Groups, BeginGroup(p, g)
      PROVE  IInv'
  <2> DEFINE bodies == {b \in Bodies : WeaklyEquivalent(KeyOf[b], GroupKey(g))}
  <2>1. bodies \in SUBSET Bodies /\ "disconnect_group" \in Walks
    BY DEF Walks
  <2>2. \E i, j : Walk(p, "disconnect_group", NodeAt(list, i), NodeAt(list, j), bodies)
    BY <1>4 DEF BeginGroup
  <2> HIDE DEF bodies
  <2> QED BY <1>2, <2>1, <2>2, WalkStep
<1>5. ASSUME NEW f \in Functions, BeginSlot(p, f)
      PROVE  IInv'
  <2> DEFINE bodies == {b \in Bodies : FunctionOf[b] = f}
  <2>1. bodies \in SUBSET Bodies /\ "disconnect_slot" \in Walks
    BY DEF Walks
  <2>2. Walk(p, "disconnect_slot", Begin(list), End, bodies)
    BY <1>5 DEF BeginSlot
  <2> HIDE DEF bodies
  <2> QED BY <1>2, <2>1, <2>2, WalkStep
<1> QED BY <1>3, <1>4, <1>5 DEF BeginWalk

LEMMA VisitNodeStep ==
  ASSUME IInv, NEW p \in Procs, VisitNode(p)
  PROVE  IInv'
<1>1. PICK b \in Bodies :
        LET looks == pc[p] \in {"num_slots", "empty"}
            r     == IF looks THEN disconnect_expired_slot(b)
                     ELSE IF pc[p] = "disconnect_slot" /\ b \notin target[p] THEN body[b]
                     ELSE nolock_disconnect(body[b])
        IN  /\ pc[p] \in Walks /\ iter[p] = b /\ b # stop[p]
            /\ body' = [body EXCEPT ![b] = r]
            /\ tally' = [tally EXCEPT ![p] = IF looks /\ r.connected THEN @ + 1 ELSE @]
            /\ iter' = [iter EXCEPT ![p] = Successor(lists[local[p].list], b)]
            /\ pc' = [pc EXCEPT ![p] = IF @ = "empty" /\ r.connected THEN "release" ELSE @]
            /\ UNCHANGED <<blocked, owned, listVars, local, stop, target, active, held>>
  BY DEF VisitNode
<1> DEFINE looks == pc[p] \in {"num_slots", "empty"}
           r     == IF looks THEN disconnect_expired_slot(b)
                    ELSE IF pc[p] = "disconnect_slot" /\ b \notin target[p] THEN body[b]
                    ELSE nolock_disconnect(body[b])
<1>2. r \in {body[b], nolock_disconnect(body[b])}
  BY DEF disconnect_expired_slot
<1>3. tally' \in [Procs -> Int]
  BY <1>1 DEF IInv, TypeOK
<1>4. /\ pc[p] \in Walks /\ iter[p] = b
      /\ body' = [body EXCEPT ![b] = r]
      /\ iter' = [iter EXCEPT ![p] = Successor(lists[local[p].list], b)]
      /\ pc' = [pc EXCEPT ![p] = IF @ = "empty" /\ r.connected THEN "release" ELSE @]
      /\ UNCHANGED <<blocked, owned, listVars, local, stop, target, active, held>>
  BY <1>1
<1> HIDE DEF looks, r
<1>5. local[p] # None /\ active[p] = None
  BY <1>4 DEF IInv, ProcessOK, Walks
<1> DEFINE next == Successor(lists[local[p].list], b)
<1>6. next \in ToSet(lists[local[p].list]) \cup {End} /\ next \in Bodies \cup {End}
  BY <1>4, <1>5, NextIterator
<1> HIDE DEF next
<1>7. BodiesOK(body', active')
  BY <1>4, <1>2, BodiesInIInv, BodyChanged
<1>8. /\ iter' = [iter EXCEPT ![p] = next]
      /\ \E w \in {pc[p], "release"} : pc' = [pc EXCEPT ![p] = w]
  BY <1>4 DEF next
<1>9. ProcessTypes'
  BY <1>4, <1>3, <1>6, <1>8 DEF IInv, TypeOK, ProcessTypes
<1>10. ProcessOK(p)'
  BY <1>4, <1>5, <1>6, <1>8 DEF IInv, TypeOK, ProcessOK, Invoking, Iterating, Walks, listVars
<1>11. \A q \in Procs \ {p} : Steady(q)
  BY <1>4, <1>8 DEF IInv, TypeOK, Steady, listVars
<1> QED BY <1>4, <1>7, <1>9, <1>10, <1>11, ProcessStep

LEMMA EndWalkStep ==
  ASSUME IInv, NEW p \in Procs, EndWalk(p)
  PROVE  IInv'
<1>1. /\ pc[p] \in Walks
      /\ pc' = [pc EXCEPT ![p] = "release"]
      /\ UNCHANGED <<bodyVars, listVars, local, walkVars, active, held>>
  BY DEF EndWalk
<1>2. BodiesOK(body', active')
  BY <1>1, BodiesInIInv DEF bodyVars
<1>3. ProcessTypes'
  BY <1>1 DEF IInv, TypeOK, ProcessTypes, walkVars
<1>4. ProcessOK(p)'
  BY <1>1 DEF IInv, TypeOK, ProcessOK, Invoking, Iterating, Walks, listVars, walkVars
<1>5. \A q \in Procs \ {p} : Steady(q)
  BY <1>1 DEF IInv, TypeOK, Steady, listVars, walkVars
<1> QED BY <1>1, <1>2, <1>3, <1>4, <1>5, ProcessStep DEF bodyVars, walkVars

(* An invocation that is at its end may clean up the list that it has read   *)
(* itself, if nobody else reads it.                                          *)
MayCleanUp(p) ==
    Unique => \A q \in Procs : local[q] # None /\ local[q].list = shared.list =>
                  q = p /\ active[p] = None

LEMMA JanitorStep ==
  ASSUME IInv, NEW p \in Procs, MayCleanUp(p), Janitor(p)
  PROVE  IInv'
<1> DEFINE list == lists[shared.list]
           l    == IF Unique THEN shared.list ELSE CHOOSE f \in FreeLists : TRUE
<1>1. /\ pc[p] = "janitor"
      /\ pc' = [pc EXCEPT ![p] = IF active[p] = None THEN "release" ELSE "cache"]
      /\ UNCHANGED <<bodyVars, combiners, local, walkVars, active, held>>
  BY DEF Janitor
<1>2. list \in Seq(Bodies) /\ shared \in States
  BY DEF IInv, TypeOK, States
<1>3. /\ lists' \in [Lists -> Seq(Bodies)]
      /\ shared' \in States
      /\ gcIt' \in [list : Lists, node : Bodies \cup {End}]
      /\ \A q \in Procs : local[q] # None /\ lists'[local[q].list] # lists[local[q].list] =>
            q = p /\ active[p] = None
  <2>1. CASE local[p].list = shared.list
    <3>1. /\ Unique \/ FreeLists # {}
          /\ lists' = [lists EXCEPT ![l] = CleanedList(list, Begin(list), 0, body)]
          /\ shared' = [shared EXCEPT !.list = l]
          /\ gcIt' = GcItAfter(l, list, Begin(list), 0)
      BY <2>1 DEF Janitor
    <3>2. l \in Lists /\ (~Unique => Unread(l))
      BY <3>1, ModifiedListType
    <3>3. \A q \in Procs : local[q] # None /\ local[q].list = l => q = p /\ active[p] = None
      BY <3>2 DEF MayCleanUp, Unread
    <3> HIDE DEF l, list
    <3>4. /\ CleanedList(list, Begin(list), 0, body) \in Seq(Bodies)
          /\ gcIt' \in [list : Lists, node : Bodies \cup {End}]
      BY <1>2, <3>1, <3>2, SweepType
    <3> QED BY <1>2, <3>1, <3>2, <3>3, <3>4 DEF IInv, TypeOK, States
  <2>2. CASE local[p].list # shared.list
    <3>1. UNCHANGED <<lists, shared, gcIt>>
      BY <2>2 DEF Janitor
    <3> QED BY <1>2, <3>1 DEF IInv, TypeOK
  <2> QED BY <2>1, <2>2
<1>4. BodiesOK(body', active')
  BY <1>1, BodiesInIInv DEF bodyVars
<1>5. body' \in [Bodies -> BodyRecord] /\ RefcountExact'
  BY <1>4, BodiesInIInvNext
<1>6. TypeOK'
  BY <1>1, <1>3, <1>5 DEF IInv, TypeOK, BodyRecord, bodyVars, walkVars, Invoking
<1>7. iter[p] = End /\ stop[p] = End
  BY <1>1 DEF IInv, ProcessOK, Invoking
<1>8. ProcessOK(p)'
  BY <1>1, <1>3, <1>7 DEF IInv, TypeOK, ProcessOK, Walks, Invoking, Iterating, walkVars
<1>9. \A q \in Procs \ {p} : Steady(q)
  BY <1>1, <1>3 DEF IInv, TypeOK, Steady, walkVars
<1>10. \A q \in Procs : ProcessOK(q)'
  BY <1>8, <1>9, OtherProcesses
<1> QED BY <1>5, <1>6, <1>10 DEF IInv

LEMMA ReleaseStep ==
  ASSUME IInv, NEW p \in Procs, Release(p)
  PROVE  IInv'
<1> DEFINE others == {shared} \cup {local[q] : q \in {r \in Procs \ {p} : local[r] # None}}
<1>1. /\ pc[p] = "release"
      /\ lists' = [l \in Lists |->
                      IF \E s \in others : s.list = l THEN lists[l] ELSE << >>]
      /\ combiners' = [c \in Combs |->
                      IF \E s \in others : s.comb = c THEN combiners[c] ELSE DefaultCombiner]
      /\ pc' = [pc EXCEPT ![p] = "idle"]
      /\ local' = [local EXCEPT ![p] = None]
      /\ iter' = [iter EXCEPT ![p] = End]
      /\ stop' = [stop EXCEPT ![p] = End]
      /\ target' = [target EXCEPT ![p] = {}]
      /\ held' = [held EXCEPT ![p] = {}]
      /\ tally' = [tally EXCEPT ![p] = 0]
      /\ UNCHANGED <<bodyVars, shared, gcIt, active>>
  BY DEF Release
<1>2. \A q \in Procs \ {p} : local[q] # None => local[q] \in others
  OBVIOUS
<1> HIDE DEF others
<1>3. lists' \in [Lists -> Seq(Bodies)] /\ combiners' \in [Combs -> Combiners]
  BY <1>1, SignalAssumption DEF IInv, TypeOK
<1>4. BodiesOK(body', active')
  BY <1>1, BodiesInIInv DEF bodyVars
<1>5. body' \in [Bodies -> BodyRecord] /\ RefcountExact'
  BY <1>4, BodiesInIInvNext
<1>6. TypeOK'
  BY <1>1, <1>3, <1>5 DEF IInv, TypeOK, BodyRecord, bodyVars
<1>8. ProcessOK(p)'
  BY <1>1 DEF IInv, TypeOK, ProcessOK, Walks
<1>9. ASSUME NEW q \in Procs \ {p} PROVE Steady(q)
  <2>1. local[q] # None => lists'[local[q].list] = lists[local[q].list]
    BY <1>1, <1>2 DEF IInv, TypeOK, States
  <2> QED BY <1>1, <2>1 DEF IInv, TypeOK, Steady
<1>10. \A q \in Procs : ProcessOK(q)'
  BY <1>8, <1>9, OtherProcesses
<1> QED BY <1>5, <1>6, <1>10 DEF IInv

-----------------------------------------------------------------------------
(* The invariant holds initially and through every step.                     *)

LEMMA InitIInv == Init => IInv
<1> SUFFICES ASSUME Init PROVE IInv
  OBVIOUS
<1>1. shared \in States
  BY SignalAssumption DEF Init, States
<1>2. BodiesOK(body, active)
  <2>1. ASSUME NEW b \in Bodies PROVE Cardinality(UsersIn(active, b)) = 0
    <3>1. UsersIn(active, b) = {}
      BY SignalAssumption DEF Init, UsersIn
    <3> QED BY <3>1, FS_EmptySet
  <2>2. Free \in BodyRecord /\ Exact(Free, 0)
    BY DEF Free, BodyRecord, Exact
  <2> QED BY <2>1, <2>2 DEF Init, BodiesOK
<1>3. RefcountExact /\ body \in [Bodies -> BodyRecord]
  BY <1>2 DEF RefcountExact, BodiesOK, BodyRecord, Exact, Users, UsersIn
<1>4. TypeOK
  BY <1>1, <1>3, SignalAssumption
     DEF Init, TypeOK, BodyRecord, States
<1>5. \A p \in Procs : ProcessOK(p)
  BY DEF Init, ProcessOK
<1> QED BY <1>3, <1>4, <1>5 DEF IInv

LEMMA NextIInv ==
  ASSUME IInv, SharedUnread, [Next]_vars
  PROVE  IInv'
<1>1. CASE Environment
  <2>1. ASSUME NEW b \in Bodies, NEW position \in Positions, Connect(b, position)
        PROVE  IInv'
    BY <2>1, ConnectStep
  <2>2. ASSUME NEW b \in Bodies, Disconnect(b) \/ Connected(b) \/ Block(b) \/ Unblock(b)
        PROVE  IInv'
    BY <2>2, HandleStep
  <2>3. ASSUME NEW o \in Objs, DropObject(o)
        PROVE  IInv'
    BY <2>3, DropObjectStep
  <2> QED BY <1>1, <2>1, <2>2, <2>3 DEF Environment
<1>2. ASSUME NEW p \in Procs, Invoke(p) \/ BeginWalk(p) \/ Step(p)
      PROVE  IInv'
  <2>1. MayCleanUp(p)
    BY DEF SharedUnread, Unread, MayCleanUp
  <2> QED BY <1>2, <2>1, InvokeStep, BeginWalkStep, GrabStep, SlotExpiresStep,
       IncrementStep, ReachEndStep, StopEarlyStep, JanitorStep, CacheDtorStep, ReleaseStep,
       VisitNodeStep, EndWalkStep
       DEF Step
<1>3. CASE UNCHANGED vars
  <2>1. BodiesOK(body', active) /\ UNCHANGED <<blocked, owned, listVars, procVars>>
    BY <1>3, BodiesInIInv DEF vars, bodyVars
  <2> QED BY <2>1, BodyStep DEF IInv, TypeOK
<1> QED BY <1>1, <1>2, <1>3 DEF Next

(* Only set_combiner makes a state with another combiner.                    *)
LEMMA NextOneCombiner ==
  ASSUME IInv, OneCombiner, [Next]_vars
  PROVE  OneCombiner'
<1>1. local \in [Procs -> States \cup {None}] /\ shared \in States
  BY DEF IInv, TypeOK
<1>2. CASE Environment \/ UNCHANGED vars
  <2>1. UNCHANGED local /\ shared'.comb = shared.comb
    BY <1>1, <1>2 DEF Environment, Connect, Disconnect, Connected, Block, Unblock, DropObject,
       vars, listVars, procVars, States
  <2> QED BY <2>1 DEF OneCombiner
<1>3. ASSUME NEW p \in Procs, Invoke(p) \/ BeginWalk(p) \/ Step(p)
      PROVE  OneCombiner'
  <2>1. CASE Invoke(p) \/ BeginWalk(p)
    <3>1. local' = [local EXCEPT ![p] = shared] /\ shared' = shared
      BY <2>1 DEF Invoke, BeginWalk, BeginAll, BeginGroup, BeginSlot, Walk, listVars
    <3> QED BY <1>1, <3>1 DEF OneCombiner
  <2>2. CASE Release(p)
    BY <1>1, <2>2 DEF Release, OneCombiner
  <2>3. CASE Janitor(p)
    <3>1. local' = local /\ shared'.comb = shared.comb
      BY <1>1, <2>3 DEF Janitor, States
    <3> QED BY <3>1 DEF OneCombiner
  <2>4. CASE Step(p) /\ ~Release(p) /\ ~Janitor(p)
    <3>1. local' = local /\ shared' = shared
      BY <2>4 DEF Step, Grab, SlotExpires, Increment, ReachEnd, StopEarly, CacheDtor,
         VisitNode, EndWalk, listVars, procVars
    <3> QED BY <3>1 DEF OneCombiner
  <2> QED BY <1>3, <2>1, <2>2, <2>3, <2>4
<1> QED BY <1>2, <1>3 DEF Next

(* Memory safety of the core: every reachable state satisfies the invariant. *)
THEOREM InductiveInvariant == Spec => [](IInv /\ OneCombiner)
<1>1. Init => OneCombiner
  BY DEF Init, OneCombiner
<1>2. IInv /\ OneCombiner /\ [Next]_vars => IInv' /\ OneCombiner'
  BY UniqueUnread, NextIInv, NextOneCombiner
<1> QED BY InitIInv, <1>1, <1>2, PTL DEF Spec

(* Pointers and counters of the signal keep their types: in particular no    *)
(* reference count of a slot ever goes below zero.                           *)
THEOREM TypeCorrect == Spec => []TypeOK
<1>1. IInv => TypeOK
  BY DEF IInv
<1> QED BY <1>1, InductiveInvariant, PTL

(* m_slot_refcount counts the connection and the invocations at the slot.    *)
THEOREM RefcountCorrect == Spec => []RefcountExact
<1>1. IInv => RefcountExact
  BY DEF IInv
<1> QED BY <1>1, InductiveInvariant, PTL

(* A slot that runs, and what it tracks, is alive.                           *)
THEOREM CalledSlotsAlive == Spec => []SlotAliveWhileCalled
<1>1. IInv => SlotAliveWhileCalled
  <2> SUFFICES ASSUME IInv, NEW p \in Procs, pc[p] = "calling"
               PROVE  body[iter[p]].slot /\ Tracked[iter[p]] \subseteq held[p]
    BY DEF SlotAliveWhileCalled
  <2>1. active[p] = iter[p] /\ Tracked[iter[p]] \subseteq held[p]
    BY DEF IInv, ProcessOK
  <2>2. iter[p] \in Bodies
    BY DEF IInv, TypeOK, ProcessOK
  <2>3. p \in UsersIn(active, iter[p])
    BY <2>1 DEF UsersIn
  <2>4. Cardinality(UsersIn(active, iter[p])) \in Nat \ {0}
    BY <2>3, UsersFinite, FS_EmptySet
  <2>5. Exact(body[iter[p]], Cardinality(UsersIn(active, iter[p])))
        /\ body[iter[p]] \in BodyRecord
    BY <2>2, BodiesInIInv DEF BodiesOK
  <2> QED BY <2>1, <2>4, <2>5 DEF Exact, BodyRecord
<1> QED BY <1>1, InductiveInvariant, PTL

-----------------------------------------------------------------------------
(* A list that a process reads stays as it is.                               *)
SnapshotKept ==
    \A p \in Procs : local[p] # None /\ local'[p] = local[p] =>
        lists'[local[p].list] = lists[local[p].list]

LEMMA UnreadListModified ==
  ASSUME IInv, NEW l \in Lists, Unread(l), NEW list, lists' = [lists EXCEPT ![l] = list]
  PROVE  SnapshotKept
BY DEF IInv, TypeOK, States, Unread, SnapshotKept

LEMMA ReleaseKept ==
  ASSUME IInv, NEW p \in Procs, Release(p)
  PROVE  SnapshotKept
<1> SUFFICES ASSUME NEW q \in Procs, local[q] # None, local'[q] = local[q]
             PROVE  lists'[local[q].list] = lists[local[q].list]
  BY DEF SnapshotKept
<1>1. q # p
  BY DEF Release, IInv, TypeOK
<1>2. local[q].list \in Lists
  BY DEF IInv, TypeOK, States
<1>3. local[q] \in {local[r] : r \in {s \in Procs \ {p} : local[s] # None}}
  BY <1>1
<1> QED BY <1>2, <1>3 DEF Release

LEMMA NextSnapshotKept ==
  ASSUME IInv, SharedUnread, Next
  PROVE  SnapshotKept
<1>1. UNCHANGED lists => SnapshotKept
  BY DEF SnapshotKept
<1>2. ASSUME NEW b \in Bodies, NEW position \in Positions, Connect(b, position)
      PROVE  SnapshotKept
  <2> DEFINE l == IF Unique THEN shared.list ELSE CHOOSE f \in FreeLists : TRUE
  <2>1. Unique \/ FreeLists # {}
    BY <1>2 DEF Connect
  <2>2. \E list : lists' = [lists EXCEPT ![l] = list]
    BY <1>2 DEF Connect
  <2>3. l \in Lists /\ Unread(l)
    BY <2>1, ModifiedListUnread
  <2> HIDE DEF l
  <2> QED BY <2>2, <2>3, UnreadListModified
<1>3. ASSUME NEW p \in Procs, Invoke(p)
      PROVE  SnapshotKept
  <2>1. CASE Unique
    <3>1. \E list : lists' = [lists EXCEPT ![shared.list] = list]
      BY <1>3 DEF Invoke
    <3>2. shared.list \in Lists /\ Unread(shared.list)
      BY <2>1 DEF SharedUnread, IInv, TypeOK, States
    <3> QED BY <3>1, <3>2, UnreadListModified
  <2>2. CASE ~Unique
    <3>1. lists' = lists
      BY <1>3, <2>2 DEF Invoke, IInv, TypeOK
    <3> QED BY <1>1, <3>1
  <2> QED BY <2>1, <2>2
<1>4. ASSUME NEW p \in Procs, Janitor(p)
      PROVE  SnapshotKept
  <2> DEFINE l == IF Unique THEN shared.list ELSE CHOOSE f \in FreeLists : TRUE
  <2>1. CASE local[p].list = shared.list
    <3>1. Unique \/ FreeLists # {}
      BY <1>4, <2>1 DEF Janitor
    <3>2. \E list : lists' = [lists EXCEPT ![l] = list]
      BY <1>4, <2>1 DEF Janitor
    <3>3. l \in Lists /\ Unread(l)
      BY <3>1, ModifiedListUnread
    <3> HIDE DEF l
    <3> QED BY <3>2, <3>3, UnreadListModified
  <2>2. CASE local[p].list # shared.list
    BY <1>1, <1>4, <2>2 DEF Janitor
  <2> QED BY <2>1, <2>2
<1>5. ASSUME NEW p \in Procs, Release(p)
      PROVE  SnapshotKept
  BY <1>5, ReleaseKept
<1>6. ASSUME NEW p \in Procs, BeginWalk(p) \/ Step(p), ~Janitor(p), ~Release(p)
      PROVE  UNCHANGED lists
  BY <1>6 DEF BeginWalk, BeginAll, BeginGroup, BeginSlot, Walk, Step, Grab, SlotExpires,
     Increment, ReachEnd, StopEarly, CacheDtor, VisitNode, EndWalk, listVars
<1>7. CASE Environment
  BY <1>1, <1>2, <1>7
     DEF Environment, Disconnect, Connected, Block, Unblock, DropObject, listVars
<1> QED BY <1>1, <1>2, <1>3, <1>4, <1>5, <1>6, <1>7 DEF Next, Step

(* An invocation in progress does not see modifications of the slot list.    *)
THEOREM SnapshotCorrect == Spec => SnapshotStable
<1>1. IInv /\ OneCombiner /\ [Next]_vars => [SnapshotKept]_vars
  BY UniqueUnread, NextSnapshotKept
<1>2. [SnapshotKept]_vars =>
        [\A p \in Procs : local[p] # None /\ local'[p] = local[p] =>
            lists'[local[p].list] = lists[local[p].list]]_vars
  BY DEF SnapshotKept
<1> QED BY <1>1, <1>2, InductiveInvariant, PTL DEF Spec, SnapshotStable

-----------------------------------------------------------------------------
(* The slot lists of a signal: the iterators into them, the connections in   *)
(* them, the walks over them and the refinement of Broadcast, for lists of   *)
(* any length and any number of calls that walk them.                        *)

(* The inductive invariant, beyond IInv.                                     *)

GoodList(list) == Unrepeated(list) /\ Sorted(list, KeyOf)

ListsInv ==
    /\ \A l \in Lists : GoodList(lists[l])
    /\ gcIt.list = shared.list
    /\ gcIt.node \in ToSet(lists[shared.list]) \cup {End}
    /\ \A b \in Bodies : body[b].connected => b \in ToSet(lists[shared.list])

-----------------------------------------------------------------------------
(* Sweeps.                                                                   *)

LEMMA ListTypes ==
  ASSUME IInv
  PROVE  /\ shared \in States /\ shared.list \in Lists
         /\ lists \in [Lists -> Seq(Bodies)]
         /\ lists[shared.list] \in Seq(Bodies)
         /\ \A p \in Procs : local[p] # None =>
               local[p].list \in Lists /\ lists[local[p].list] \in Seq(Bodies)
         /\ body \in [Bodies -> BodyRecord]
BY DEF IInv, TypeOK, States, BodyRecord

(* A sweep erases only nodes that are not connected, and never the node that *)
(* it ends at.                                                               *)
SweepKept(list, from, count, bd, l) ==
    LET kept == CleanedList(list, from, count, bd)
    IN  /\ kept \in Seq(Bodies) /\ GoodList(kept)
        /\ ToSet(kept) \subseteq ToSet(list)
        /\ \A b \in ToSet(list) : bd[b].connected => b \in ToSet(kept)
        /\ GcItAfter(l, list, from, count).list = l
        /\ GcItAfter(l, list, from, count).node \in ToSet(kept) \cup {End}

(* The sweeps of the code keep the order and every connected node of a list, *)
(* and the iterator they leave behind is valid.                              *)
LEMMA SweepKeeps ==
  ASSUME NEW list \in Seq(Bodies), GoodList(list), NEW from \in ToSet(list) \cup {End},
         NEW count \in Nat, NEW bd, NEW l
  PROVE  SweepKept(list, from, count, bd, l)
<1> DEFINE gone == {b \in Swept(list, from, count) : ~bd[b].connected}
           kept == CleanedList(list, from, count, bd)
           e    == SweepEnd(list, from, count)
<1>1. kept = Without(list, gone)
  BY DEF CleanedList
<1>2. /\ kept \in Seq(Bodies) /\ GoodList(kept)
      /\ ToSet(kept) = ToSet(list) \ gone
  BY <1>1, WithoutType, WithoutSet, WithoutKeepsOrder DEF GoodList
<1>3. Len(list) \in Nat /\ DOMAIN list = 1..Len(list)
  OBVIOUS
<1>4. Index(list, from) \in 1..Len(list) + 1
  BY IndexExists
<1>5. e \in 1..Len(list) + 1
  BY <1>3, <1>4 DEF SweepEnd
<1>6. NodeAt(list, e) \in ToSet(kept) \cup {End}
  <2>1. CASE e = Len(list) + 1
    BY <1>3, <2>1 DEF NodeAt
  <2>2. CASE e \in DOMAIN list
    <3>1. NodeAt(list, e) = list[e] /\ list[e] \in ToSet(list)
      BY <2>2 DEF NodeAt, ToSet
    <3>2. \A i \in Index(list, from)..e - 1 : list[i] # list[e]
      BY <1>3, <1>4, <1>5, <2>2 DEF GoodList, Unrepeated
    <3>3. list[e] \notin gone
      BY <3>2 DEF Swept
    <3> QED BY <1>2, <3>1, <3>3
  <2> QED BY <1>3, <1>5, <2>1, <2>2
<1>7. \A b \in ToSet(list) : bd[b].connected => b \in ToSet(kept)
  BY <1>2
<1> QED BY <1>2, <1>6, <1>7 DEF GcItAfter, SweepKept

LEMMA SweepStartType ==
  ASSUME IInv, ListsInv
  PROVE  SweepStart \in ToSet(lists[shared.list]) \cup {End}
BY ListTypes, BeginType DEF SweepStart, ListsInv

-----------------------------------------------------------------------------
(* Steps other than connect connect no body.                                 *)
NoneConnected == \A b \in Bodies : body'[b].connected => body[b].connected

LEMMA StillConnected ==
  ASSUME NEW r \in BodyRecord
  PROVE  /\ ~nolock_disconnect(r).connected
         /\ dec_slot_refcount(r).connected = r.connected
         /\ inc_slot_refcount(r).connected = r.connected
<1>1. CASE r.connected
  BY <1>1 DEF nolock_disconnect, dec_slot_refcount, inc_slot_refcount, BodyRecord
<1>2. CASE ~r.connected
  BY <1>2 DEF nolock_disconnect, dec_slot_refcount, inc_slot_refcount, BodyRecord
<1> QED BY <1>1, <1>2

LEMMA SetActiveConnected ==
  ASSUME NEW bd \in [Bodies -> BodyRecord], NEW old, NEW new, NEW b \in Bodies
  PROVE  set_active_slot(bd, old, new)[b].connected = bd[b].connected
<1>1. bd[b] \in BodyRecord
  OBVIOUS
<1>2. inc_slot_refcount(dec_slot_refcount(bd[b])).connected = bd[b].connected
  BY <1>1 DEF inc_slot_refcount, dec_slot_refcount, BodyRecord
<1> QED BY <1>1, <1>2, StillConnected DEF set_active_slot

LEMMA OneBodyChanged ==
  ASSUME IInv, NEW b \in Bodies, NEW r \in {body[b], nolock_disconnect(body[b])},
         body' = [body EXCEPT ![b] = r]
  PROVE  NoneConnected
BY ListTypes, StillConnected DEF NoneConnected

(* The steps that leave the lists alone. *)
QuietStep(p) ==
    \/ BeginWalk(p) \/ Grab(p) \/ SlotExpires(p) \/ Increment(p) \/ ReachEnd(p)
    \/ StopEarly(p) \/ CacheDtor(p) \/ VisitNode(p) \/ EndWalk(p)

QuietEnvironment ==
    \/ \E b \in Bodies : Disconnect(b) \/ Connected(b) \/ Block(b) \/ Unblock(b)
    \/ \E o \in Objs : DropObject(o)

LEMMA GrabConnectsNone ==
  ASSUME IInv, NEW p \in Procs, Grab(p)
  PROVE  NoneConnected
<1>1. PICK b \in Bodies :
        LET r  == disconnect_expired_slot(b)
            bd == [body EXCEPT ![b] = r]
        IN  body' = set_active_slot(bd, active[p], b) \/ body' = bd
  BY DEF Grab
<1> DEFINE r  == disconnect_expired_slot(b)
           bd == [body EXCEPT ![b] = r]
<1>2. r \in {body[b], nolock_disconnect(body[b])}
  BY DEF disconnect_expired_slot
<1>3. body' = set_active_slot(bd, active[p], b) \/ body' = bd
  BY <1>1
<1> HIDE DEF r
<1>4. /\ bd \in [Bodies -> BodyRecord]
      /\ \A c \in Bodies : bd[c].connected => body[c].connected
  <2>1. BodiesOK(bd, active)
    BY <1>2, BodiesInIInv, BodyChanged
  <2>2. body \in [Bodies -> BodyRecord]
    BY ListTypes
  <2> QED BY <1>2, <2>1, <2>2, StillConnected DEF BodiesOK
<1> HIDE DEF bd
<1> QED BY <1>3, <1>4, SetActiveConnected DEF NoneConnected

LEMMA QuietStepQuiet ==
  ASSUME IInv, NEW p \in Procs, QuietStep(p)
  PROVE  UNCHANGED listVars /\ NoneConnected
<1>1. UNCHANGED listVars
  BY DEF QuietStep, BeginWalk, BeginAll, BeginGroup, BeginSlot, Walk, Grab, SlotExpires,
     Increment, ReachEnd, StopEarly, CacheDtor, VisitNode, EndWalk
<1>2. ASSUME Grab(p)
      PROVE  NoneConnected
  BY <1>2, GrabConnectsNone
<1>3. ASSUME SlotExpires(p)
      PROVE  NoneConnected
  BY <1>3, OneBodyChanged DEF SlotExpires
<1>4. ASSUME ReachEnd(p) \/ CacheDtor(p)
      PROVE  NoneConnected
  <2>1. body' = set_active_slot(body, active[p], None)
    BY <1>4 DEF ReachEnd, CacheDtor
  <2>2. body \in [Bodies -> BodyRecord]
    BY ListTypes
  <2>3. \A b \in Bodies : set_active_slot(body, active[p], None)[b].connected = body[b].connected
    BY <2>2, SetActiveConnected
  <2> QED BY <2>1, <2>3 DEF NoneConnected
<1>5. ASSUME VisitNode(p)
      PROVE  NoneConnected
  <2>1. PICK b \in Bodies :
          LET r == IF pc[p] \in {"num_slots", "empty"} THEN disconnect_expired_slot(b)
                   ELSE IF pc[p] = "disconnect_slot" /\ b \notin target[p] THEN body[b]
                   ELSE nolock_disconnect(body[b])
          IN  body' = [body EXCEPT ![b] = r]
    BY <1>5 DEF VisitNode
  <2>2. \E r \in {body[b], nolock_disconnect(body[b])} : body' = [body EXCEPT ![b] = r]
    BY <2>1 DEF disconnect_expired_slot
  <2> QED BY <2>2, OneBodyChanged
<1>6. ASSUME BeginWalk(p) \/ Increment(p) \/ StopEarly(p) \/ EndWalk(p)
      PROVE  NoneConnected
  <2>1. body' = body
    BY <1>6 DEF BeginWalk, BeginAll, BeginGroup, BeginSlot, Walk, Increment, StopEarly,
       EndWalk, bodyVars
  <2> QED BY <2>1 DEF NoneConnected
<1> QED BY <1>1, <1>2, <1>3, <1>4, <1>5, <1>6 DEF QuietStep

LEMMA QuietEnvironmentQuiet ==
  ASSUME IInv, QuietEnvironment
  PROVE  UNCHANGED <<listVars, procVars>> /\ NoneConnected
<1>1. UNCHANGED <<listVars, procVars>>
  BY DEF QuietEnvironment, Disconnect, Connected, Block, Unblock, DropObject
<1>2. ASSUME NEW b \in Bodies, Disconnect(b) \/ Connected(b)
      PROVE  NoneConnected
  <2>1. PICK r \in {body[b], nolock_disconnect(body[b])} : body' = [body EXCEPT ![b] = r]
    BY <1>2 DEF Disconnect, Connected, disconnect_expired_slot
  <2> QED BY <2>1, OneBodyChanged
<1>3. body' = body => NoneConnected
  BY DEF NoneConnected
<1>4. ASSUME NEW b \in Bodies, Block(b) \/ Unblock(b)
      PROVE  body' = body
  BY <1>4 DEF Block, Unblock
<1>5. ASSUME NEW o \in Objs, DropObject(o)
      PROVE  body' = body
  BY <1>5 DEF DropObject
<1> QED BY <1>1, <1>2, <1>3, <1>4, <1>5 DEF QuietEnvironment

(* How a step of the program splits. *)
LEMMA NextSplit ==
  ASSUME IInv, [Next]_vars
  PROVE  \/ \E b \in Bodies, position \in Positions : Connect(b, position)
         \/ QuietEnvironment
         \/ \E p \in Procs : QuietStep(p) \/ Invoke(p) \/ Janitor(p) \/ Release(p)
         \/ UNCHANGED vars
BY DEF Next, Environment, QuietEnvironment, QuietStep, Step

-----------------------------------------------------------------------------
(* The lists stay without repetition and sorted, and the connected bodies    *)
(* stay in the current one.                                                  *)

LEMMA ListsUnchanged ==
  ASSUME ListsInv, UNCHANGED listVars, NoneConnected
  PROVE  ListsInv'
BY DEF ListsInv, NoneConnected, listVars, GoodList

LEMMA ConnectLists ==
  ASSUME IInv, ListsInv, NEW b \in Bodies, NEW position \in Positions, Connect(b, position)
  PROVE  ListsInv'
<1> DEFINE list  == lists[shared.list]
           from  == IF Unique THEN SweepStart ELSE Begin(list)
           count == IF Unique THEN 2 ELSE 0
           l     == IF Unique THEN shared.list ELSE CHOOSE f \in FreeLists : TRUE
           bd    == CleanedBodies(list, from, count)
           kept  == CleanedList(list, from, count, bd)
           new   == Inserted(kept, KeyOf, b, position)
<1>1. /\ Unique \/ FreeLists # {}
      /\ b \notin ToSet(kept)
      /\ body' = [bd EXCEPT ![b] = NewBody]
      /\ lists' = [lists EXCEPT ![l] = new]
      /\ shared' = [shared EXCEPT !.list = l]
      /\ gcIt' = GcItAfter(l, list, from, count)
  BY DEF Connect
<1>2. l \in Lists
  BY <1>1, ModifiedListType
<1>3. list \in Seq(Bodies) /\ GoodList(list)
  BY ListTypes DEF ListsInv
<1>4. from \in ToSet(list) \cup {End} /\ count \in Nat
  BY <1>3, SweepStartType, BeginType
<1>5. \A c \in Bodies : bd[c].connected => c \in ToSet(list) /\ body[c].connected
  <2>1. ASSUME NEW c \in Bodies
        PROVE  bd[c].connected => body[c].connected
    BY ListTypes, StillConnected DEF CleanedBodies, disconnect_expired_slot
  <2> HIDE DEF bd
  <2> QED BY <2>1 DEF ListsInv
<1>6. bd = [c \in Bodies |-> bd[c]]
  BY DEF CleanedBodies
<1> HIDE DEF list, from, count, l, bd
<1>7. /\ kept \in Seq(Bodies) /\ GoodList(kept)
      /\ \A c \in ToSet(list) : bd[c].connected => c \in ToSet(kept)
      /\ gcIt'.list = l
      /\ gcIt'.node \in ToSet(kept) \cup {End}
  <2>1. SweepKept(list, from, count, bd, l)
    BY <1>3, <1>4, SweepKeeps
  <2> QED BY <1>1, <2>1 DEF SweepKept
<1> HIDE DEF kept
<1>8. /\ new \in Seq(Bodies) /\ GoodList(new)
      /\ ToSet(new) = ToSet(kept) \cup {b}
  <2>1. Unrepeated(new) /\ ToSet(new) = ToSet(kept) \cup {b}
    BY <1>1, <1>7, InsertedSet DEF GoodList
  <2>2. Sorted(new, KeyOf)
    BY <1>7, InsertedSorted, SignalAssumption DEF GoodList
  <2> QED BY <1>7, <2>1, <2>2, InsertedType DEF GoodList
<1> HIDE DEF new
<1>9. shared'.list = l /\ lists'[l] = new /\ \A m \in Lists \ {l} : lists'[m] = lists[m]
  BY <1>1, <1>2, ListTypes DEF States
<1>10. \A m \in Lists : GoodList(lists'[m])
  BY <1>8, <1>9 DEF ListsInv
<1>11. \A c \in Bodies : body'[c].connected => c \in ToSet(new)
  BY <1>1, <1>5, <1>6, <1>7, <1>8
<1> QED BY <1>7, <1>8, <1>9, <1>10, <1>11 DEF ListsInv, GoodList

LEMMA InvokeLists ==
  ASSUME IInv, ListsInv, NEW p \in Procs, Invoke(p)
  PROVE  ListsInv'
<1> DEFINE list == lists[shared.list]
           kept == IF Unique THEN CleanedList(list, SweepStart, 1, body) ELSE list
<1>1. /\ lists' = [lists EXCEPT ![shared.list] = kept]
      /\ gcIt' = IF Unique THEN GcItAfter(shared.list, list, SweepStart, 1) ELSE gcIt
      /\ shared' = shared /\ body' = body
  BY DEF Invoke, bodyVars
<1>2. /\ shared.list \in Lists /\ list \in Seq(Bodies) /\ GoodList(list)
      /\ SweepStart \in ToSet(list) \cup {End}
  BY ListTypes, SweepStartType DEF ListsInv
<1>3. /\ GoodList(kept)
      /\ \A c \in ToSet(list) : body[c].connected => c \in ToSet(kept)
      /\ gcIt'.list = shared.list
      /\ gcIt'.node \in ToSet(kept) \cup {End}
  <2>1. CASE Unique
    <3> HIDE DEF list
    <3>1. SweepKept(list, SweepStart, 1, body, shared.list)
      BY <1>2, SweepKeeps, 1 \in Nat
    <3> QED BY <1>1, <2>1, <3>1 DEF SweepKept
  <2>2. CASE ~Unique
    BY <1>1, <1>2, <2>2 DEF ListsInv
  <2> QED BY <2>1, <2>2
<1> HIDE DEF kept
<1>4. lists'[shared.list] = kept /\ \A m \in Lists \ {shared.list} : lists'[m] = lists[m]
  BY <1>1, <1>2, ListTypes
<1> QED BY <1>1, <1>3, <1>4 DEF ListsInv, GoodList

LEMMA JanitorLists ==
  ASSUME IInv, ListsInv, NEW p \in Procs, Janitor(p)
  PROVE  ListsInv'
<1> DEFINE list == lists[shared.list]
           l    == IF Unique THEN shared.list ELSE CHOOSE f \in FreeLists : TRUE
           kept == CleanedList(list, Begin(list), 0, body)
<1>1. body' = body
  BY DEF Janitor, bodyVars
<1>2. CASE local[p].list # shared.list
  <2>1. UNCHANGED <<lists, shared, gcIt>>
    BY <1>2 DEF Janitor
  <2> QED BY <1>1, <2>1 DEF ListsInv, GoodList
<1>3. CASE local[p].list = shared.list
  <2>1. /\ Unique \/ FreeLists # {}
        /\ lists' = [lists EXCEPT ![l] = kept]
        /\ shared' = [shared EXCEPT !.list = l]
        /\ gcIt' = GcItAfter(l, list, Begin(list), 0)
    BY <1>3 DEF Janitor
  <2>2. l \in Lists
    BY <2>1, ModifiedListType
  <2>3. list \in Seq(Bodies) /\ GoodList(list) /\ Begin(list) \in ToSet(list) \cup {End}
    BY ListTypes, BeginType DEF ListsInv
  <2> HIDE DEF l, list
  <2>6. SweepKept(list, Begin(list), 0, body, l)
    BY <2>3, SweepKeeps, 0 \in Nat
  <2>4. /\ GoodList(kept)
        /\ \A c \in ToSet(list) : body[c].connected => c \in ToSet(kept)
        /\ gcIt'.list = l
        /\ gcIt'.node \in ToSet(kept) \cup {End}
    BY <2>1, <2>6 DEF SweepKept
  <2> HIDE DEF kept
  <2>5. shared'.list = l /\ lists'[l] = kept /\ \A m \in Lists \ {l} : lists'[m] = lists[m]
    BY <2>1, <2>2, ListTypes DEF States
  <2> QED BY <1>1, <2>4, <2>5 DEF ListsInv, GoodList, list
<1> QED BY <1>2, <1>3

LEMMA ReleaseLists ==
  ASSUME IInv, ListsInv, NEW p \in Procs, Release(p)
  PROVE  ListsInv'
<1> DEFINE others == {shared} \cup {local[q] : q \in {r \in Procs \ {p} : local[r] # None}}
<1>1. /\ lists' = [l \in Lists |->
                     IF \E s \in others : s.list = l THEN lists[l] ELSE << >>]
      /\ UNCHANGED <<body, shared, gcIt>>
  BY DEF Release, bodyVars
<1>2. lists'[shared.list] = lists[shared.list]
  BY <1>1, ListTypes
<1>3. GoodList(<< >>)
  BY DEF GoodList, Unrepeated, Sorted
<1>4. \A l \in Lists : GoodList(lists'[l])
  BY <1>1, <1>3 DEF ListsInv
<1> QED BY <1>1, <1>2, <1>4 DEF ListsInv, GoodList

LEMMA InitLists == Init => ListsInv
<1> SUFFICES ASSUME Init PROVE ListsInv
  OBVIOUS
<1>1. \A l \in Lists : GoodList(lists[l])
  BY DEF Init, GoodList, Unrepeated, Sorted
<1>2. gcIt.list = shared.list /\ gcIt.node = End
  BY DEF Init
<1>3. \A b \in Bodies : ~body[b].connected
  BY DEF Init, Free
<1> QED BY <1>1, <1>2, <1>3 DEF ListsInv

LEMMA NextLists ==
  ASSUME IInv, ListsInv, [Next]_vars
  PROVE  ListsInv'
<1>1. CASE UNCHANGED vars
  <2>1. UNCHANGED listVars /\ NoneConnected
    BY <1>1 DEF vars, bodyVars, NoneConnected
  <2> QED BY <2>1, ListsUnchanged
<1>2. CASE QuietEnvironment
  BY <1>2, QuietEnvironmentQuiet, ListsUnchanged
<1>3. ASSUME NEW p \in Procs, QuietStep(p)
      PROVE  ListsInv'
  BY <1>3, QuietStepQuiet, ListsUnchanged
<1> QED BY <1>1, <1>2, <1>3, NextSplit, ConnectLists, InvokeLists, JanitorLists, ReleaseLists

(* The lists of a signal stay in order, and complete. *)
THEOREM ListsCorrect == Spec => [](IInv /\ SharedUnread /\ ListsInv)
<1>1. IInv /\ ListsInv /\ [Next]_vars => ListsInv'
  BY NextLists
<1>2. IInv /\ OneCombiner => SharedUnread
  BY UniqueUnread
<1> QED BY InitLists, <1>1, <1>2, InductiveInvariant, PTL DEF Spec

(* The iterators that threads use without the mutex point into the list they *)
(* hold, and the one the collector resumes from into the current list.       *)
THEOREM IteratorsCorrect == Spec => []IteratorsValid
<1>1. IInv /\ ListsInv => IteratorsValid
  BY DEF IInv, ProcessOK, ListsInv, IteratorsValid
<1> QED BY <1>1, ListsCorrect, PTL

(* A connected slot is in the list that the next invocation will take, once, *)
(* in its place.                                                             *)
THEOREM ConnectionsKept == Spec => []NoConnectionLost
<1>1. IInv /\ ListsInv => NoConnectionLost
  BY ListTypes, UnrepeatedCardinality DEF ListsInv, GoodList, NoConnectionLost
<1> QED BY <1>1, ListsCorrect, PTL

-----------------------------------------------------------------------------
(* Walks over the list: disconnect_all_slots, disconnect(group),             *)
(* disconnect(slot), num_slots and empty.                                    *)

(* The nodes before an iterator.                                             *)
Behind(list, it) == {list[i] : i \in 1..Index(list, it) - 1}

(* A walk of a kind at the iterator `it' that stops at `to', about `bodies', *)
(* which has counted n.                                                      *)
WalkGood(kind, list, it, to, bodies, n, bd) ==
    LET i == Index(list, it)
        s == Index(list, to)
    IN  /\ i <= s
        /\ kind # "num_slots" =>
              \A b \in Behind(list, it) \cap bodies : ~bd[b].connected
        /\ \A j \in s..Len(list) : list[j] \notin bodies
        /\ kind = "disconnect_group" => \A j \in i..s - 1 : list[j] \in bodies
        /\ kind = "num_slots" =>
              /\ n >= Cardinality({b \in Behind(list, it) : bd[b].connected})
              /\ n <= Cardinality(Behind(list, it))

WalkOK(p) ==
    /\ pc[p] = "idle" => tally[p] = 0
    /\ pc[p] \in Walks =>
          WalkGood(pc[p], lists[local[p].list], iter[p], stop[p], target[p], tally[p], body)

WalksInv == \A p \in Procs : WalkOK(p)

LEMMA BehindFinite ==
  ASSUME NEW list \in Seq(Bodies), NEW it \in ToSet(list) \cup {End}
  PROVE  /\ Behind(list, it) \subseteq ToSet(list)
         /\ IsFiniteSet(Behind(list, it))
<1>1. Index(list, it) \in 1..Len(list) + 1 /\ DOMAIN list = 1..Len(list) /\ Len(list) \in Nat
  BY IndexExists
<1>2. Behind(list, it) \subseteq ToSet(list)
  BY <1>1 DEF Behind, ToSet
<1>3. IsFiniteSet(DOMAIN list)
  BY <1>1, FS_Interval
<1>4. ToSet(list) = {list[i] : i \in DOMAIN list}
  BY DEF ToSet
<1>5. IsFiniteSet(ToSet(list))
  <2>1. list \in Surjection(DOMAIN list, ToSet(list))
    <3>1. list \in [DOMAIN list -> ToSet(list)]
      BY <1>1 DEF ToSet
    <3>2. \A b \in ToSet(list) : \E i \in DOMAIN list : list[i] = b
      BY <1>4
    <3> QED BY <3>1, <3>2 DEF Surjection
  <2> QED BY <1>3, <2>1, FS_Surjection
<1> QED BY <1>2, <1>5, FS_Subset

(* What other threads do to a walk: they disconnect bodies of its list.      *)
LEMMA WalkFrame ==
  ASSUME NEW list \in Seq(Bodies), NEW it \in ToSet(list) \cup {End},
         NEW kind, NEW to, NEW bodies, NEW n \in Int, NEW bd, NEW bd2,
         WalkGood(kind, list, it, to, bodies, n, bd),
         \A b \in ToSet(list) : bd2[b].connected => bd[b].connected
  PROVE  WalkGood(kind, list, it, to, bodies, n, bd2)
<1> DEFINE P == Behind(list, it)
           C == {b \in P : bd[b].connected}
           D == {b \in P : bd2[b].connected}
<1>1. P \subseteq ToSet(list) /\ IsFiniteSet(P)
  BY BehindFinite
<1> HIDE DEF P
<1>2. D \subseteq C /\ IsFiniteSet(C)
  BY <1>1, FS_Subset
<1>3. Cardinality(D) <= Cardinality(C) /\ Cardinality(D) \in Nat /\ Cardinality(C) \in Nat
  BY <1>2, FS_Subset, FS_CardinalityType
<1> HIDE DEF C, D
<1>4. /\ kind # "num_slots" => \A b \in P \cap bodies : ~bd[b].connected
      /\ kind = "num_slots" => n >= Cardinality(C) /\ n <= Cardinality(P)
  BY DEF WalkGood, P, C
<1>5. kind = "num_slots" => n >= Cardinality(D) /\ n <= Cardinality(P)
  BY <1>3, <1>4
<1>6. kind # "num_slots" => \A b \in P \cap bodies : ~bd2[b].connected
  BY <1>1, <1>4
<1> QED BY <1>5, <1>6 DEF WalkGood, P, D

LEMMA WalkStartsAll ==
  ASSUME NEW list \in Seq(Bodies), Unrepeated(list), NEW kind, kind # "disconnect_group",
         NEW bodies, NEW bd
  PROVE  WalkGood(kind, list, Begin(list), End, bodies, 0, bd)
<1>1. Index(list, Begin(list)) = 1
  BY BeginIndex, SignalAssumption
<1>2. Index(list, End) = Len(list) + 1 /\ Len(list) \in Nat
  BY IndexExists
<1>3. Behind(list, Begin(list)) = {}
  BY <1>1 DEF Behind
<1>4. Cardinality({}) = 0
  BY FS_EmptySet
<1>5. {b \in {} : bd[b].connected} = {}
  OBVIOUS
<1> QED BY <1>1, <1>2, <1>3, <1>4, <1>5 DEF WalkGood

LEMMA WalkStartsGroup ==
  ASSUME NEW list \in Seq(Bodies), GoodList(list), NEW g \in Groups, NEW n, NEW bd
  PROVE  WalkGood("disconnect_group", list,
                  NodeAt(list, LowerBoundIndex(list, KeyOf, GroupKey(g)) + 1),
                  NodeAt(list, UpperBoundIndex(list, KeyOf, GroupKey(g)) + 1),
                  {b \in Bodies : WeaklyEquivalent(KeyOf[b], GroupKey(g))}, n, bd)
<1> DEFINE low  == LowerBoundIndex(list, KeyOf, GroupKey(g))
           up   == UpperBoundIndex(list, KeyOf, GroupKey(g))
           from == NodeAt(list, low + 1)
           to   == NodeAt(list, up + 1)
           bodies == {b \in Bodies : WeaklyEquivalent(KeyOf[b], GroupKey(g))}
<1>1. Len(list) \in Nat /\ DOMAIN list = 1..Len(list) /\ \A j \in DOMAIN list : list[j] \in Bodies
  OBVIOUS
<1>2. GroupKey(g) \in GroupKeys
  BY DEF GroupKeys
<1>3. /\ low \in 0..Len(list) /\ up \in 0..Len(list) /\ low <= up
      /\ \A j \in DOMAIN list :
            WeaklyEquivalent(KeyOf[list[j]], GroupKey(g)) <=> low < j /\ j <= up
  BY <1>2, GroupBounds, SignalAssumption DEF GoodList
<1>4. \A j \in DOMAIN list : list[j] \in bodies <=> low < j /\ j <= up
  BY <1>1, <1>3
<1> HIDE DEF low, up, bodies
<1>5. Index(list, from) = low + 1
  BY <1>1, <1>3, IndexUnique, SignalAssumption DEF GoodList
<1>6. Index(list, to) = up + 1
  BY <1>1, <1>3, IndexUnique, SignalAssumption DEF GoodList
<1> HIDE DEF from, to
<1>7. \A b \in Behind(list, from) : b \notin bodies
  BY <1>1, <1>3, <1>4, <1>5 DEF Behind
<1>8. WalkGood("disconnect_group", list, from, to, bodies, n, bd)
  BY <1>1, <1>3, <1>4, <1>5, <1>6, <1>7 DEF WalkGood
<1> QED BY <1>8 DEF from, to, low, up, bodies

(* One node further.                                                         *)
LEMMA BehindNext ==
  ASSUME NEW list \in Seq(Bodies), Unrepeated(list), NEW b \in ToSet(list)
  PROVE  /\ b \notin Behind(list, b)
         /\ Behind(list, Successor(list, b)) = Behind(list, b) \cup {b}
<1> DEFINE i == Index(list, b)
<1>1. DOMAIN list = 1..Len(list) /\ Len(list) \in Nat /\ b # End
  BY ToSetType, SignalAssumption
<1>2. i \in DOMAIN list /\ list[i] = b
  BY <1>1, IndexExists
<1>3. Index(list, Successor(list, b)) = i + 1
  BY SuccessorIndex, SignalAssumption
<1> HIDE DEF i
<1>4. Behind(list, b) = {list[j] : j \in 1..i - 1}
  BY DEF Behind, i
<1>5. Behind(list, Successor(list, b)) = {list[j] : j \in 1..i}
  BY <1>1, <1>2, <1>3 DEF Behind
<1>6. 1..i = (1..i - 1) \cup {i}
  BY <1>1, <1>2
<1>7. b \notin Behind(list, b)
  BY <1>1, <1>2, <1>4 DEF Unrepeated
<1> QED BY <1>2, <1>4, <1>5, <1>6, <1>7

LEMMA WalkMoves ==
  ASSUME NEW list \in Seq(Bodies), Unrepeated(list), NEW b \in ToSet(list),
         NEW kind, NEW to \in ToSet(list) \cup {End}, b # to,
         NEW bodies, NEW n \in Int, NEW bd \in [Bodies -> BodyRecord],
         NEW r \in BodyRecord,
         WalkGood(kind, list, b, to, bodies, n, bd),
         r.connected => bd[b].connected,
         kind # "num_slots" /\ b \in bodies => ~r.connected
  PROVE  WalkGood(kind, list, Successor(list, b), to, bodies,
                  IF kind = "num_slots" /\ r.connected THEN n + 1 ELSE n,
                  [bd EXCEPT ![b] = r])
<1> DEFINE i   == Index(list, b)
           s   == Index(list, to)
           bd2 == [bd EXCEPT ![b] = r]
           P   == Behind(list, b)
           Q   == Behind(list, Successor(list, b))
           C   == {c \in P : bd[c].connected}
           D   == {c \in Q : bd2[c].connected}
<1>1. DOMAIN list = 1..Len(list) /\ Len(list) \in Nat /\ b # End /\ b \in Bodies
  BY ToSetType, SignalAssumption
<1>2. i \in DOMAIN list /\ list[i] = b /\ s \in 1..Len(list) + 1
  BY <1>1, IndexExists
<1>3. i # s
  BY <1>1, <1>2, IndexExists
<1>4. Index(list, Successor(list, b)) = i + 1
  BY SuccessorIndex, SignalAssumption
<1>5. /\ i <= s
      /\ kind # "num_slots" => \A c \in P \cap bodies : ~bd[c].connected
      /\ \A j \in s..Len(list) : list[j] \notin bodies
      /\ kind = "disconnect_group" => \A j \in i..s - 1 : list[j] \in bodies
      /\ kind = "num_slots" => n >= Cardinality(C) /\ n <= Cardinality(P)
  BY DEF WalkGood
<1>6. b \notin P /\ Q = P \cup {b} /\ P \subseteq ToSet(list) /\ IsFiniteSet(P)
  BY BehindNext, BehindFinite
<1> HIDE DEF i, s, P, Q
<1>7. i + 1 <= s /\ \A j \in i + 1..s - 1 : j \in i..s - 1
  BY <1>1, <1>2, <1>3, <1>5
<1>8. \A c \in P : bd2[c] = bd[c]
  BY <1>1, <1>6, ToSetType
<1>9. bd2[b] = r
  BY <1>1
<1> HIDE DEF bd2
<1>10. kind # "num_slots" => \A c \in Q \cap bodies : ~bd2[c].connected
  BY <1>5, <1>6, <1>8, <1>9
<1>11. Cardinality(Q) = Cardinality(P) + 1 /\ Cardinality(P) \in Nat
  BY <1>6, FS_AddElement, FS_CardinalityType
<1>12. IsFiniteSet(C) /\ Cardinality(C) \in Nat
  BY <1>6, FS_Subset, FS_CardinalityType
<1>13. /\ r.connected => Cardinality(D) = Cardinality(C) + 1
       /\ ~r.connected => Cardinality(D) = Cardinality(C)
  <2>1. ASSUME r.connected PROVE Cardinality(D) = Cardinality(C) + 1
    <3>1. D = C \cup {b} /\ b \notin C
      BY <1>6, <1>8, <1>9, <2>1
    <3> QED BY <1>12, <3>1, FS_AddElement
  <2>2. ASSUME ~r.connected PROVE D = C
    BY <1>6, <1>8, <1>9, <2>2
  <2> QED BY <2>1, <2>2
<1> HIDE DEF C, D
<1> DEFINE m == IF kind = "num_slots" /\ r.connected THEN n + 1 ELSE n
<1>14. kind = "num_slots" => m >= Cardinality(D) /\ m <= Cardinality(Q)
  BY <1>5, <1>11, <1>12, <1>13
<1> HIDE DEF m
<1>15. WalkGood(kind, list, Successor(list, b), to, bodies, m, bd2)
  BY <1>4, <1>5, <1>7, <1>10, <1>14 DEF WalkGood, s, Q, D
<1> QED BY <1>15 DEF m, bd2

(* No step connects a body of a list that a process reads.                   *)
ReadQuiet ==
    \A p \in Procs : local[p] # None =>
        \A b \in ToSet(lists[local[p].list]) : body'[b].connected => body[b].connected

LEMMA QuietIsReadQuiet ==
  ASSUME IInv, NoneConnected
  PROVE  ReadQuiet
BY ListTypes, ToSetType DEF NoneConnected, ReadQuiet

LEMMA NextReadQuiet ==
  ASSUME IInv, SharedUnread, [Next]_vars
  PROVE  ReadQuiet
<1>1. ASSUME NEW b \in Bodies, NEW position \in Positions, Connect(b, position)
      PROVE  ReadQuiet
  <2> DEFINE list  == lists[shared.list]
             from  == IF Unique THEN SweepStart ELSE Begin(list)
             count == IF Unique THEN 2 ELSE 0
             l     == IF Unique THEN shared.list ELSE CHOOSE f \in FreeLists : TRUE
             bd    == CleanedBodies(list, from, count)
  <2>1. /\ Unique \/ FreeLists # {}
        /\ \A m \in Lists \ {l} : b \notin ToSet(lists[m])
        /\ body' = [bd EXCEPT ![b] = NewBody]
    BY <1>1 DEF Connect
  <2>2. l \in Lists /\ Unread(l)
    BY <2>1, ModifiedListUnread
  <2>3. \A c \in Bodies : bd[c].connected => body[c].connected
    BY ListTypes, StillConnected DEF CleanedBodies, disconnect_expired_slot
  <2>4. \A c \in Bodies \ {b} : body'[c] = bd[c]
    BY <2>1 DEF CleanedBodies
  <2> HIDE DEF l, bd
  <2>5. ASSUME NEW p \in Procs, local[p] # None, NEW c \in ToSet(lists[local[p].list])
        PROVE  c \in Bodies /\ c # b
    BY <2>1, <2>2, <2>5, ListTypes, ToSetType DEF Unread
  <2> QED BY <2>3, <2>4, <2>5 DEF ReadQuiet
<1>2. CASE QuietEnvironment
  BY <1>2, QuietEnvironmentQuiet, QuietIsReadQuiet
<1>3. ASSUME NEW p \in Procs, QuietStep(p)
      PROVE  ReadQuiet
  BY <1>3, QuietStepQuiet, QuietIsReadQuiet
<1>4. ASSUME NEW p \in Procs, Invoke(p) \/ Janitor(p) \/ Release(p)
      PROVE  body' = body
  BY <1>4 DEF Invoke, Janitor, Release, bodyVars
<1>5. UNCHANGED vars => body' = body
  BY DEF vars, bodyVars
<1>6. body' = body => ReadQuiet
  BY DEF ReadQuiet
<1> QED BY <1>1, <1>2, <1>3, <1>4, <1>5, <1>6, NextSplit

(* A process that does not move. *)
Still(p) ==
    /\ pc'[p] = pc[p] /\ local'[p] = local[p] /\ iter'[p] = iter[p]
    /\ stop'[p] = stop[p] /\ target'[p] = target[p] /\ tally'[p] = tally[p]

LEMMA WalkUndisturbed ==
  ASSUME IInv, ReadQuiet, SnapshotKept, NEW p \in Procs, WalkOK(p), Still(p)
  PROVE  WalkOK(p)'
<1>1. CASE pc[p] \notin Walks
  BY <1>1 DEF WalkOK, Still
<1>2. CASE pc[p] \in Walks
  <2> DEFINE list == lists[local[p].list]
  <2>1. pc[p] # "idle"
    BY <1>2 DEF Walks
  <2>2. local[p] # None /\ iter[p] \in ToSet(list) \cup {End}
    BY <2>1 DEF IInv, ProcessOK
  <2>3. list \in Seq(Bodies) /\ tally[p] \in Int
    BY <2>2, ListTypes DEF IInv, TypeOK
  <2>4. lists'[local[p].list] = list
    BY <2>2 DEF SnapshotKept, Still
  <2>5. \A b \in ToSet(list) : body'[b].connected => body[b].connected
    BY <2>2 DEF ReadQuiet
  <2>6. WalkGood(pc[p], list, iter[p], stop[p], target[p], tally[p], body)
    BY <1>2 DEF WalkOK
  <2> HIDE DEF list
  <2>7. WalkGood(pc[p], list, iter[p], stop[p], target[p], tally[p], body')
    BY <2>2, <2>3, <2>5, <2>6, WalkFrame
  <2> QED BY <1>2, <2>1, <2>4, <2>7 DEF WalkOK, Still, list
<1> QED BY <1>1, <1>2

LEMMA OthersStill ==
  ASSUME IInv, NEW p \in Procs, Invoke(p) \/ BeginWalk(p) \/ Step(p),
         NEW q \in Procs, q # p
  PROVE  Still(q)
<1>1. /\ pc \in [Procs -> Invoking \cup Walks \cup {"idle", "release"}]
      /\ local \in [Procs -> States \cup {None}]
      /\ iter \in [Procs -> Bodies \cup {End}]
      /\ stop \in [Procs -> Bodies \cup {End}]
      /\ target \in [Procs -> SUBSET Bodies]
      /\ tally \in [Procs -> Int]
  BY DEF IInv, TypeOK
<1>2. ASSUME Invoke(p) \/ Release(p) \/ Janitor(p) PROVE Still(q)
  BY <1>1, <1>2 DEF Invoke, Release, Janitor, Still, walkVars
<1>3. ASSUME BeginWalk(p) \/ EndWalk(p) PROVE Still(q)
  BY <1>1, <1>3 DEF BeginWalk, BeginAll, BeginGroup, BeginSlot, Walk, EndWalk, Still, walkVars
<1>4. ASSUME Grab(p) \/ SlotExpires(p) \/ Increment(p) PROVE Still(q)
  BY <1>1, <1>4 DEF Grab, SlotExpires, Increment, Still, procVars, walkVars
<1>5. ASSUME ReachEnd(p) \/ StopEarly(p) \/ CacheDtor(p) PROVE Still(q)
  BY <1>1, <1>5 DEF ReachEnd, StopEarly, CacheDtor, Still, walkVars
<1>6. ASSUME VisitNode(p) PROVE Still(q)
  BY <1>1, <1>6 DEF VisitNode, Still
<1> QED BY <1>2, <1>3, <1>4, <1>5, <1>6 DEF Step

(* What a process does to its own walk.                                      *)
LEMMA BeginWalkOwn ==
  ASSUME IInv, ListsInv, NEW p \in Procs, WalkOK(p), BeginWalk(p)
  PROVE  WalkOK(p)'
<1> DEFINE list == lists[shared.list]
<1>1. list \in Seq(Bodies) /\ GoodList(list) /\ Unrepeated(list)
  BY ListTypes DEF ListsInv, GoodList
<1>2. ASSUME NEW kind, NEW from, NEW to, NEW bodies, Walk(p, kind, from, to, bodies),
             kind # "idle", WalkGood(kind, list, from, to, bodies, 0, body)
      PROVE  WalkOK(p)'
  <2>1. /\ pc'[p] = kind /\ local'[p] = shared /\ iter'[p] = from /\ stop'[p] = to
        /\ target'[p] = bodies /\ tally'[p] = 0 /\ body' = body /\ lists' = lists
    BY <1>2 DEF IInv, TypeOK, Walk, WalkOK, bodyVars, listVars
  <2> HIDE DEF Walk, WalkGood
  <2> QED BY <1>2, <2>1 DEF WalkOK
<1>3. ASSUME NEW kind \in {"disconnect_all", "num_slots", "empty"}, BeginAll(p, kind)
      PROVE  WalkOK(p)'
  <2>1. WalkGood(kind, list, Begin(list), End, Bodies, 0, body)
    BY <1>1, <1>3, WalkStartsAll
  <2> QED BY <1>2, <1>3, <2>1 DEF BeginAll
<1>4. ASSUME NEW g \in Groups, BeginGroup(p, g)
      PROVE  WalkOK(p)'
  <2>1. WalkGood("disconnect_group", list,
                 NodeAt(list, LowerBoundIndex(list, KeyOf, GroupKey(g)) + 1),
                 NodeAt(list, UpperBoundIndex(list, KeyOf, GroupKey(g)) + 1),
                 {b \in Bodies : WeaklyEquivalent(KeyOf[b], GroupKey(g))}, 0, body)
    BY <1>1, WalkStartsGroup
  <2> QED BY <1>2, <1>4, <2>1 DEF BeginGroup
<1>5. ASSUME NEW f \in Functions, BeginSlot(p, f)
      PROVE  WalkOK(p)'
  <2>1. WalkGood("disconnect_slot", list, Begin(list), End,
                 {b \in Bodies : FunctionOf[b] = f}, 0, body)
    BY <1>1, WalkStartsAll
  <2> QED BY <1>2, <1>5, <2>1 DEF BeginSlot
<1> QED BY <1>3, <1>4, <1>5 DEF BeginWalk

LEMMA VisitNodeOwn ==
  ASSUME IInv, ListsInv, NEW p \in Procs, WalkOK(p), VisitNode(p)
  PROVE  WalkOK(p)'
<1>1. PICK b \in Bodies :
        LET looks == pc[p] \in {"num_slots", "empty"}
            r     == IF looks THEN disconnect_expired_slot(b)
                     ELSE IF pc[p] = "disconnect_slot" /\ b \notin target[p] THEN body[b]
                     ELSE nolock_disconnect(body[b])
        IN  /\ pc[p] \in Walks /\ iter[p] = b /\ b # stop[p]
            /\ body' = [body EXCEPT ![b] = r]
            /\ tally' = [tally EXCEPT ![p] = IF looks /\ r.connected THEN @ + 1 ELSE @]
            /\ iter' = [iter EXCEPT ![p] = Successor(lists[local[p].list], b)]
            /\ pc' = [pc EXCEPT ![p] = IF @ = "empty" /\ r.connected THEN "release" ELSE @]
            /\ UNCHANGED <<blocked, owned, listVars, local, stop, target, active, held>>
  BY DEF VisitNode
<1> DEFINE looks == pc[p] \in {"num_slots", "empty"}
           r     == IF looks THEN disconnect_expired_slot(b)
                    ELSE IF pc[p] = "disconnect_slot" /\ b \notin target[p] THEN body[b]
                    ELSE nolock_disconnect(body[b])
           list  == lists[local[p].list]
<1>2. /\ pc[p] \in Walks /\ iter[p] = b /\ b # stop[p]
      /\ body' = [body EXCEPT ![b] = r]
      /\ tally' = [tally EXCEPT ![p] = IF looks /\ r.connected THEN @ + 1 ELSE @]
      /\ iter' = [iter EXCEPT ![p] = Successor(list, b)]
      /\ pc' = [pc EXCEPT ![p] = IF @ = "empty" /\ r.connected THEN "release" ELSE @]
      /\ local' = local /\ stop' = stop /\ target' = target /\ lists' = lists
  BY <1>1 DEF listVars
<1>3. r \in {body[b], nolock_disconnect(body[b])}
  BY DEF disconnect_expired_slot
<1>4. body \in [Bodies -> BodyRecord] /\ tally[p] \in Int
  BY ListTypes DEF IInv, TypeOK
<1>5. r \in BodyRecord /\ (r.connected => body[b].connected)
  <2>1. BodiesOK([body EXCEPT ![b] = r], active)
    BY <1>3, BodiesInIInv, BodyChanged
  <2>2. [body EXCEPT ![b] = r][b] \in BodyRecord
    BY <2>1 DEF BodiesOK
  <2> QED BY <1>3, <1>4, <2>2, StillConnected
<1>6. ~looks /\ b \in target[p] => ~r.connected
  BY <1>4, StillConnected
<1> HIDE DEF looks, r
<1>7. pc[p] # "idle" /\ local[p] # None
  BY <1>2 DEF IInv, ProcessOK, Walks
<1>8. /\ list \in Seq(Bodies) /\ Unrepeated(list)
      /\ b \in ToSet(list) /\ stop[p] \in ToSet(list) \cup {End}
  BY <1>2, <1>7, ListTypes, SignalAssumption DEF IInv, ProcessOK, ListsInv, GoodList
<1>9. WalkGood(pc[p], list, b, stop[p], target[p], tally[p], body)
  BY <1>2 DEF WalkOK
<1> HIDE DEF list
<1>10. CASE pc[p] = "empty" /\ r.connected
  <2>1. pc'[p] = "release"
    BY <1>2, <1>10 DEF IInv, TypeOK
  <2> QED BY <2>1 DEF WalkOK, Walks
<1>11. CASE ~(pc[p] = "empty" /\ r.connected)
  <2> DEFINE n == IF pc[p] = "num_slots" /\ r.connected THEN tally[p] + 1 ELSE tally[p]
  <2>1. pc[p] # "num_slots" /\ b \in target[p] => ~r.connected
    BY <1>6, <1>11 DEF looks
  <2>2. WalkGood(pc[p], list, Successor(list, b), stop[p], target[p], n,
                 [body EXCEPT ![b] = r])
    BY <1>2, <1>4, <1>5, <1>8, <1>9, <2>1, WalkMoves
  <2>3. /\ pc'[p] = pc[p] /\ local'[p] = local[p] /\ iter'[p] = Successor(list, b)
        /\ stop'[p] = stop[p] /\ target'[p] = target[p] /\ tally'[p] = n
        /\ lists'[local[p].list] = list
    BY <1>2, <1>11 DEF IInv, TypeOK, looks, list
  <2> HIDE DEF n
  <2> QED BY <1>2, <1>7, <2>2, <2>3 DEF WalkOK
<1> QED BY <1>10, <1>11

LEMMA OtherOwn ==
  ASSUME IInv, NEW p \in Procs, Invoke(p) \/ Step(p), ~VisitNode(p), ~SlotExpires(p)
  PROVE  WalkOK(p)'
<1>1. pc \in [Procs -> Invoking \cup Walks \cup {"idle", "release"}]
      /\ tally \in [Procs -> Int]
  BY DEF IInv, TypeOK
<1>2. ASSUME pc'[p] \in Invoking \cup {"release"}
      PROVE  WalkOK(p)'
  BY <1>2 DEF WalkOK, Walks, Invoking, Iterating
<1>3. ASSUME Invoke(p) \/ Grab(p) \/ Increment(p) \/ ReachEnd(p) \/ StopEarly(p)
               \/ Janitor(p) \/ CacheDtor(p) \/ EndWalk(p)
      PROVE  pc'[p] \in Invoking \cup {"release"}
  BY <1>1, <1>3 DEF Invoke, Grab, Increment, ReachEnd, StopEarly, Janitor, CacheDtor, EndWalk,
     AfterCombiner, Invoking, Iterating
<1>4. ASSUME Release(p)
      PROVE  WalkOK(p)'
  <2>1. pc'[p] = "idle" /\ tally'[p] = 0
    BY <1>1, <1>4 DEF Release
  <2> QED BY <2>1 DEF WalkOK, Walks
<1> QED BY <1>2, <1>3, <1>4 DEF Step

LEMMA InitWalks == Init => WalksInv
BY DEF Init, WalksInv, WalkOK, Walks

LEMMA NextWalks ==
  ASSUME IInv, SharedUnread, ListsInv, WalksInv, [Next]_vars
  PROVE  WalksInv'
<1>1. ReadQuiet
  BY NextReadQuiet
<1>2. SnapshotKept
  BY NextSnapshotKept DEF SnapshotKept, vars, listVars
<1>3. ASSUME NEW p \in Procs, Still(p)
      PROVE  WalkOK(p)'
  BY <1>1, <1>2, <1>3, WalkUndisturbed DEF WalksInv
<1>4. CASE Environment \/ UNCHANGED vars
  <2>1. \A p \in Procs : Still(p)
    BY <1>4 DEF Environment, Connect, Disconnect, Connected, Block, Unblock, DropObject,
       Still, vars, procVars, walkVars
  <2> QED BY <1>3, <2>1 DEF WalksInv
<1>5. ASSUME NEW p \in Procs, Invoke(p) \/ BeginWalk(p) \/ Step(p)
      PROVE  WalksInv'
  <2>1. \A q \in Procs : q # p => WalkOK(q)'
    BY <1>3, <1>5, OthersStill
  <2>2. SlotExpires(p) => Still(p)
    BY DEF SlotExpires, Still, procVars, walkVars
  <2>3. WalkOK(p)'
    BY <1>3, <1>5, <2>2, BeginWalkOwn, VisitNodeOwn, OtherOwn DEF WalksInv
  <2> QED BY <2>1, <2>3 DEF WalksInv
<1> QED BY <1>4, <1>5 DEF Next

(* Walks over the list do what they are for, while slots come and go and     *)
(* other walks are under way: every slot of the list that a walk is about    *)
(* and has passed is disconnected, disconnecting a group touches no other    *)
(* slot, and no walk ends early.                                             *)
THEOREM WalksCorrect == Spec => []WalksKeepTheirWord
<1>1. IInv /\ ListsInv /\ WalksInv => WalksKeepTheirWord
  <2> SUFFICES ASSUME IInv, ListsInv, WalksInv, NEW p \in Procs, pc[p] \in Walks
               PROVE  /\ pc[p] # "num_slots" =>
                            \A b \in Passed(p) \cap target[p] : ~body[b].connected
                      /\ iter[p] = stop[p] =>
                            target[p] \cap ToSet(lists[local[p].list]) \subseteq Passed(p)
                      /\ pc[p] = "disconnect_group" =>
                            iter[p] = stop[p] \/ iter[p] \in target[p]
                      /\ pc[p] = "num_slots" =>
                            /\ tally[p] >= Cardinality({b \in Passed(p) : body[b].connected})
                            /\ tally[p] <= Cardinality(Passed(p))
    BY DEF WalksKeepTheirWord, Walks
  <2> DEFINE list == lists[local[p].list]
             i    == Index(list, iter[p])
             s    == Index(list, stop[p])
  <2>1. WalkGood(pc[p], list, iter[p], stop[p], target[p], tally[p], body)
    BY DEF WalksInv, WalkOK
  <2>2. Passed(p) = Behind(list, iter[p])
    BY DEF Passed, Behind
  <2>3. pc[p] # "idle" /\ local[p] # None
    BY DEF IInv, ProcessOK, Walks
  <2>4. /\ list \in Seq(Bodies)
        /\ iter[p] \in ToSet(list) \cup {End} /\ stop[p] \in ToSet(list) \cup {End}
    BY <2>3, ListTypes DEF IInv, ProcessOK
  <2> HIDE DEF list
  <2>5. DOMAIN list = 1..Len(list) /\ Len(list) \in Nat
    BY <2>4
  <2>6. /\ i \in 1..Len(list) + 1
        /\ iter[p] = End => i = Len(list) + 1
        /\ iter[p] # End => i \in DOMAIN list /\ list[i] = iter[p]
        /\ s \in 1..Len(list) + 1
        /\ stop[p] = End => s = Len(list) + 1
        /\ stop[p] # End => s \in DOMAIN list /\ list[s] = stop[p]
    BY <2>4, IndexExists
  <2>7. /\ i <= s
        /\ \A j \in s..Len(list) : list[j] \notin target[p]
        /\ pc[p] = "disconnect_group" => \A j \in i..s - 1 : list[j] \in target[p]
    BY <2>1 DEF WalkGood
  <2>8. ASSUME iter[p] = stop[p]
        PROVE  target[p] \cap ToSet(list) \subseteq Passed(p)
    <3>1. \A j \in DOMAIN list : list[j] \in target[p] => j \in 1..s - 1
      BY <2>5, <2>6, <2>7
    <3>2. i = s
      BY <2>8
    <3> HIDE DEF i, s
    <3> QED BY <2>2, <3>1, <3>2 DEF Behind, ToSet, i
  <2>9. ASSUME pc[p] = "disconnect_group", iter[p] # stop[p]
        PROVE  iter[p] \in target[p]
    <3>1. i # s
      BY <2>5, <2>6, <2>9
    <3> HIDE DEF i, s
    <3>2. i \in i..s - 1 /\ i # Len(list) + 1
      BY <2>5, <2>6, <2>7, <3>1
    <3> QED BY <2>6, <2>7, <2>9, <3>2
  <2> QED BY <2>1, <2>2, <2>8, <2>9 DEF WalkGood, list
<1>2. WalksInv /\ IInv /\ SharedUnread /\ ListsInv /\ [Next]_vars => WalksInv'
  BY NextWalks
<1> QED BY <1>1, <1>2, InitWalks, ListsCorrect, PTL DEF Spec

-----------------------------------------------------------------------------
(* The signal keeps the promise of Broadcast.                                *)

(* What the state of Signal is in Broadcast. *)
Order == Without(lists[shared.list], Disconnected)
Queue(p) == Without(LeftOf(p), Disconnected)
Current(p) == IF pc[p] = "calling" THEN iter[p] ELSE None

(* Erasing what is disconnected, before or after more slots are. *)
LEMMA ForgetMore ==
  ASSUME NEW list \in Seq(Bodies), Unrepeated(list), NEW D, NEW S, NEW D2,
         \A b \in ToSet(list) : b \in D2 <=> b \in D \cup S
  PROVE  Without(list, D2) = Without(Without(list, D), S)
<1>1. Without(Without(list, D), S) = Without(list, D \cup S)
  BY WithoutTwice
<1>2. Without(list, D2) = Without(list, D \cup S)
  BY WithoutSame
<1> QED BY <1>1, <1>2

(* A sweep erases only what does not show. *)
LEMMA SweptUnseen ==
  ASSUME NEW list \in Seq(Bodies), Unrepeated(list), NEW from, NEW count, NEW bd, NEW D,
         \A b \in ToSet(list) : b \in D <=> ~bd[b].connected
  PROVE  Without(CleanedList(list, from, count, bd), D) = Without(list, D)
<1> PICK gone : gone = {b \in Swept(list, from, count) : ~bd[b].connected}
  OBVIOUS
<1>1. Without(CleanedList(list, from, count, bd), D) = Without(list, gone \cup D)
  BY WithoutTwice DEF CleanedList
<1>2. \A b \in ToSet(list) : b \in gone \cup D <=> b \in D
  OBVIOUS
<1> QED BY <1>1, <1>2, WithoutSame

LEMMA LeftType ==
  ASSUME IInv, ListsInv, NEW p \in Procs
  PROVE  /\ LeftOf(p) \in Seq(Bodies) /\ Unrepeated(LeftOf(p))
         /\ local[p] # None => ToSet(LeftOf(p)) \subseteq ToSet(lists[local[p].list])
         /\ pc[p] \notin {"grab", "calling", "skipping"} => LeftOf(p) = << >>
<1>1. << >> \in Seq(Bodies) /\ Unrepeated(<< >>) /\ ToSet(<< >>) = {}
  BY DEF Unrepeated, ToSet
<1>2. CASE pc[p] \notin {"grab", "calling", "skipping"}
  <2>1. LeftOf(p) = << >>
    BY <1>2 DEF LeftOf
  <2> QED BY <1>1, <2>1
<1>3. CASE pc[p] \in {"grab", "calling", "skipping"}
  <2> DEFINE list == lists[local[p].list]
             i    == Index(list, iter[p])
  <2>1. local[p] # None /\ iter[p] \in ToSet(list) \cup {End}
    BY <1>3 DEF IInv, ProcessOK
  <2>2. list \in Seq(Bodies) /\ Unrepeated(list)
    BY <2>1, ListTypes DEF ListsInv, GoodList
  <2>3. LeftOf(p) = IF pc[p] = "grab" THEN Rest(list, i) ELSE Rest(list, i + 1)
    BY <1>3 DEF LeftOf, Rest
  <2> HIDE DEF list
  <2>4. i \in 1..Len(list) + 1
    BY <2>1, <2>2, IndexExists
  <2> HIDE DEF i
  <2>5. Len(list) \in Nat
    BY <2>2
  <2>6. ASSUME NEW j \in 1..Len(list) + 1
        PROVE  /\ Rest(list, j) \in Seq(Bodies) /\ Unrepeated(Rest(list, j))
               /\ ToSet(Rest(list, j)) \subseteq ToSet(list)
    BY <2>2, RestElements, RestUnrepeated
  <2>7. Rest(list, Len(list) + 2) = << >>
    BY <2>2, <2>5 DEF Rest
  <2>8. i + 1 \in 1..Len(list) + 1 \/ i + 1 = Len(list) + 2
    BY <2>4, <2>5
  <2> QED BY <1>1, <1>3, <2>1, <2>3, <2>4, <2>6, <2>7, <2>8 DEF list
<1> QED BY <1>2, <1>3

(* The slots of S, and no others of its list, are disconnected behind the    *)
(* back of the process q.                                                    *)
Disconnects(q, S) ==
    local[q] # None =>
        \A b \in ToSet(lists[local[q].list]) : b \in Disconnected' <=> b \in Disconnected \cup S

(* What a step that disconnects S is for the process q. *)
Forgets(q, S) ==
    /\ Queue(q)' = Without(Queue(q), S)
    /\ Current(q)' = Current(q)
    /\ pc'[q] \in Iterating <=> pc[q] \in Iterating

LEMMA QuietForgets ==
  ASSUME IInv, ListsInv, NEW q \in Procs, NEW S,
         pc[q] \notin Iterating, pc'[q] \notin Iterating
  PROVE  Forgets(q, S)
<1>1. LeftOf(q) = << >> /\ LeftOf(q)' = << >> /\ Current(q) = None /\ Current(q)' = None
  BY DEF LeftOf, Current, Iterating
<1>2. \A D : Without(<< >>, D) = << >>
  BY WithoutNone
<1>3. Queue(q) = << >> /\ Queue(q)' = << >>
  BY <1>1, <1>2 DEF Queue
<1> QED BY <1>1, <1>2, <1>3 DEF Forgets

LEMMA StillForgets ==
  ASSUME IInv, ListsInv, SnapshotKept, NEW q \in Procs, Still(q), NEW S, Disconnects(q, S)
  PROVE  Forgets(q, S)
<1>1. CASE local[q] = None
  <2>1. pc[q] = "idle" /\ pc'[q] = "idle"
    BY <1>1 DEF IInv, ProcessOK, Still
  <2> QED BY <2>1, QuietForgets DEF Iterating
<1>2. CASE local[q] # None
  <2>1. lists'[local[q].list] = lists[local[q].list]
    BY <1>2 DEF SnapshotKept, Still
  <2>2. LeftOf(q)' = LeftOf(q)
    BY <2>1 DEF LeftOf, Still
  <2>3. \A b \in ToSet(LeftOf(q)) : b \in Disconnected' <=> b \in Disconnected \cup S
    BY <1>2, LeftType DEF Disconnects
  <2>4. Without(LeftOf(q), Disconnected') = Without(Without(LeftOf(q), Disconnected), S)
    BY <2>3, LeftType, ForgetMore
  <2>5. Queue(q)' = Without(Queue(q), S)
    BY <2>2, <2>4 DEF Queue
  <2>6. Current(q)' = Current(q)
    BY DEF Current, Still
  <2> QED BY <2>5, <2>6 DEF Forgets, Still
<1> QED BY <1>1, <1>2

(* The steps of Broadcast, in terms of Signal. *)
PromisedDisconnect(S) ==
    /\ Order' = Without(Order, S)
    /\ \A q \in Procs : Forgets(q, S)
    /\ blocked' = blocked

PromisedQuiet ==
    /\ Order' = Order
    /\ \A q \in Procs : /\ Queue(q)' = Queue(q) /\ Current(q)' = Current(q)
                        /\ pc'[q] \in Iterating <=> pc[q] \in Iterating

PromisedConnect(b, position, S) ==
    /\ S \subseteq {c \in ToSet(Order) : Expired(c)}
    /\ b \notin ToSet(Order) \ S
    /\ Order' = Inserted(Without(Order, S), KeyOf, b, position)
    /\ \A q \in Procs : Forgets(q, S)
    /\ blocked' = blocked \ {b}

(* A step of the process p only. *)
PromisedStep(p) ==
    /\ Order' = Order /\ blocked' = blocked
    /\ \A q \in Procs \ {p} : /\ Queue(q)' = Queue(q) /\ Current(q)' = Current(q)
                              /\ pc'[q] \in Iterating <=> pc[q] \in Iterating

PromisedEmit(p) ==
    /\ PromisedStep(p)
    /\ pc[p] \notin Iterating /\ pc'[p] \in Iterating
    /\ Queue(p)' = Order /\ Current(p)' = Current(p)

PromisedTurn(p) ==
    /\ PromisedStep(p)
    /\ pc[p] \in Iterating /\ pc'[p] \in Iterating
    /\ Current(p) = None /\ Queue(p) # << >>
    /\ Current(p)' = IF Head(Queue(p)) \in blocked THEN None ELSE Head(Queue(p))
    /\ Queue(p)' = Tail(Queue(p))

PromisedDone(p) ==
    /\ PromisedStep(p)
    /\ pc'[p] \in Iterating <=> pc[p] \in Iterating
    /\ Current(p) # None /\ Current(p)' = None /\ Queue(p)' = Queue(p)

PromisedFinish(p) ==
    /\ PromisedStep(p)
    /\ pc[p] \in Iterating /\ pc'[p] \notin Iterating
    /\ Queue(p) = << >> \/ Current(p) # None
    /\ Queue(p)' = << >> /\ Current(p)' = None

(* The steps of Signal, in these terms. *)
LEMMA DisconnectsOne ==
  ASSUME IInv, ListsInv, NEW S, UNCHANGED <<lists, shared, blocked>>, S \subseteq Bodies,
         \A b \in Bodies : b \in Disconnected' <=> b \in Disconnected \cup S,
         \A q \in Procs : Still(q) \/ (pc[q] \notin Iterating /\ pc'[q] \notin Iterating)
                          \/ Forgets(q, S)
  PROVE  PromisedDisconnect(S)
<1>1. lists[shared.list] \in Seq(Bodies) /\ Unrepeated(lists[shared.list])
  BY ListTypes DEF ListsInv, GoodList
<1>2. \A b \in ToSet(lists[shared.list]) : b \in Disconnected' <=> b \in Disconnected \cup S
  BY <1>1, ToSetType
<1>3. Order' = Without(Order, S)
  <2>1. Without(lists[shared.list], Disconnected') = Without(Order, S)
    BY <1>1, <1>2, ForgetMore DEF Order
  <2> QED BY <2>1 DEF Order
<1>4. SnapshotKept
  BY DEF SnapshotKept
<1>5. ASSUME NEW q \in Procs PROVE Disconnects(q, S)
  BY ListTypes, ToSetType DEF Disconnects
<1>6. ASSUME NEW q \in Procs PROVE Forgets(q, S)
  BY <1>4, <1>5, StillForgets, QuietForgets
<1> QED BY <1>3, <1>6 DEF PromisedDisconnect

(* Where nothing is disconnected, nothing is forgotten. *)
LEMMA ForgetsNothing ==
  ASSUME IInv, ListsInv
  PROVE  /\ Without(Order, {}) = Order
         /\ \A q \in Procs : Without(Queue(q), {}) = Queue(q)
<1>1. /\ lists[shared.list] \in Seq(Bodies) /\ Unrepeated(lists[shared.list])
      /\ \A q \in Procs : LeftOf(q) \in Seq(Bodies) /\ Unrepeated(LeftOf(q))
  BY ListTypes, LeftType DEF ListsInv, GoodList
<1>2. Disconnected \cup {} = Disconnected
  OBVIOUS
<1> QED BY <1>1, <1>2, WithoutTwice DEF Order, Queue

LEMMA QuietPromised ==
  ASSUME IInv, ListsInv, PromisedDisconnect({})
  PROVE  PromisedQuiet
BY ForgetsNothing DEF PromisedDisconnect, PromisedQuiet, Forgets

(* Records that have become r, or what disconnection makes of them. *)
LEMMA OneBodyForgotten ==
  ASSUME IInv, NEW b \in Bodies, NEW r \in {body[b], nolock_disconnect(body[b])},
         body' = [body EXCEPT ![b] = r]
  PROVE  \E S \in {{}, {b}} :
            \A c \in Bodies : c \in Disconnected' <=> c \in Disconnected \cup S
<1>1. body \in [Bodies -> BodyRecord] /\ ~nolock_disconnect(body[b]).connected
  BY ListTypes, StillConnected
<1>2. \A c \in Bodies : /\ c \in Disconnected <=> ~body[c].connected
                        /\ c \in Disconnected' <=> ~body'[c].connected
  BY DEF Disconnected
<1>3. CASE r = body[b]
  <2>1. \A c \in Bodies : c \in Disconnected' <=> c \in Disconnected \cup {}
    BY <1>1, <1>2, <1>3
  <2> QED BY <2>1
<1>4. CASE r = nolock_disconnect(body[b])
  <2>1. \A c \in Bodies : c \in Disconnected' <=> c \in Disconnected \cup {b}
    BY <1>1, <1>2, <1>4
  <2> QED BY <2>1
<1> QED BY <1>3, <1>4

LEMMA SameDisconnected ==
  ASSUME IInv, \A b \in Bodies : body'[b].connected = body[b].connected
  PROVE  /\ Disconnected' = Disconnected
         /\ \A b \in Bodies : b \in Disconnected' <=> b \in Disconnected \cup {}
         /\ \A q \in Procs : Disconnects(q, {})
<1>1. Disconnected' = Disconnected
  BY DEF Disconnected
<1> QED BY <1>1 DEF Disconnects

(* disconnect, connected and the nodes of a walk. *)
LEMMA BodyStepPromised ==
  ASSUME IInv, ListsInv, NEW b \in Bodies, UNCHANGED <<lists, shared, blocked>>,
         NEW r \in {body[b], nolock_disconnect(body[b])}, body' = [body EXCEPT ![b] = r],
         \A q \in Procs : Still(q) \/ (pc[q] \notin Iterating /\ pc'[q] \notin Iterating)
  PROVE  PromisedQuiet \/ PromisedDisconnect({b})
<1>1. PICK S \in {{}, {b}} :
        \A c \in Bodies : c \in Disconnected' <=> c \in Disconnected \cup S
  BY OneBodyForgotten
<1>2. PromisedDisconnect(S)
  BY <1>1, DisconnectsOne
<1> QED BY <1>1, <1>2, QuietPromised

LEMMA EnvironmentPromised ==
  ASSUME IInv, ListsInv, QuietEnvironment
  PROVE  PromisedQuiet \/ \E b \in Bodies : PromisedDisconnect({b})
<1>1. UNCHANGED <<listVars, procVars>>
  BY QuietEnvironmentQuiet
<1>2. UNCHANGED <<lists, shared>> /\ \A q \in Procs : Still(q)
  BY <1>1 DEF listVars, procVars, walkVars, Still
<1>3. ASSUME NEW b \in Bodies, Disconnect(b) \/ Connected(b)
      PROVE  PromisedQuiet \/ PromisedDisconnect({b})
  <2>1. PICK r \in {body[b], nolock_disconnect(body[b])} :
          body' = [body EXCEPT ![b] = r] /\ blocked' = blocked
    BY <1>3 DEF Disconnect, Connected, disconnect_expired_slot
  <2> QED BY <1>2, <2>1, BodyStepPromised
<1>4. ASSUME body' = body
      PROVE  PromisedQuiet
  <2>1. SnapshotKept /\ \A q \in Procs : Disconnects(q, {})
    BY <1>2, <1>4, SameDisconnected DEF SnapshotKept
  <2>2. \A q \in Procs : Forgets(q, {})
    BY <1>2, <2>1, StillForgets
  <2>3. Order' = Order
    BY <1>2, <1>4, SameDisconnected DEF Order
  <2> QED BY <2>2, <2>3, ForgetsNothing DEF PromisedQuiet, Forgets
<1>5. ASSUME NEW b \in Bodies, Block(b) \/ Unblock(b)
      PROVE  body' = body
  BY <1>5 DEF Block, Unblock
<1>6. ASSUME NEW o \in Objs, DropObject(o)
      PROVE  body' = body
  BY <1>6 DEF DropObject
<1> QED BY <1>3, <1>4, <1>5, <1>6 DEF QuietEnvironment

(* Steps of p that connect and disconnect nothing are steps of p only, if    *)
(* the current list shows the same.                                          *)
LEMMA OwnStep ==
  ASSUME IInv, ListsInv, SnapshotKept, NEW p \in Procs, blocked' = blocked,
         \A b \in Bodies : body'[b].connected = body[b].connected,
         Without(lists'[shared'.list], Disconnected) = Without(lists[shared.list], Disconnected),
         \A q \in Procs \ {p} : Still(q)
  PROVE  PromisedStep(p)
<1>1. Order' = Order
  BY SameDisconnected DEF Order
<1>2. ASSUME NEW q \in Procs \ {p} PROVE Forgets(q, {})
  BY SameDisconnected, StillForgets
<1> QED BY <1>1, <1>2, ForgetsNothing DEF PromisedStep, Forgets

(* A step of p outside of the walk that calls the slots. *)
LEMMA OwnStepQuiet ==
  ASSUME IInv, ListsInv, NEW p \in Procs, PromisedStep(p),
         pc[p] \notin Iterating, pc'[p] \notin Iterating
  PROVE  PromisedQuiet
<1>1. Forgets(p, {})
  BY QuietForgets
<1> QED BY <1>1, ForgetsNothing DEF PromisedStep, PromisedQuiet, Forgets

LEMMA QuietStepStill ==
  ASSUME IInv, NEW p \in Procs, QuietStep(p) \/ Invoke(p) \/ Janitor(p) \/ Release(p)
  PROVE  \A q \in Procs \ {p} : Still(q)
BY OthersStill DEF QuietStep, Step

(* VisitNode *)
LEMMA VisitNodePromised ==
  ASSUME IInv, ListsInv, NEW p \in Procs, VisitNode(p)
  PROVE  PromisedQuiet \/ \E b \in Bodies : PromisedDisconnect({b})
<1>1. PICK b \in Bodies :
        LET r == IF pc[p] \in {"num_slots", "empty"} THEN disconnect_expired_slot(b)
                 ELSE IF pc[p] = "disconnect_slot" /\ b \notin target[p] THEN body[b]
                 ELSE nolock_disconnect(body[b])
        IN  body' = [body EXCEPT ![b] = r]
  BY DEF VisitNode
<1>2. PICK r \in {body[b], nolock_disconnect(body[b])} : body' = [body EXCEPT ![b] = r]
  BY <1>1 DEF disconnect_expired_slot
<1>3. /\ pc[p] \in Walks /\ pc'[p] \in Walks \cup {"release"}
      /\ UNCHANGED <<lists, shared, blocked>>
  BY DEF VisitNode, IInv, TypeOK, listVars
<1>4. pc[p] \notin Iterating /\ pc'[p] \notin Iterating
  BY <1>3 DEF Walks, Iterating
<1>5. \A q \in Procs \ {p} : Still(q)
  BY QuietStepStill DEF QuietStep
<1> QED BY <1>2, <1>3, <1>4, <1>5, BodyStepPromised

(* SlotExpires *)
LEMMA SlotExpiresPromised ==
  ASSUME IInv, ListsInv, NEW p \in Procs, SlotExpires(p)
  PROVE  PromisedQuiet \/ \E b \in Bodies : PromisedDisconnect({b})
<1>1. PICK b \in Bodies : body' = [body EXCEPT ![b] = nolock_disconnect(body[b])]
  BY DEF SlotExpires
<1>2. UNCHANGED <<lists, shared, blocked, procVars>>
  BY DEF SlotExpires, listVars
<1>3. \A q \in Procs : Still(q)
  BY <1>2 DEF procVars, walkVars, Still
<1> QED BY <1>1, <1>2, <1>3, BodyStepPromised

(* What the process p has before it, and after the next node.                *)
LEMMA LeftCases ==
  ASSUME IInv, ListsInv, NEW p \in Procs, pc[p] \in {"grab", "calling", "skipping"}
  PROVE  LET list == lists[local[p].list]
             i    == Index(list, iter[p])
         IN  /\ local[p] # None /\ list \in Seq(Bodies) /\ Unrepeated(list)
             /\ iter[p] \in ToSet(list) \cup {End}
             /\ i \in 1..Len(list) + 1
             /\ iter[p] = End => i = Len(list) + 1
             /\ iter[p] # End => i \in DOMAIN list /\ list[i] = iter[p]
             /\ LeftOf(p) = IF pc[p] = "grab" THEN Rest(list, i) ELSE Rest(list, i + 1)
<1>1. local[p] # None /\ iter[p] \in ToSet(lists[local[p].list]) \cup {End}
  BY DEF IInv, ProcessOK
<1>2. lists[local[p].list] \in Seq(Bodies) /\ Unrepeated(lists[local[p].list])
  BY <1>1, ListTypes DEF ListsInv, GoodList
<1>3. LeftOf(p) =
        IF pc[p] = "grab"
        THEN Rest(lists[local[p].list], Index(lists[local[p].list], iter[p]))
        ELSE Rest(lists[local[p].list], Index(lists[local[p].list], iter[p]) + 1)
  BY DEF LeftOf, Rest
<1> QED BY <1>1, <1>2, <1>3, IndexExists

(* Grab *)
LEMMA GrabPromised ==
  ASSUME IInv, ListsInv, NEW p \in Procs, Grab(p)
  PROVE  PromisedTurn(p) \/ \E b \in Bodies : PromisedDisconnect({b})
<1>1. PICK b \in Bodies :
        LET r  == disconnect_expired_slot(b)
            bd == [body EXCEPT ![b] = r]
        IN  /\ pc[p] = "grab" /\ iter[p] = b
            /\ IF Callable(b, r)
               THEN body' = set_active_slot(bd, active[p], b) /\ pc' = [pc EXCEPT ![p] = "calling"]
               ELSE body' = bd /\ pc' = [pc EXCEPT ![p] = "skipping"]
  BY DEF Grab
<1> DEFINE r    == disconnect_expired_slot(b)
           bd   == [body EXCEPT ![b] = r]
           list == lists[local[p].list]
           i    == Index(list, b)
<1>2. /\ pc[p] = "grab" /\ iter[p] = b
      /\ pc'[p] = IF Callable(b, r) THEN "calling" ELSE "skipping"
      /\ body' = bd \/ body' = set_active_slot(bd, active[p], b)
      /\ UNCHANGED <<blocked, lists, shared, local, iter>>
  <2>1. UNCHANGED <<blocked, lists, shared, local, iter>>
    BY DEF Grab, listVars
  <2>2. pc \in [Procs -> Invoking \cup Walks \cup {"idle", "release"}]
    BY DEF IInv, TypeOK
  <2> QED BY <1>1, <2>1, <2>2
<1>3. r \in {body[b], nolock_disconnect(body[b])}
  BY DEF disconnect_expired_slot
<1>4. \A c \in Bodies : body'[c].connected = bd[c].connected
  <2> HIDE DEF r
  <2>1. BodiesOK(bd, active)
    BY <1>3, BodiesInIInv, BodyChanged
  <2>2. bd \in [Bodies -> BodyRecord]
    BY <2>1 DEF BodiesOK
  <2> HIDE DEF bd
  <2> QED BY <1>2, <2>2, SetActiveConnected
<1>5. /\ local[p] # None /\ list \in Seq(Bodies) /\ Unrepeated(list)
      /\ i \in DOMAIN list /\ list[i] = b /\ LeftOf(p) = Rest(list, i)
  <2>1. iter[p] # End
    BY <1>2, SignalAssumption
  <2> QED BY <1>2, <2>1, LeftCases
<1>6. LeftOf(p)' = Rest(list, i + 1)
  <2>1. LeftOf(p)' = SubSeq(list, i + 1, Len(list))
    BY <1>2 DEF LeftOf
  <2> QED BY <2>1 DEF Rest
<1>7. \A R : /\ b \in R => Without(LeftOf(p), R) = Without(LeftOf(p)', R)
             /\ b \notin R => Without(LeftOf(p), R) = <<b>> \o Without(LeftOf(p)', R)
             /\ Without(LeftOf(p)', R) \in Seq(Bodies)
  <2> HIDE DEF list, i
  <2> QED BY <1>5, <1>6, RestStep
<1>8. \A q \in Procs \ {p} : Still(q)
  BY QuietStepStill DEF QuietStep
<1>9. body \in [Bodies -> BodyRecord] /\ ~nolock_disconnect(body[b]).connected
  BY ListTypes, StillConnected
<1> HIDE DEF r
<1>10. ASSUME r.connected
       PROVE  PromisedTurn(p)
  <2>1. bd = body
    BY <1>3, <1>9, <1>10
  <2>2. Disconnected' = Disconnected /\ b \notin Disconnected
    BY <1>3, <1>4, <1>9, <1>10, <2>1 DEF Disconnected
  <2>3. PromisedStep(p)
    <3>1. SnapshotKept
      BY <1>2 DEF SnapshotKept
    <3> QED BY <1>2, <1>4, <1>8, <2>1, <3>1, OwnStep
  <2>4. Queue(p) = <<b>> \o Queue(p)' /\ Queue(p)' \in Seq(Bodies)
    BY <1>7, <2>2 DEF Queue
  <2>5. Queue(p) # << >> /\ Head(Queue(p)) = b /\ Tail(Queue(p)) = Queue(p)'
    BY <2>4, ListWithHead
  <2>6. Current(p) = None /\ Current(p)' = IF b \in blocked THEN None ELSE b
    BY <1>2, <1>10 DEF Current, Callable
  <2>7. pc[p] \in Iterating /\ pc'[p] \in Iterating
    BY <1>2 DEF Iterating
  <2> QED BY <2>3, <2>5, <2>6, <2>7 DEF PromisedTurn
<1>11. ASSUME ~r.connected
       PROVE  PromisedDisconnect({b})
  <2>1. Disconnected' = Disconnected \cup {b}
    BY <1>4, <1>9, <1>11 DEF Disconnected
  <2>2. pc'[p] = "skipping" /\ Current(p) = None /\ Current(p)' = None
    BY <1>2, <1>11 DEF Current, Callable
  <2>3. Queue(p)' = Without(LeftOf(p), Disconnected \cup {b})
    BY <1>7, <2>1 DEF Queue
  <2>4. Without(Queue(p), {b}) = Without(LeftOf(p), Disconnected \cup {b})
    BY LeftType, WithoutTwice DEF Queue
  <2>5. Forgets(p, {b})
    BY <1>2, <2>2, <2>3, <2>4 DEF Forgets, Iterating
  <2> QED BY <1>2, <1>8, <2>1, <2>5, DisconnectsOne
<1> QED BY <1>10, <1>11

(* Increment *)
LEMMA IncrementPromised ==
  ASSUME IInv, ListsInv, NEW p \in Procs, Increment(p)
  PROVE  PromisedQuiet \/ PromisedDone(p)
<1> DEFINE list == lists[local[p].list]
           i    == Index(list, iter[p])
           next == Successor(list, iter[p])
<1>1. /\ pc[p] \in {"calling", "skipping"}
      /\ iter'[p] = next
      /\ pc'[p] = IF next = End THEN "end" ELSE "grab"
      /\ UNCHANGED <<body, blocked, lists, shared, local>>
  <2>1. UNCHANGED <<body, blocked, lists, shared, local>>
    BY DEF Increment, listVars, bodyVars
  <2>2. /\ pc \in [Procs -> Invoking \cup Walks \cup {"idle", "release"}]
        /\ iter \in [Procs -> Bodies \cup {End}]
    BY DEF IInv, TypeOK
  <2> QED BY <2>1, <2>2 DEF Increment
<1>2. /\ local[p] # None /\ list \in Seq(Bodies) /\ Unrepeated(list)
      /\ iter[p] \in ToSet(list) \cup {End}
      /\ i \in 1..Len(list) + 1
      /\ iter[p] = End => i = Len(list) + 1
      /\ iter[p] # End => i \in DOMAIN list
      /\ LeftOf(p) = Rest(list, i + 1)
  BY <1>1, LeftCases
<1>3. LeftOf(p)' = IF next = End THEN << >> ELSE Rest(list, Index(list, next))
  <2>1. LeftOf(p)' = IF next = End THEN << >> ELSE SubSeq(list, Index(list, next), Len(list))
    BY <1>1 DEF LeftOf
  <2> QED BY <2>1 DEF Rest
<1>4. LeftOf(p)' = LeftOf(p)
  <2> HIDE DEF list
  <2>1. Len(list) \in Nat /\ DOMAIN list = 1..Len(list)
    BY <1>2
  <2>2. CASE iter[p] = End
    <3>1. i + 1 = Len(list) + 2 /\ i + 1 \notin DOMAIN list
      BY <1>2, <2>1, <2>2
    <3>2. next = End
      BY <3>1 DEF Successor, NodeAt
    <3>3. Rest(list, Len(list) + 2) = << >>
      BY <1>2, <2>1 DEF Rest
    <3> QED BY <1>2, <1>3, <3>1, <3>2, <3>3
  <2>3. CASE iter[p] # End
    <3> HIDE DEF i
    <3>1. i + 1 \in 1..Len(list) + 1
      BY <1>2, <2>1, <2>3
    <3>2. next = NodeAt(list, i + 1)
      BY DEF Successor, i
    <3>3. next = IF i + 1 = Len(list) + 1 THEN End ELSE list[i + 1]
      BY <1>2, <3>1, <3>2, IndexUnique, SignalAssumption
    <3>4. Index(list, next) = i + 1
      BY <1>2, <3>1, <3>2, IndexUnique, SignalAssumption
    <3>5. CASE i + 1 = Len(list) + 1
      <4>1. Rest(list, Len(list) + 1) = << >>
        BY <1>2, <2>1 DEF Rest
      <4> QED BY <1>2, <1>3, <3>3, <3>5, <4>1
    <3>6. CASE i + 1 # Len(list) + 1
      <4>1. i + 1 \in DOMAIN list
        BY <2>1, <3>1, <3>6
      <4>2. next # End
        BY <1>2, <3>3, <3>6, <4>1, SignalAssumption
      <4> QED BY <1>2, <1>3, <3>4, <4>2
    <3> QED BY <3>5, <3>6
  <2> QED BY <2>2, <2>3
<1>5. Disconnected' = Disconnected
  BY <1>1 DEF Disconnected
<1>6. Queue(p)' = Queue(p)
  BY <1>4, <1>5 DEF Queue
<1>7. PromisedStep(p)
  <2>1. SnapshotKept
    BY <1>1 DEF SnapshotKept
  <2>2. \A q \in Procs \ {p} : Still(q)
    BY QuietStepStill DEF QuietStep
  <2> QED BY <1>1, <2>1, <2>2, OwnStep
<1>8. (pc'[p] \in Iterating <=> pc[p] \in Iterating) /\ Current(p)' = None
  BY <1>1 DEF Iterating, Current
<1>9. CASE pc[p] = "calling"
  <2>1. Current(p) # None
    BY <1>9, SignalAssumption DEF Current, IInv, TypeOK, ProcessOK
  <2> QED BY <1>6, <1>7, <1>8, <2>1 DEF PromisedDone
<1>10. CASE pc[p] # "calling"
  <2>1. Current(p) = None
    BY <1>10 DEF Current
  <2> QED BY <1>6, <1>7, <1>8, <2>1 DEF PromisedStep, PromisedQuiet
<1> QED BY <1>9, <1>10

(* ReachEnd and StopEarly *)
LEMMA FinishPromised ==
  ASSUME IInv, ListsInv, NEW p \in Procs, ReachEnd(p) \/ StopEarly(p)
  PROVE  PromisedFinish(p)
<1>1. /\ pc[p] \in {"end", "calling"} /\ pc'[p] \in {"janitor", "cache", "release"}
      /\ UNCHANGED <<blocked, lists, shared>>
      /\ body' = body \/ body' = set_active_slot(body, active[p], None)
      /\ pc[p] = "calling" => iter[p] \in Bodies
  <2>1. /\ UNCHANGED <<blocked, lists, shared>>
        /\ body' = body \/ body' = set_active_slot(body, active[p], None)
    BY DEF ReachEnd, StopEarly, listVars, bodyVars
  <2>2. pc \in [Procs -> Invoking \cup Walks \cup {"idle", "release"}]
    BY DEF IInv, TypeOK
  <2>3. pc[p] \in {"end", "calling"} /\ pc'[p] \in {"janitor", "cache", "release"}
    BY <2>2 DEF ReachEnd, StopEarly, AfterCombiner
  <2>4. pc[p] = "calling" => iter[p] \in Bodies
    BY DEF IInv, TypeOK, ProcessOK
  <2> QED BY <2>1, <2>3, <2>4
<1>2. \A b \in Bodies : body'[b].connected = body[b].connected
  <2>1. body \in [Bodies -> BodyRecord]
    BY ListTypes
  <2> QED BY <1>1, <2>1, SetActiveConnected
<1>3. SnapshotKept /\ \A q \in Procs \ {p} : Still(q)
  BY <1>1, QuietStepStill DEF SnapshotKept, QuietStep
<1>4. PromisedStep(p)
  BY <1>1, <1>2, <1>3, OwnStep
<1>5. pc[p] \in Iterating /\ pc'[p] \notin Iterating
  BY <1>1 DEF Iterating
<1>6. Queue(p)' = << >> /\ Current(p)' = None
  <2>1. LeftOf(p)' = << >>
    BY <1>1 DEF LeftOf
  <2> QED BY <1>1, <2>1, WithoutNone DEF Queue, Current
<1>7. Queue(p) = << >> \/ Current(p) # None
  <2>1. CASE pc[p] = "end"
    <3>1. LeftOf(p) = << >>
      BY <2>1 DEF LeftOf
    <3> QED BY <3>1, WithoutNone DEF Queue
  <2>2. CASE pc[p] = "calling"
    BY <1>1, <2>2, SignalAssumption DEF Current
  <2> QED BY <1>1, <2>1, <2>2
<1> QED BY <1>4, <1>5, <1>6, <1>7 DEF PromisedFinish

(* The calls between the walk and their return, and the walks of others. *)
LEMMA OutsidePromised ==
  ASSUME IInv, ListsInv, SnapshotKept, NEW p \in Procs,
         CacheDtor(p) \/ BeginWalk(p) \/ EndWalk(p)
  PROVE  PromisedQuiet
<1>1. /\ UNCHANGED <<blocked, lists, shared>>
      /\ body' = body \/ body' = set_active_slot(body, active[p], None)
  BY DEF CacheDtor, BeginWalk, BeginAll, BeginGroup, BeginSlot, Walk, EndWalk, listVars, bodyVars
<1>2. pc[p] \notin Iterating /\ pc'[p] \notin Iterating
  <2>1. pc \in [Procs -> Invoking \cup Walks \cup {"idle", "release"}]
    BY DEF IInv, TypeOK
  <2>2. ASSUME CacheDtor(p) PROVE pc[p] = "cache" /\ pc'[p] = "release"
    BY <2>1, <2>2 DEF CacheDtor
  <2>3. ASSUME EndWalk(p) PROVE pc[p] \in Walks /\ pc'[p] = "release"
    BY <2>1, <2>3 DEF EndWalk
  <2>4. ASSUME BeginWalk(p) PROVE pc[p] = "idle" /\ pc'[p] \in Walks
    BY <2>1, <2>4 DEF BeginWalk, BeginAll, BeginGroup, BeginSlot, Walk, Walks
  <2> QED BY <2>2, <2>3, <2>4 DEF Iterating, Walks
<1>3. \A b \in Bodies : body'[b].connected = body[b].connected
  BY <1>1, ListTypes, SetActiveConnected
<1>4. \A q \in Procs \ {p} : Still(q)
  BY QuietStepStill DEF QuietStep
<1>5. PromisedStep(p)
  BY <1>1, <1>3, <1>4, OwnStep
<1> QED BY <1>2, <1>5, OwnStepQuiet

(* Disconnected, as sweeps see it. *)
LEMMA SeenDisconnected ==
  ASSUME NEW list \in Seq(Bodies)
  PROVE  \A b \in ToSet(list) : b \in Disconnected <=> ~body[b].connected
BY ToSetType DEF Disconnected

LEMMA JanitorPromised ==
  ASSUME IInv, ListsInv, SnapshotKept, NEW p \in Procs, Janitor(p)
  PROVE  PromisedQuiet
<1> DEFINE list == lists[shared.list]
           l    == IF Unique THEN shared.list ELSE CHOOSE f \in FreeLists : TRUE
           kept == CleanedList(list, Begin(list), 0, body)
<1>1. /\ body' = body /\ blocked' = blocked
      /\ pc[p] = "janitor" /\ pc'[p] \in {"release", "cache"}
  <2>1. pc \in [Procs -> Invoking \cup Walks \cup {"idle", "release"}]
    BY DEF IInv, TypeOK
  <2> QED BY <2>1 DEF Janitor, bodyVars
<1>2. Without(lists'[shared'.list], Disconnected) = Without(list, Disconnected)
  <2>1. CASE local[p].list # shared.list
    BY <2>1 DEF Janitor
  <2>2. CASE local[p].list = shared.list
    <3>1. /\ Unique \/ FreeLists # {}
          /\ lists' = [lists EXCEPT ![l] = kept]
          /\ shared' = [shared EXCEPT !.list = l]
      BY <2>2 DEF Janitor
    <3>2. l \in Lists
      BY <3>1, ModifiedListType
    <3>3. list \in Seq(Bodies) /\ Unrepeated(list)
      BY ListTypes DEF ListsInv, GoodList
    <3>4. \A b \in ToSet(list) : b \in Disconnected <=> ~body[b].connected
      BY <3>3, SeenDisconnected
    <3> HIDE DEF l, list
    <3>5. Without(kept, Disconnected) = Without(list, Disconnected)
      BY <3>3, <3>4, SweptUnseen
    <3> HIDE DEF kept
    <3>6. lists'[shared'.list] = kept
      BY <3>1, <3>2, ListTypes DEF States
    <3> QED BY <3>5, <3>6
  <2> QED BY <2>1, <2>2
<1>3. \A q \in Procs \ {p} : Still(q)
  BY QuietStepStill
<1>4. PromisedStep(p)
  BY <1>1, <1>2, <1>3, OwnStep
<1> QED BY <1>1, <1>4, OwnStepQuiet DEF Iterating

LEMMA ReleasePromised ==
  ASSUME IInv, ListsInv, SnapshotKept, NEW p \in Procs, Release(p)
  PROVE  PromisedQuiet
<1> DEFINE others == {shared} \cup {local[q] : q \in {r \in Procs \ {p} : local[r] # None}}
<1>1. /\ lists' = [l \in Lists |->
                     IF \E s \in others : s.list = l THEN lists[l] ELSE << >>]
      /\ UNCHANGED <<body, blocked, shared>>
      /\ pc[p] = "release" /\ pc'[p] = "idle"
  <2>1. pc \in [Procs -> Invoking \cup Walks \cup {"idle", "release"}]
    BY DEF IInv, TypeOK
  <2> QED BY <2>1 DEF Release, bodyVars
<1>2. lists'[shared.list] = lists[shared.list]
  BY <1>1, ListTypes
<1>3. \A q \in Procs \ {p} : Still(q)
  BY QuietStepStill
<1>4. PromisedStep(p)
  BY <1>1, <1>2, <1>3, OwnStep
<1> QED BY <1>1, <1>4, OwnStepQuiet DEF Iterating

LEMMA InvokePromised ==
  ASSUME IInv, ListsInv, SnapshotKept, NEW p \in Procs, Invoke(p)
  PROVE  PromisedEmit(p)
<1> DEFINE list == lists[shared.list]
           kept == IF Unique THEN CleanedList(list, SweepStart, 1, body) ELSE list
<1>1. /\ lists' = [lists EXCEPT ![shared.list] = kept]
      /\ UNCHANGED <<body, blocked, shared>>
      /\ pc[p] = "idle" /\ pc'[p] = IF kept = << >> THEN "end" ELSE "grab"
      /\ local'[p] = shared /\ iter'[p] = Begin(kept)
  <2>1. /\ pc \in [Procs -> Invoking \cup Walks \cup {"idle", "release"}]
        /\ local \in [Procs -> States \cup {None}]
        /\ iter \in [Procs -> Bodies \cup {End}]
    BY DEF IInv, TypeOK
  <2> QED BY <2>1 DEF Invoke, bodyVars
<1>2. /\ list \in Seq(Bodies) /\ Unrepeated(list) /\ shared.list \in Lists
      /\ SweepStart \in ToSet(list) \cup {End}
      /\ \A b \in ToSet(list) : b \in Disconnected <=> ~body[b].connected
  BY ListTypes, SweepStartType, SeenDisconnected DEF ListsInv, GoodList
<1>3. /\ kept \in Seq(Bodies) /\ Unrepeated(kept)
      /\ Without(kept, Disconnected) = Without(list, Disconnected)
  <2>1. CASE Unique
    <3> DEFINE clean == CleanedList(list, SweepStart, 1, body)
    <3> HIDE DEF list
    <3>1. clean \in Seq(Bodies) /\ Unrepeated(clean)
      BY <1>2, WithoutType, WithoutKeepsOrder DEF CleanedList
    <3>2. Without(clean, Disconnected) = Without(list, Disconnected)
      BY <1>2, SweptUnseen
    <3> QED BY <2>1, <3>1, <3>2
  <2>2. CASE ~Unique
    BY <1>2, <2>2
  <2> QED BY <2>1, <2>2
<1> HIDE DEF kept
<1>4. lists'[shared.list] = kept
  BY <1>1, <1>2, ListTypes
<1>5. \A q \in Procs \ {p} : Still(q)
  BY QuietStepStill
<1>6. PromisedStep(p)
  BY <1>1, <1>3, <1>4, <1>5, OwnStep
<1>7. LeftOf(p)' = kept
  <2>1. CASE kept = << >>
    BY <1>1, <2>1 DEF LeftOf
  <2>2. CASE kept # << >>
    <3>1. LeftOf(p)' = SubSeq(kept, Index(kept, Begin(kept)), Len(kept))
      BY <1>1, <1>4, <2>2 DEF LeftOf
    <3>2. Index(kept, Begin(kept)) = 1
      BY <1>3, BeginIndex, SignalAssumption
    <3>3. SubSeq(kept, 1, Len(kept)) = kept
      BY <1>3
    <3> QED BY <3>1, <3>2, <3>3
  <2> QED BY <2>1, <2>2
<1>8. Queue(p)' = Order
  <2>1. Disconnected' = Disconnected
    BY <1>1 DEF Disconnected
  <2> QED BY <1>3, <1>7, <2>1 DEF Queue, Order
<1>9. /\ pc[p] \notin Iterating /\ pc'[p] \in Iterating
      /\ Current(p)' = Current(p)
  BY <1>1 DEF Iterating, Current
<1> QED BY <1>6, <1>8, <1>9 DEF PromisedEmit

LEMMA ConnectPromised ==
  ASSUME IInv, SharedUnread, ListsInv, SnapshotKept, NEW b \in Bodies, NEW position \in Positions,
         Connect(b, position)
  PROVE  \E S \in SUBSET Bodies : PromisedConnect(b, position, S)
<1> DEFINE list  == lists[shared.list]
           from  == IF Unique THEN SweepStart ELSE Begin(list)
           count == IF Unique THEN 2 ELSE 0
           l     == IF Unique THEN shared.list ELSE CHOOSE f \in FreeLists : TRUE
           bd    == CleanedBodies(list, from, count)
           kept  == CleanedList(list, from, count, bd)
           S     == {c \in Bodies : body[c].connected /\ ~bd[c].connected}
<1>1. /\ Unique \/ FreeLists # {}
      /\ b \notin ToSet(kept)
      /\ \A m \in Lists \ {l} : b \notin ToSet(lists[m])
      /\ body' = [bd EXCEPT ![b] = NewBody]
      /\ blocked' = blocked \ {b}
      /\ lists' = [lists EXCEPT ![l] = Inserted(kept, KeyOf, b, position)]
      /\ shared' = [shared EXCEPT !.list = l]
      /\ UNCHANGED procVars
  BY DEF Connect
<1>2. l \in Lists /\ Unread(l)
  BY <1>1, ModifiedListUnread
<1>3. list \in Seq(Bodies) /\ Unrepeated(list) /\ Sorted(list, KeyOf)
  BY ListTypes DEF ListsInv, GoodList
<1>4. /\ \A c \in Bodies : bd[c] \in {body[c], disconnect_expired_slot(c)}
      /\ bd = [c \in Bodies |-> bd[c]]
  BY DEF CleanedBodies
<1> HIDE DEF bd
<1>5. \A c \in Bodies : (bd[c].connected => body[c].connected) /\ (c \in S => Expired(c))
  <2>1. ASSUME NEW c \in Bodies
        PROVE  /\ disconnect_expired_slot(c).connected => body[c].connected
               /\ ~Expired(c) => disconnect_expired_slot(c) = body[c]
    BY ListTypes, StillConnected DEF disconnect_expired_slot
  <2> QED BY <1>4, <2>1
<1>6. \A c \in ToSet(list) : /\ c \in Disconnected \cup S <=> ~bd[c].connected
                             /\ c \in Bodies
  BY <1>3, <1>5, ToSetType DEF Disconnected
<1>7. \A c \in Bodies \ {b} : c \in Disconnected' <=> c \in Disconnected \cup S
  BY <1>1, <1>4, <1>5 DEF Disconnected
<1>8. b \notin Disconnected'
  BY <1>1, <1>4 DEF Disconnected, NewBody
<1>9. S \subseteq {c \in ToSet(Order) : Expired(c)}
  <2>1. ToSet(Order) = ToSet(list) \ Disconnected
    BY <1>3, WithoutSet DEF Order
  <2>2. \A c \in S : c \in ToSet(list) /\ c \notin Disconnected
    BY DEF ListsInv, Disconnected
  <2> QED BY <1>5, <2>1, <2>2
<1> HIDE DEF S, list, from, count
<1>10. kept \in Seq(Bodies) /\ Unrepeated(kept) /\ Sorted(kept, KeyOf)
  BY <1>3, WithoutType, WithoutKeepsOrder DEF CleanedList
<1>11. Without(kept, Disconnected \cup S) = Without(Order, S)
  <2>1. Without(kept, Disconnected \cup S) = Without(list, Disconnected \cup S)
    BY <1>3, <1>6, SweptUnseen
  <2>2. Without(Order, S) = Without(list, Disconnected \cup S)
    BY <1>3, WithoutTwice DEF Order, list
  <2> QED BY <2>1, <2>2
<1>12. b \notin ToSet(Order) \ S
  <2>1. ToSet(Without(kept, Disconnected \cup S)) = ToSet(kept) \ (Disconnected \cup S)
    BY <1>10, WithoutSet
  <2>2. Order \in Seq(Bodies)
    BY <1>3, WithoutType DEF Order, list
  <2>3. ToSet(Without(Order, S)) = ToSet(Order) \ S
    BY <2>2, WithoutSet
  <2> QED BY <1>1, <1>11, <2>1, <2>3
<1> HIDE DEF kept
<1>13. Order' = Inserted(Without(Order, S), KeyOf, b, position)
  <2> DEFINE new == Inserted(kept, KeyOf, b, position)
  <2>1. lists'[shared'.list] = new
    BY <1>1, <1>2, ListTypes DEF States
  <2>2. KeyOf \in [Bodies -> GroupKeys]
    BY SignalAssumption
  <2>3. Without(new, Disconnected') = Inserted(Without(kept, Disconnected'), KeyOf, b, position)
    BY <1>1, <1>8, <1>10, <2>2, WithoutInserted
  <2>4. \A c \in ToSet(kept) : c \in Disconnected' <=> c \in Disconnected \cup S
    BY <1>1, <1>7, <1>10, ToSetType
  <2>5. Without(kept, Disconnected') = Without(kept, Disconnected \cup S)
    BY <2>4, WithoutSame
  <2> HIDE DEF new
  <2> QED BY <1>11, <2>1, <2>3, <2>5 DEF Order
<1>14. ASSUME NEW q \in Procs
       PROVE  Forgets(q, S)
  <2>1. Still(q)
    BY <1>1 DEF procVars, walkVars, Still
  <2>2. Disconnects(q, S)
    <3> SUFFICES ASSUME local[q] # None, NEW c \in ToSet(lists[local[q].list])
                 PROVE  c \in Disconnected' <=> c \in Disconnected \cup S
      BY DEF Disconnects
    <3>1. c \in Bodies /\ local[q].list \in Lists /\ local[q].list # l
      BY <1>2, ListTypes, ToSetType DEF Unread
    <3>2. c # b
      BY <1>1, <3>1
    <3> QED BY <1>7, <3>1, <3>2
  <2> QED BY <2>1, <2>2, StillForgets
<1>15. S \in SUBSET Bodies
  BY DEF S
<1>16. PromisedConnect(b, position, S)
  BY <1>1, <1>9, <1>12, <1>13, <1>14 DEF PromisedConnect
<1> QED BY <1>15, <1>16

-----------------------------------------------------------------------------
(* These are the steps of Broadcast.                                         *)

(* The operators that Broadcast has from SlotOrder are Signal's. *)
LEMMA SamePromisedInserted ==
  ASSUME NEW list, NEW n, NEW position
  PROVE  Promised!Inserted(list, KeyOf, n, position) = Inserted(list, KeyOf, n, position)
BY DEF Promised!Inserted, Inserted, Promised!UpperBoundIndex, UpperBoundIndex,
       Promised!LowerBoundIndex, LowerBoundIndex, Promised!KeyLess, KeyLess,
       Promised!grouped_slots, grouped_slots

LEMMA SamePromisedWithout ==
  ASSUME NEW list, NEW S
  PROVE  Promised!Without(list, S) = Without(list, S)
BY DEF Promised!Without, Without, Promised!Restriction, Restriction, Promised!Cardinality,
       Cardinality

LEMMA SamePromised ==
  /\ Promised!Positions = Positions
  /\ \A list : Promised!ToSet(list) = ToSet(list)
BY DEF Promised!Positions, Positions, Promised!ToSet, ToSet

(* The invocations under way. *)
Busy == {p \in Procs : pc[p] \in Iterating}

LEMMA QuietImplements ==
  ASSUME PromisedQuiet, blocked' \subseteq Bodies
  PROVE  Promised!Next
<1>1. /\ [p \in Procs |-> Queue(p)]' = [p \in Procs |-> Queue(p)]
      /\ [p \in Procs |-> Current(p)]' = [p \in Procs |-> Current(p)]
      /\ Busy' = Busy /\ Order' = Order
  BY DEF PromisedQuiet, Busy
<1>2. Promised!SetBlocked(blocked')
  BY <1>1 DEF Promised!SetBlocked, Order, Queue, Current, Busy
<1>3. {b \in Bodies : Expired(b)}' \subseteq Bodies
  OBVIOUS
<1> QED BY <1>2, <1>3 DEF Promised!Next

LEMMA ForgetsImplements ==
  ASSUME NEW S, \A q \in Procs : Forgets(q, S)
  PROVE  /\ [p \in Procs |-> Queue(p)]' = [p \in Procs |-> Without(Queue(p), S)]
         /\ [p \in Procs |-> Current(p)]' = [p \in Procs |-> Current(p)]
         /\ Busy' = Busy
BY DEF Forgets, Busy

LEMMA DisconnectImplements ==
  ASSUME NEW b \in Bodies, PromisedDisconnect({b})
  PROVE  Promised!Next
<1>1. /\ [p \in Procs |-> Queue(p)]' = [p \in Procs |-> Without(Queue(p), {b})]
      /\ [p \in Procs |-> Current(p)]' = [p \in Procs |-> Current(p)]
      /\ Busy' = Busy /\ Order' = Without(Order, {b}) /\ blocked' = blocked
  BY ForgetsImplements DEF PromisedDisconnect
<1>2. Promised!Disconnect(b)
  <2>1. [p \in Procs |-> Queue(p)]' =
          [p \in Procs |-> Promised!Without([q \in Procs |-> Queue(q)][p], {b})]
    BY <1>1, SamePromisedWithout
  <2>2. Order' = Promised!Without(Order, {b})
    BY <1>1, SamePromisedWithout
  <2> QED BY <1>1, <2>1, <2>2
          DEF Promised!Disconnect, Promised!Forget, Order, Queue, Current, Busy
<1>3. {c \in Bodies : Expired(c)}' \subseteq Bodies
  OBVIOUS
<1> QED BY <1>2, <1>3 DEF Promised!Next

LEMMA ConnectImplements ==
  ASSUME NEW b \in Bodies, NEW position \in Positions, NEW S \in SUBSET Bodies,
         PromisedConnect(b, position, S)
  PROVE  Promised!Next
<1>1. /\ [p \in Procs |-> Queue(p)]' = [p \in Procs |-> Without(Queue(p), S)]
      /\ [p \in Procs |-> Current(p)]' = [p \in Procs |-> Current(p)]
      /\ Busy' = Busy /\ blocked' = blocked \ {b}
      /\ Order' = Inserted(Without(Order, S), KeyOf, b, position)
      /\ S \subseteq {c \in ToSet(Order) : Expired(c)}
      /\ b \notin ToSet(Order) \ S
  BY ForgetsImplements DEF PromisedConnect
<1> PICK E : E = {c \in Bodies : Expired(c)}
  OBVIOUS
<1>2. S \in SUBSET (E \cap Promised!ToSet(Order))
  BY <1>1, SamePromised
<1>3. b \notin Promised!ToSet(Order) \ S
  BY <1>1, SamePromised
<1>4. Order' = Promised!Inserted(Promised!Without(Order, S), KeyOf, b, position)
  BY <1>1, SamePromisedInserted, SamePromisedWithout
<1>5. [p \in Procs |-> Queue(p)]' =
        [p \in Procs |-> Promised!Without([q \in Procs |-> Queue(q)][p], S)]
  BY <1>1, SamePromisedWithout
<1>6. Promised!Connect(b, position)
  BY <1>1, <1>2, <1>3, <1>4, <1>5
     DEF Promised!Connect, Promised!Forget, Order, Queue, Current, Busy
<1>7. {c \in Bodies : Expired(c)}' \subseteq Bodies
  OBVIOUS
<1>8. position \in Promised!Positions
  BY SamePromised
<1> QED BY <1>6, <1>7, <1>8 DEF Promised!Next

(* A step of p changes the values of p. *)
LEMMA StepImplements ==
  ASSUME NEW p \in Procs, PromisedStep(p)
  PROVE  /\ Order' = Order /\ blocked' = blocked
         /\ [q \in Procs |-> Queue(q)]' =
               [[q \in Procs |-> Queue(q)] EXCEPT ![p] = Queue(p)']
         /\ [q \in Procs |-> Current(q)]' =
               [[q \in Procs |-> Current(q)] EXCEPT ![p] = Current(p)']
         /\ Busy' = IF pc'[p] \in Iterating THEN Busy \cup {p} ELSE Busy \ {p}
BY DEF PromisedStep, Busy

LEMMA OwnStepImplements ==
  ASSUME NEW p \in Procs,
         PromisedEmit(p) \/ PromisedTurn(p) \/ PromisedDone(p) \/ PromisedFinish(p)
  PROVE  Promised!Next
<1> DEFINE Q == [q \in Procs |-> Queue(q)]
           C == [q \in Procs |-> Current(q)]
<1>1. /\ Order' = Order /\ blocked' = blocked
      /\ Q' = [Q EXCEPT ![p] = Queue(p)']
      /\ C' = [C EXCEPT ![p] = Current(p)']
      /\ Busy' = IF pc'[p] \in Iterating THEN Busy \cup {p} ELSE Busy \ {p}
      /\ p \in Busy <=> pc[p] \in Iterating
  BY StepImplements DEF PromisedEmit, PromisedTurn, PromisedDone, PromisedFinish, Busy
<1>2. Q[p] = Queue(p) /\ C[p] = Current(p)
  OBVIOUS
<1> HIDE DEF Q, C
<1>3. ASSUME PromisedEmit(p)
      PROVE  Promised!Emit(p)
  <2>1. /\ p \notin Busy /\ Busy' = Busy \cup {p} /\ Q' = [Q EXCEPT ![p] = Order]
        /\ C' = C
    <3>1. C' = [C EXCEPT ![p] = C[p]]
      BY <1>1, <1>2, <1>3 DEF PromisedEmit
    <3>2. C' = C
      BY <3>1 DEF C
    <3> QED BY <1>1, <1>3, <3>2 DEF PromisedEmit
  <2> QED BY <1>1, <2>1 DEF Promised!Emit, Order, Queue, Current, Busy, Q, C
<1>4. ASSUME PromisedTurn(p)
      PROVE  Promised!Turn(p)
  <2>1. /\ p \in Busy /\ C[p] = None /\ Q[p] # << >>
        /\ C' = [C EXCEPT ![p] = IF Head(Q[p]) \in blocked THEN None ELSE Head(Q[p])]
        /\ Q' = [Q EXCEPT ![p] = Tail(Q[p])]
        /\ Busy' = Busy
    BY <1>1, <1>2, <1>4 DEF PromisedTurn
  <2> QED BY <1>1, <2>1 DEF Promised!Turn, Order, Queue, Current, Busy, Q, C
<1>5. ASSUME PromisedDone(p)
      PROVE  Promised!Done(p)
  <2>1. C[p] # None /\ C' = [C EXCEPT ![p] = None] /\ Q' = Q /\ Busy' = Busy
    <3>1. Q' = [Q EXCEPT ![p] = Q[p]]
      BY <1>1, <1>2, <1>5 DEF PromisedDone
    <3>2. Q' = Q
      BY <3>1 DEF Q
    <3> QED BY <1>1, <1>2, <1>5, <3>2 DEF PromisedDone
  <2> QED BY <1>1, <2>1 DEF Promised!Done, Order, Queue, Current, Busy, Q, C
<1>6. ASSUME PromisedFinish(p)
      PROVE  Promised!Finish(p)
  <2>1. /\ Q[p] = << >> \/ C[p] # None
        /\ p \in Busy /\ Busy' = Busy \ {p}
        /\ Q' = [Q EXCEPT ![p] = << >>] /\ C' = [C EXCEPT ![p] = None]
    BY <1>1, <1>2, <1>6 DEF PromisedFinish
  <2> QED BY <1>1, <2>1 DEF Promised!Finish, Order, Queue, Current, Busy, Q, C
<1>7. {c \in Bodies : Expired(c)}' \subseteq Bodies
  OBVIOUS
<1> QED BY <1>3, <1>4, <1>5, <1>6, <1>7 DEF Promised!Next

LEMMA NextPromised ==
  ASSUME IInv, SharedUnread, ListsInv, Next, SnapshotKept, blocked' \subseteq Bodies
  PROVE  Promised!Next
<1>1. ASSUME NEW b \in Bodies, NEW position \in Positions, Connect(b, position)
      PROVE  Promised!Next
  BY <1>1, ConnectPromised, ConnectImplements
<1>2. ASSUME QuietEnvironment
      PROVE  Promised!Next
  BY <1>2, EnvironmentPromised, QuietImplements, DisconnectImplements
<1>3. ASSUME NEW p \in Procs, Invoke(p)
      PROVE  Promised!Next
  BY <1>3, InvokePromised, OwnStepImplements
<1>4. ASSUME NEW p \in Procs, BeginWalk(p) \/ EndWalk(p) \/ CacheDtor(p)
      PROVE  Promised!Next
  BY <1>4, OutsidePromised, QuietImplements
<1>5. ASSUME NEW p \in Procs, Janitor(p) \/ Release(p)
      PROVE  Promised!Next
  BY <1>5, JanitorPromised, ReleasePromised, QuietImplements
<1>6. ASSUME NEW p \in Procs, VisitNode(p) \/ SlotExpires(p)
      PROVE  Promised!Next
  BY <1>6, VisitNodePromised, SlotExpiresPromised, QuietImplements, DisconnectImplements
<1>7. ASSUME NEW p \in Procs, Grab(p)
      PROVE  Promised!Next
  BY <1>7, GrabPromised, OwnStepImplements, DisconnectImplements
<1>8. ASSUME NEW p \in Procs, Increment(p)
      PROVE  Promised!Next
  BY <1>8, IncrementPromised, OwnStepImplements, QuietImplements
<1>9. ASSUME NEW p \in Procs, ReachEnd(p) \/ StopEarly(p)
      PROVE  Promised!Next
  BY <1>9, FinishPromised, OwnStepImplements
<1> QED BY <1>1, <1>2, <1>3, <1>4, <1>5, <1>6, <1>7, <1>8, <1>9
        DEF Next, Environment, QuietEnvironment, Step

LEMMA UnchangedPromised ==
  ASSUME UNCHANGED vars
  PROVE  UNCHANGED Promised!vars
<1>1. Order' = Order /\ blocked' = blocked
  BY DEF vars, bodyVars, listVars, Order, Disconnected
<1>2. \A p \in Procs : /\ Queue(p)' = Queue(p) /\ Current(p)' = Current(p)
                       /\ pc'[p] = pc[p]
  BY DEF vars, bodyVars, listVars, procVars, walkVars, Queue, Current, LeftOf, Disconnected
<1>3. {b \in Bodies : Expired(b)}' = {b \in Bodies : Expired(b)}
  BY DEF vars, bodyVars, listVars, procVars, walkVars, Expired, Alive
<1>4. Busy' = Busy
  BY <1>2 DEF Busy
<1> QED BY <1>1, <1>2, <1>3, <1>4 DEF Promised!vars, Order, Queue, Current, Busy

LEMMA InitPromised == Init => Promised!Init
<1> SUFFICES ASSUME Init PROVE Promised!Init
  OBVIOUS
<1>1. \A S : Without(<< >>, S) = << >>
  BY WithoutNone
<1>2. Order = << >>
  <2>1. shared.list \in Lists
    BY SignalAssumption DEF Init
  <2> QED BY <1>1, <2>1 DEF Init, Order
<1>3. \A p \in Procs : Queue(p) = << >> /\ Current(p) = None /\ pc[p] \notin Iterating
  <2> SUFFICES ASSUME NEW p \in Procs
               PROVE  Queue(p) = << >> /\ Current(p) = None /\ pc[p] \notin Iterating
    OBVIOUS
  <2>1. pc[p] = "idle"
    BY DEF Init
  <2>2. LeftOf(p) = << >>
    BY <2>1 DEF LeftOf
  <2> QED BY <1>1, <2>1, <2>2 DEF Queue, Current, Iterating
<1>4. {b \in Bodies : Expired(b)} = {}
  BY DEF Init, Free, Expired
<1>5. blocked = {} /\ Busy = {}
  BY <1>3 DEF Init, Busy
<1> QED BY <1>2, <1>3, <1>4, <1>5 DEF Promised!Init, Order, Queue, Current, Busy

(* The signal keeps what Broadcast promises: no copy of a list, no reference *)
(* count and no garbage collection shows in what is called and in which      *)
(* order.                                                                    *)
THEOREM PromiseKept == Spec => KeepsPromise
<1>1. IInv /\ SharedUnread /\ ListsInv /\ IInv' /\ [Next]_vars
        => [Promised!Next]_Promised!vars
  <2> SUFFICES ASSUME IInv, SharedUnread, ListsInv, IInv', [Next]_vars
               PROVE  Promised!Next \/ UNCHANGED Promised!vars
    OBVIOUS
  <2>1. CASE UNCHANGED vars
    BY <2>1, UnchangedPromised
  <2>2. CASE Next
    <3>1. SnapshotKept
      BY <2>2, NextSnapshotKept
    <3>2. blocked' \subseteq Bodies
      BY DEF IInv, TypeOK
    <3> QED BY <2>2, <3>1, <3>2, NextPromised
  <2> QED BY <2>1, <2>2
<1> QED BY <1>1, InitPromised, ListsCorrect, PTL DEF Spec, Promised!Spec, KeepsPromise

-----------------------------------------------------------------------------
(* What an invocation computes: EmissionSpec.                                *)
(*                                                                           *)
(* For any number of slots and of invocations under way, any slots extended, *)
(* and programs that also set the combiner.  The proofs rest on the          *)
(* invariants above, whose lemmas do not need that a list is read by nobody  *)
(* where only set_combiner could break it; EmissionNext says which steps     *)
(* must be Undisturbed.                                                      *)

(* The inductive invariant of an invocation. *)

EmissionTypeOK ==
    /\ combiner \in CombinerTypes
    /\ result \in [Procs -> Bodies \cup {None}]
    /\ tried \in [Procs -> BOOLEAN]
    /\ value \in [Procs -> Bodies \cup {None}]
    /\ outcome \in [Procs -> {"none", "value", "no_value", "left"}]
    /\ own \in [Bodies -> Bodies \cup {None}]
    /\ returned \in [Procs -> Seq(Bodies)]
    /\ overlooked \in [Procs -> SUBSET Bodies]

(* An extended slot has its connection before anyone can find it in a list.  *)
OwnConnection ==
    \A l \in Lists : \A b \in ToSet(lists[l]) \cap Extended : own[b] = b

ListOf(p) == lists[local[p].list]

(* The cache holds the result of the slot that the iterator is at, the last  *)
(* of those that have returned.                                              *)
CacheOK(p) ==
    /\ result[p] # None =>
          /\ pc[p] = "calling" /\ result[p] = iter[p]
          /\ returned[p] # << >> /\ Last(returned[p]) = iter[p]
    /\ tried[p] => pc[p] = "calling" /\ Library

(* The slots that have returned are in the list before the iterator, except  *)
(* one whose result is in the cache, and in its order.                       *)
InOrder(p) ==
    /\ ToSet(returned[p]) \subseteq ToSet(ListOf(p))
    /\ \A i \in DOMAIN returned[p] :
          \/ Index(ListOf(p), returned[p][i]) < Index(ListOf(p), iter[p])
          \/ result[p] # None /\ i = Len(returned[p])
    /\ \A i, j \in DOMAIN returned[p] : i < j =>
          Index(ListOf(p), returned[p][i]) < Index(ListOf(p), returned[p][j])

(* A slot that the iterator is past, or at and done with. *)
Done(p, b) ==
    \/ Index(ListOf(p), b) < Index(ListOf(p), iter[p])
    \/ b = iter[p] /\ (tried[p] \/ pc[p] = "skipping")

(* The slots that a library combiner is done with for a reason it may have.  *)
Accounted(p) == ToSet(returned[p]) \cup overlooked[p]

(* It leaves out no connected slot but those that were blocked.              *)
NoneLeftOut(p) ==
    \A b \in ToSet(ListOf(p)) : body[b].connected => b \in Accounted(p)

LibraryOK(p) ==
    /\ value[p] = IF returned[p] = << >> THEN None ELSE Last(returned[p])
    /\ pc[p] \in Iterating =>
          \A b \in ToSet(ListOf(p)) :
              body[b].connected /\ Done(p, b) => b \in Accounted(p)
    /\ outcome[p] = "no_value" => returned[p] = << >>
    /\ outcome[p] \in {"value", "no_value"} => NoneLeftOut(p)

EmissionOK(p) ==
    /\ pc[p] \in Invoking \cup {"idle", "release"}
    /\ pc[p] = "idle" =>
          /\ result[p] = None /\ ~tried[p] /\ value[p] = None /\ outcome[p] = "none"
          /\ returned[p] = << >> /\ overlooked[p] = {}
    /\ pc[p] \in Iterating => outcome[p] = "none"
    /\ CacheOK(p)
    /\ pc[p] \in Invoking =>
          /\ InOrder(p)
          /\ \A b \in ToSet(returned[p]) \cap Extended : ~body[b].connected
    /\ pc[p] # "idle" /\ Library => LibraryOK(p)

EInv ==
    /\ IInv /\ ListsInv /\ EmissionTypeOK /\ OwnConnection
    /\ \A p \in Procs : EmissionOK(p)
-----------------------------------------------------------------------------
(* The invariants of Signal hold in these programs too.                      *)

LEMMA UndisturbedUnread ==
  ASSUME Undisturbed({})
  PROVE  SharedUnread
BY DEF Undisturbed, SharedUnread, Unread

LEMMA JanitorMayCleanUp ==
  ASSUME NEW p \in Procs, Undisturbed({q \in {p} : active[q] = None})
  PROVE  MayCleanUp(p)
BY DEF Undisturbed, MayCleanUp

(* What the lists and bodies of a step are to a process that reads a list.   *)
ReadKept(q) ==
    local[q] # None =>
        /\ lists'[local[q].list] = ListOf(q)
        /\ \A b \in ToSet(ListOf(q)) : body'[b].connected => body[b].connected

(* No list has a body that was in none before. *)
Shrunk == \A l \in Lists : \E m \in Lists : ToSet(lists'[l]) \subseteq ToSet(lists[m])

SignalKept == IInv' /\ ListsInv' /\ \A q \in Procs : ReadKept(q)

(* Steps that leave the lists alone and connect nothing.                     *)
LEMMA QuietKept ==
  ASSUME IInv, ListsInv, UNCHANGED listVars, NoneConnected
  PROVE  ListsInv' /\ Shrunk /\ \A q \in Procs : ReadKept(q)
<1>1. lists' = lists
  BY DEF listVars
<1>2. Shrunk
  BY <1>1 DEF Shrunk
<1>3. \A q \in Procs : local[q] # None => ToSet(ListOf(q)) \subseteq Bodies
  BY ListTypes, ToSetType DEF ListOf
<1>4. \A q \in Procs : ReadKept(q)
  BY <1>1, <1>3 DEF ReadKept, ListOf, NoneConnected
<1> QED BY <1>2, <1>4, ListsUnchanged

(* set_combiner takes no list and touches no slot.                           *)
LEMMA SetCombinerKept ==
  ASSUME IInv, ListsInv, NEW c \in Combiners, SetCombiner(c)
  PROVE  SignalKept /\ Shrunk
<1>1. UNCHANGED <<bodyVars, lists, gcIt, procVars>>
  BY DEF SetCombiner
<1>2. shared \in States /\ combiners \in [Combs -> Combiners]
  BY DEF IInv, TypeOK
<1>3. /\ shared' \in States /\ shared'.list = shared.list
      /\ combiners' \in [Combs -> Combiners]
  BY <1>2 DEF SetCombiner, States, FreeCombs
<1>4. BodiesOK(body', active')
  BY <1>1, BodiesInIInv DEF bodyVars, procVars
<1>5. body' \in [Bodies -> BodyRecord] /\ RefcountExact'
  BY <1>4, BodiesInIInvNext
<1>6. TypeOK'
  BY <1>1, <1>3, <1>5 DEF IInv, TypeOK, BodyRecord, bodyVars, procVars, walkVars
<1>7. \A p \in Procs : ProcessOK(p)'
  BY <1>1 DEF IInv, ProcessOK, procVars, walkVars
<1>8. ListsInv'
  BY <1>1, <1>3 DEF ListsInv, GoodList, bodyVars
<1>9. Shrunk /\ \A q \in Procs : ReadKept(q)
  BY <1>1 DEF Shrunk, ReadKept, ListOf, bodyVars
<1> QED BY <1>5, <1>6, <1>7, <1>8, <1>9 DEF IInv, SignalKept

(* A slot runs: an extended one may disconnect itself.                       *)
LEMMA InvokerKept ==
  ASSUME IInv, ListsInv, own \in [Bodies -> Bodies \cup {None}], NEW b \in Bodies,
         body' = slot_invoker(b), UNCHANGED <<blocked, owned, listVars, procVars>>
  PROVE  /\ SignalKept /\ Shrunk
         /\ b \in Extended /\ own[b] = b => ~body'[b].connected
<1>1. PICK c \in Bodies :
        \E r \in {body[c], nolock_disconnect(body[c])} : body' = [body EXCEPT ![c] = r]
  <2>1. CASE b \in Extended /\ own[b] \in Bodies
    <3>1. body' = [body EXCEPT ![own[b]] = nolock_disconnect(body[own[b]])]
      BY <2>1, ListTypes DEF slot_invoker, bound_extended_slot_function
    <3>2. \E r \in {body[own[b]], nolock_disconnect(body[own[b]])} :
            body' = [body EXCEPT ![own[b]] = r]
      BY <3>1, Zenon
    <3> QED BY <2>1, <3>2, Zenon
  <2>2. CASE ~(b \in Extended /\ own[b] \in Bodies)
    <3>1. body' = body
      BY <2>2, ListTypes, SignalAssumption DEF slot_invoker, bound_extended_slot_function
    <3>2. body' = [body EXCEPT ![b] = body[b]]
      BY <3>1, ListTypes
    <3> QED BY <3>2, Zenon
  <2> QED BY <2>1, <2>2
<1>2. NoneConnected
  BY <1>1, OneBodyChanged
<1>3. BodiesOK(body', active)
  <2>1. PICK r \in {body[c], nolock_disconnect(body[c])} : body' = [body EXCEPT ![c] = r]
    BY <1>1
  <2>2. BodiesOK(body, active)
    BY BodiesInIInv
  <2>3. BodiesOK([body EXCEPT ![c] = r], active)
    BY <2>1, <2>2, BodyChanged
  <2> QED BY <2>1, <2>3
<1>4. IInv'
  BY <1>3, BodyStep DEF IInv, TypeOK
<1>5. ASSUME b \in Extended, own[b] = b
      PROVE  ~body'[b].connected
  BY <1>5, ListTypes, StillConnected DEF slot_invoker, bound_extended_slot_function
<1>6. UNCHANGED listVars
  OBVIOUS
<1> QED BY <1>2, <1>4, <1>5, <1>6, QuietKept DEF SignalKept

LEMMA QuietStepKept ==
  ASSUME IInv, ListsInv, NEW p \in Procs,
         Grab(p) \/ SlotExpires(p) \/ Increment(p) \/ ReachEnd(p) \/ StopEarly(p) \/ CacheDtor(p)
  PROVE  SignalKept /\ Shrunk
<1>1. UNCHANGED listVars /\ NoneConnected
  BY QuietStepQuiet DEF QuietStep
<1>2. IInv'
  BY GrabStep, SlotExpiresStep, IncrementStep, ReachEndStep, StopEarlyStep, CacheDtorStep
<1> QED BY <1>1, <1>2, QuietKept DEF SignalKept

LEMMA QuietEnvironmentKept ==
  ASSUME IInv, ListsInv, QuietEnvironment
  PROVE  SignalKept /\ Shrunk
<1>1. UNCHANGED listVars /\ NoneConnected
  BY QuietEnvironmentQuiet
<1>2. IInv'
  BY HandleStep, DropObjectStep DEF QuietEnvironment
<1> QED BY <1>1, <1>2, QuietKept DEF SignalKept

LEMMA ConnectKept ==
  ASSUME IInv, ListsInv, SharedUnread, NEW b \in Bodies, NEW position \in Positions,
         Connect(b, position)
  PROVE  SignalKept
<1>1. Next
  BY DEF Next, Environment
<1>2. SnapshotKept /\ ReadQuiet
  BY <1>1, NextSnapshotKept, NextReadQuiet
<1>3. local' = local
  BY DEF Connect, procVars
<1>4. \A q \in Procs : ReadKept(q)
  BY <1>2, <1>3 DEF SnapshotKept, ReadQuiet, ReadKept, ListOf
<1> QED BY <1>4, ConnectStep, ConnectLists DEF SignalKept

LEMMA CleanedShrinks ==
  ASSUME NEW list \in Seq(Bodies), NEW from, NEW count, NEW bd
  PROVE  ToSet(CleanedList(list, from, count, bd)) \subseteq ToSet(list)
BY WithoutSet DEF CleanedList

LEMMA InvokeKept ==
  ASSUME IInv, ListsInv, SharedUnread, NEW p \in Procs, Invoke(p)
  PROVE  SignalKept /\ Shrunk
<1>1. Next
  BY DEF Next
<1>2. SnapshotKept /\ ReadQuiet
  BY <1>1, NextSnapshotKept, NextReadQuiet
<1>3. local[p] = None /\ \A q \in Procs \ {p} : local'[q] = local[q]
  BY DEF Invoke, IInv, TypeOK, ProcessOK
<1>4. \A q \in Procs : ReadKept(q)
  BY <1>2, <1>3 DEF SnapshotKept, ReadQuiet, ReadKept, ListOf
<1> DEFINE list == lists[shared.list]
           kept == IF Unique THEN CleanedList(list, SweepStart, 1, body) ELSE list
<1>5. lists' = [lists EXCEPT ![shared.list] = kept]
  BY DEF Invoke
<1>6. ToSet(kept) \subseteq ToSet(list)
  BY ListTypes, CleanedShrinks
<1> HIDE DEF list, kept
<1>7. Shrunk
  BY <1>5, <1>6, ListTypes DEF Shrunk, list
<1> QED BY <1>4, <1>7, InvokeStep, InvokeLists DEF SignalKept

(* The janitor takes from the list of the invocation, and from no other that *)
(* is read.                                                                  *)
LEMMA JanitorKept ==
  ASSUME IInv, ListsInv, NEW p \in Procs, MayCleanUp(p), Janitor(p)
  PROVE  /\ IInv' /\ ListsInv' /\ Shrunk /\ \A q \in Procs \ {p} : ReadKept(q)
         /\ active[p] # None => ReadKept(p)
         /\ body' = body
         /\ local[p] # None => ToSet(lists'[local[p].list]) \subseteq ToSet(ListOf(p))
<1>1. body' = body
  BY DEF Janitor, bodyVars
<1>2. CASE local[p].list # shared.list
  <2>1. lists' = lists
    BY <1>2 DEF Janitor
  <2> QED BY <1>1, <2>1, JanitorStep, JanitorLists DEF Shrunk, ReadKept, ListOf
<1>3. CASE local[p].list = shared.list
  <2> DEFINE list == lists[shared.list]
             l    == IF Unique THEN shared.list ELSE CHOOSE f \in FreeLists : TRUE
             kept == CleanedList(list, Begin(list), 0, body)
  <2>1. /\ Unique \/ FreeLists # {}
        /\ lists' = [lists EXCEPT ![l] = kept]
    BY <1>3 DEF Janitor
  <2>2. l \in Lists /\ (~Unique => Unread(l)) /\ (Unique => l = shared.list)
    BY <2>1, ModifiedListType
  <2>3. ToSet(kept) \subseteq ToSet(list)
    BY ListTypes, CleanedShrinks
  <2>4. \A q \in Procs : local[q] # None /\ local[q].list = l => q = p /\ active[p] = None
    BY <2>2 DEF MayCleanUp, Unread
  <2> HIDE DEF l, kept
  <2>5. Shrunk
    BY <2>1, <2>2, <2>3, ListTypes DEF Shrunk
  <2>6. \A q \in Procs : local[q] # None /\ (q # p \/ active[p] # None) => ReadKept(q)
    BY <1>1, <2>1, <2>2, <2>4, ListTypes DEF ReadKept, ListOf
  <2>7. \A q \in Procs : local[q] = None => ReadKept(q)
    BY DEF ReadKept
  <2>8. local[p] # None => ToSet(lists'[local[p].list]) \subseteq ToSet(ListOf(p))
    BY <1>3, <2>1, <2>2, <2>3, ListTypes DEF ListOf
  <2> QED BY <1>1, <2>5, <2>6, <2>7, <2>8, JanitorStep, JanitorLists
<1> QED BY <1>2, <1>3

LEMMA ReleaseReads ==
  ASSUME IInv, ListsInv, NEW p \in Procs, Release(p)
  PROVE  IInv' /\ ListsInv' /\ Shrunk /\ \A q \in Procs \ {p} : ReadKept(q)
<1>1. body' = body /\ \A q \in Procs \ {p} : local'[q] = local[q]
  BY DEF Release, bodyVars, IInv, TypeOK
<1>2. \A q \in Procs \ {p} : ReadKept(q)
  BY <1>1, ReleaseKept DEF SnapshotKept, ReadKept, ListOf
<1>3. \A l \in Lists : lists'[l] = lists[l] \/ lists'[l] = << >>
  BY DEF Release
<1>4. ToSet(<< >>) = {}
  BY DEF ToSet
<1>5. Shrunk
  BY <1>3, <1>4 DEF Shrunk
<1> QED BY <1>2, <1>5, ReleaseStep, ReleaseLists
-----------------------------------------------------------------------------
(* What a step does not touch.                                               *)

Same(q) ==
    /\ pc'[q] = pc[q] /\ local'[q] = local[q] /\ iter'[q] = iter[q]
    /\ result'[q] = result[q] /\ tried'[q] = tried[q] /\ value'[q] = value[q]
    /\ outcome'[q] = outcome[q] /\ returned'[q] = returned[q]
    /\ overlooked'[q] = overlooked[q]

LEMMA SameKept ==
  ASSUME IInv, combiner' = combiner, NEW q \in Procs, EmissionOK(q), Same(q), ReadKept(q)
  PROVE  EmissionOK(q)'
<1>1. CASE pc[q] = "idle"
  BY <1>1 DEF EmissionOK, CacheOK, Same, Invoking, Iterating
<1>2. CASE pc[q] # "idle"
  <2>1. local[q] # None
    BY <1>2 DEF IInv, ProcessOK
  <2>2. /\ ListOf(q)' = ListOf(q)
        /\ \A b \in ToSet(ListOf(q)) : body'[b].connected => body[b].connected
    BY <2>1 DEF ReadKept, ListOf, Same
  <2>3. CacheOK(q)' /\ (InOrder(q) => InOrder(q)')
    BY <2>2 DEF EmissionOK, CacheOK, InOrder, Same, Library
  <2>4. pc[q] \in Invoking =>
          \A b \in ToSet(returned'[q]) \cap Extended : ~body'[b].connected
    BY <2>2 DEF EmissionOK, InOrder, Same
  <2>5. Library /\ LibraryOK(q) => LibraryOK(q)'
    BY <2>2 DEF LibraryOK, NoneLeftOut, Accounted, Done, Same
  <2> QED BY <1>2, <2>3, <2>4, <2>5 DEF EmissionOK, Same, Library
<1> QED BY <1>1, <1>2

LEMMA OwnKept ==
  ASSUME OwnConnection, Shrunk, own' = own
  PROVE  OwnConnection'
BY DEF OwnConnection, Shrunk

(* Steps of one invocation. *)
LEMMA OwnStepEInv ==
  ASSUME EInv, NEW p \in Procs, IInv', ListsInv', Shrunk, EmissionTypeOK',
         own' = own, combiner' = combiner,
         \A q \in Procs \ {p} : Same(q) /\ ReadKept(q), EmissionOK(p)'
  PROVE  EInv'
<1>1. \A q \in Procs : EmissionOK(q)'
  BY SameKept DEF EInv
<1> QED BY <1>1, OwnKept DEF EInv

(* Steps of no invocation. *)
LEMMA FreeStepEInv ==
  ASSUME EInv, SignalKept, EmissionTypeOK', OwnConnection', UNCHANGED procVars,
         UNCHANGED <<combinerVars, result, tried, returned, overlooked>>
  PROVE  EInv'
<1>1. \A q \in Procs : Same(q)
  BY DEF Same, procVars, walkVars, combinerVars
<1>2. \A q \in Procs : EmissionOK(q)'
  BY <1>1, SameKept DEF EInv, SignalKept, combinerVars
<1> QED BY <1>2 DEF EInv, SignalKept

(* The list of an invocation, and the places in it.                          *)
LEMMA OwnList ==
  ASSUME IInv, ListsInv, NEW p \in Procs, local[p] # None
  PROVE  /\ ListOf(p) \in Seq(Bodies) /\ Unrepeated(ListOf(p))
         /\ ToSet(ListOf(p)) \subseteq Bodies
         /\ iter[p] \in ToSet(ListOf(p)) \cup {End}
         /\ \A b \in ToSet(ListOf(p)) \cup {End} : Index(ListOf(p), b) \in Int
         /\ \A b \in ToSet(ListOf(p)) : Index(ListOf(p), b) < Index(ListOf(p), End)
<1>1. ListOf(p) \in Seq(Bodies) /\ Unrepeated(ListOf(p))
  BY ListTypes DEF ListOf, ListsInv, GoodList
<1>2. iter[p] \in ToSet(ListOf(p)) \cup {End} /\ ToSet(ListOf(p)) \subseteq Bodies
  BY <1>1, ToSetType DEF IInv, ProcessOK, ListOf
<1> HIDE DEF ListOf
<1>3. ASSUME NEW b \in ToSet(ListOf(p)) \cup {End}
      PROVE  /\ Index(ListOf(p), b) \in Int
             /\ b # End => Index(ListOf(p), b) < Index(ListOf(p), End)
  <2>1. Len(ListOf(p)) \in Nat /\ DOMAIN ListOf(p) = 1..Len(ListOf(p))
    BY <1>1
  <2>2. /\ Index(ListOf(p), b) \in 1..Len(ListOf(p)) + 1
        /\ b # End => Index(ListOf(p), b) \in DOMAIN ListOf(p)
    BY <1>1, IndexExists
  <2>3. Index(ListOf(p), End) = Len(ListOf(p)) + 1
    BY <1>1, IndexExists
  <2> QED BY <2>1, <2>2, <2>3
<1> QED BY <1>1, <1>2, <1>3, SignalAssumption

(* When the iterator moves on, it has passed where it was, and nothing else. *)
LEMMA PassedNext ==
  ASSUME NEW S, NEW list \in Seq(S), Unrepeated(list), End \notin S,
         NEW it \in ToSet(list) \cup {End}, NEW b \in ToSet(list)
  PROVE  Index(list, b) < Index(list, Successor(list, it)) <=>
             Index(list, b) < Index(list, it) \/ b = it
<1>1. /\ Len(list) \in Nat /\ DOMAIN list = 1..Len(list)
      /\ b # End /\ Index(list, b) \in DOMAIN list /\ list[Index(list, b)] = b
  BY IndexExists, ToSetType
<1>2. CASE it = End
  <2>1. Index(list, it) = Len(list) + 1
    BY <1>2, IndexExists
  <2>2. Successor(list, it) = End
    BY <1>1, <2>1 DEF Successor, NodeAt
  <2> QED BY <1>1, <1>2, <2>1, <2>2
<1>3. CASE it \in ToSet(list)
  <2>1. it # End /\ Index(list, it) \in DOMAIN list /\ list[Index(list, it)] = it
    BY <1>3, IndexExists, ToSetType
  <2>2. Index(list, Successor(list, it)) = Index(list, it) + 1
    BY <1>3, SuccessorIndex
  <2>3. Index(list, b) = Index(list, it) <=> b = it
    BY <1>1, <2>1
  <2> QED BY <1>1, <2>1, <2>2, <2>3
<1> QED BY <1>2, <1>3

(* While a process invokes, it holds a list. *)
LEMMA Reading ==
  ASSUME IInv, NEW p \in Procs, pc[p] \in Invoking
  PROVE  local[p] # None
BY DEF IInv, ProcessOK, Invoking, Iterating
-----------------------------------------------------------------------------
(* Each action preserves the invariant.                                      *)

LEMMA ConnectEInv ==
  ASSUME EInv, SharedUnread, NEW b \in Bodies, NEW position \in Positions, Connect(b, position),
         UNCHANGED <<combinerVars, result, tried, returned, overlooked>>,
         b \in Extended => own' = [own EXCEPT ![b] = b],
         b \notin Extended => own' = own
  PROVE  EInv'
<1> DEFINE list  == lists[shared.list]
           from  == IF Unique THEN SweepStart ELSE Begin(list)
           count == IF Unique THEN 2 ELSE 0
           l     == IF Unique THEN shared.list ELSE CHOOSE f \in FreeLists : TRUE
           bd    == CleanedBodies(list, from, count)
           kept  == CleanedList(list, from, count, bd)
<1>1. /\ Unique \/ FreeLists # {}
      /\ lists' = [lists EXCEPT ![l] = Inserted(kept, KeyOf, b, position)]
      /\ UNCHANGED procVars
  BY DEF Connect
<1>2. l \in Lists /\ list \in Seq(Bodies) /\ shared.list \in Lists
  BY <1>1, ModifiedListType, ListTypes DEF EInv
<1> HIDE DEF list, from, count, l, bd
<1>3. kept \in Seq(Bodies) /\ ToSet(kept) \subseteq ToSet(list)
  <2>1. kept \in Seq(Bodies)
    BY <1>2, WithoutType DEF CleanedList
  <2> QED BY <1>2, <2>1, CleanedShrinks
<1> HIDE DEF kept
<1>4. ToSet(Inserted(kept, KeyOf, b, position)) = ToSet(kept) \cup {b}
  BY <1>3, InsertedSet
<1>5. own' \in [Bodies -> Bodies \cup {None}] /\ \A c \in Extended : own'[c] = own[c] \/ own'[c] = c
  BY EmissionAssumption DEF EInv, EmissionTypeOK
<1>6. b \in Extended => own'[b] = b
  BY DEF EInv, EmissionTypeOK
<1>7. OwnConnection'
  <2>1. ASSUME NEW m \in Lists, NEW c \in ToSet(lists'[m]) \cap Extended
        PROVE  own'[c] = c
    <3>1. c = b \/ \E n \in Lists : c \in ToSet(lists[n])
      BY <1>1, <1>2, <1>3, <1>4, <2>1, ListTypes DEF EInv, list
    <3> QED BY <1>5, <1>6, <2>1, <3>1 DEF EInv, OwnConnection
  <2> QED BY <2>1 DEF OwnConnection
<1>8. EmissionTypeOK'
  BY <1>5 DEF EInv, EmissionTypeOK, combinerVars
<1>9. SignalKept
  BY ConnectKept DEF EInv
<1> QED BY <1>1, <1>7, <1>8, <1>9, FreeStepEInv

LEMMA FreeEInv ==
  ASSUME EInv, UNCHANGED emissionVars,
         QuietEnvironment \/ \E c \in Combiners : SetCombiner(c)
  PROVE  EInv'
<1>1. SignalKept /\ Shrunk
  BY QuietEnvironmentKept, SetCombinerKept DEF EInv
<1>2. UNCHANGED procVars
  BY DEF QuietEnvironment, Disconnect, Connected, Block, Unblock, DropObject, SetCombiner
<1>3. OwnConnection'
  BY <1>1, <1>2, OwnKept DEF EInv, emissionVars
<1>4. EmissionTypeOK'
  BY DEF EInv, EmissionTypeOK, emissionVars, combinerVars
<1> QED BY <1>1, <1>2, <1>3, <1>4, FreeStepEInv DEF emissionVars

(* What a step of Signal does to the other processes. *)
LEMMA OthersSame ==
  ASSUME IInv, NEW p \in Procs, Invoke(p) \/ Step(p),
         \A q \in Procs \ {p} :
            /\ result'[q] = result[q] /\ tried'[q] = tried[q] /\ value'[q] = value[q]
            /\ outcome'[q] = outcome[q] /\ returned'[q] = returned[q]
            /\ overlooked'[q] = overlooked[q]
  PROVE  \A q \in Procs \ {p} : Same(q)
BY OthersStill DEF Still, Same

LEMMA ProcTypes ==
  ASSUME IInv
  PROVE  /\ pc \in [Procs -> Invoking \cup Walks \cup {"idle", "release"}]
         /\ local \in [Procs -> States \cup {None}]
         /\ iter \in [Procs -> Bodies \cup {End}]
         /\ active \in [Procs -> Bodies \cup {None}]
BY DEF IInv, TypeOK

LEMMA InvokeEInv ==
  ASSUME EInv, SharedUnread, NEW p \in Procs, Invoke(p), UNCHANGED emissionVars
  PROVE  EInv'
<1> DEFINE list == lists[shared.list]
           kept == IF Unique THEN CleanedList(list, SweepStart, 1, body) ELSE list
<1>1. SignalKept /\ Shrunk
  BY InvokeKept DEF EInv
<1>2. /\ pc[p] = "idle" /\ pc'[p] \in {"end", "grab"} /\ local'[p] = shared
      /\ iter'[p] = Begin(kept) /\ lists'[shared.list] = kept
  BY ProcTypes, ListTypes DEF EInv, Invoke
<1> HIDE DEF kept
<1>3. ListOf(p)' = kept
  BY <1>2 DEF ListOf
<1>4. kept \in Seq(Bodies) /\ Unrepeated(kept)
  <2>1. IInv' /\ ListsInv' /\ shared.list \in Lists
    BY <1>1, ListTypes DEF SignalKept, EInv
  <2> QED BY <1>2, <2>1 DEF IInv, TypeOK, ListsInv, GoodList
<1>5. ASSUME NEW b \in ToSet(kept)
      PROVE  ~Done(p, b)'
  <2>1. Index(kept, Begin(kept)) = 1 /\ Index(kept, b) \in 1..Len(kept) + 1
    BY <1>4, BeginIndex, IndexExists, SignalAssumption
  <2>2. ~(Index(kept, b) < 1)
    BY <1>4, <2>1
  <2>3. ~tried'[p]
    BY <1>2 DEF EInv, EmissionOK, emissionVars
  <2> QED BY <1>2, <1>3, <2>1, <2>2, <2>3 DEF Done
<1>6. /\ result'[p] = None /\ ~tried'[p] /\ value'[p] = None /\ outcome'[p] = "none"
      /\ returned'[p] = << >>
  BY <1>2 DEF EInv, EmissionOK, emissionVars, combinerVars
<1>7. EmissionOK(p)'
  <2>1. InOrder(p)' /\ ToSet(returned'[p]) = {}
    BY <1>6 DEF InOrder, ToSet
  <2>2. LibraryOK(p)'
    BY <1>3, <1>5, <1>6 DEF LibraryOK
  <2>3. CacheOK(p)'
    BY <1>6 DEF CacheOK
  <2> QED BY <1>2, <1>6, <2>1, <2>2, <2>3 DEF EmissionOK, Invoking, Iterating
<1>8. \A q \in Procs \ {p} : Same(q)
  BY OthersSame DEF EInv, emissionVars, combinerVars
<1>9. EmissionTypeOK'
  BY DEF EInv, EmissionTypeOK, emissionVars, combinerVars
<1> QED BY <1>1, <1>7, <1>8, <1>9, OwnStepEInv DEF SignalKept, emissionVars, combinerVars
LEMMA AppendedLast ==
  ASSUME NEW S, NEW s \in Seq(S), NEW e \in S
  PROVE  /\ Append(s, e) \in Seq(S) /\ Append(s, e) # << >> /\ Last(Append(s, e)) = e
         /\ ToSet(Append(s, e)) = ToSet(s) \cup {e}
<1>1. /\ Append(s, e) \in Seq(S) /\ Len(s) \in Nat /\ Len(Append(s, e)) = Len(s) + 1
      /\ DOMAIN s = 1..Len(s) /\ DOMAIN Append(s, e) = 1..Len(s) + 1
      /\ Append(s, e)[Len(s) + 1] = e
      /\ \A i \in 1..Len(s) : Append(s, e)[i] = s[i]
  OBVIOUS
<1>2. 1..Len(s) + 1 = (1..Len(s)) \cup {Len(s) + 1}
  BY <1>1
<1>3. Append(s, e) # << >>
  BY <1>1
<1> QED BY <1>1, <1>2, <1>3 DEF Last, ToSet

LEMMA LastIn ==
  ASSUME NEW S, NEW s \in Seq(S), s # << >>
  PROVE  Last(s) \in ToSet(s) /\ Last(s) \in S
<1>1. Len(s) \in DOMAIN s
  OBVIOUS
<1> QED BY <1>1 DEF Last, ToSet

(* The slot returns, or has returned before. *)
LEMMA DereferenceEInv ==
  ASSUME EInv, NEW p \in Procs, dereference(p)
  PROVE  EInv'
<1>1. PICK b \in Bodies :
        /\ MayDereference(p) /\ iter[p] = b
        /\ IF result[p] = None
           THEN /\ body' = slot_invoker(b)
                /\ result' = [result EXCEPT ![p] = b]
                /\ returned' = [returned EXCEPT ![p] = Append(@, b)]
           ELSE UNCHANGED <<body, result, returned>>
        /\ tried' = [tried EXCEPT ![p] = Library]
        /\ value' = [value EXCEPT ![p] = Kept(p, result'[p])]
        /\ UNCHANGED <<blocked, owned, listVars, procVars, combiner, outcome, own, overlooked>>
  BY DEF dereference
<1> DEFINE list == ListOf(p)
<1>2. /\ pc[p] = "calling" /\ iter[p] = b /\ outcome[p] = "none" /\ local[p] # None
      /\ pc'[p] = pc[p] /\ iter'[p] = iter[p] /\ ListOf(p)' = list
      /\ outcome'[p] = "none"
  BY <1>1, Reading DEF EInv, EmissionOK, MayDereference, Invoking, Iterating, procVars,
     walkVars, listVars, ListOf
<1>3. /\ list \in Seq(Bodies) /\ b \in ToSet(list)
      /\ ToSet(list) \subseteq Bodies
      /\ \A c \in ToSet(list) : Index(list, c) \in Int
  BY <1>2, OwnList, SignalAssumption DEF EInv
<1>4. own[b] = b \/ b \notin Extended
  BY <1>2, <1>3, ListTypes DEF EInv, OwnConnection, ListOf
<1>5. /\ SignalKept /\ Shrunk
      /\ result[p] = None /\ b \in Extended => ~body'[b].connected
  <2>1. CASE result[p] = None
    BY <1>1, <1>4, <2>1, InvokerKept DEF EInv, EmissionTypeOK
  <2>2. CASE result[p] # None
    <3>1. NoneConnected /\ UNCHANGED listVars
      BY <1>1, <2>2 DEF NoneConnected
    <3>2. BodiesOK(body', active)
      BY <1>1, <2>2, BodiesInIInv DEF EInv
    <3>3. IInv'
      BY <1>1, <3>2, BodyStep DEF EInv, IInv, TypeOK
    <3> QED BY <2>2, <3>1, <3>3, QuietKept DEF SignalKept, EInv
  <2> QED BY <2>1, <2>2
<1>6. \A c \in ToSet(list) : body'[c].connected => body[c].connected
  BY <1>2, <1>5 DEF SignalKept, ReadKept
<1>7. /\ result'[p] = b /\ tried'[p] = Library /\ value'[p] = Kept(p, b)
      /\ returned'[p] = IF result[p] = None THEN Append(returned[p], b) ELSE returned[p]
      /\ result[p] # None => returned[p] # << >> /\ Last(returned[p]) = b
  BY <1>1, <1>2 DEF EInv, EmissionTypeOK, EmissionOK, CacheOK
<1>8. returned[p] \in Seq(Bodies) /\ InOrder(p)
      /\ \A c \in ToSet(returned[p]) \cap Extended : ~body[c].connected
  BY <1>2 DEF EInv, EmissionTypeOK, EmissionOK, Invoking, Iterating
<1>9. /\ returned'[p] \in Seq(Bodies) /\ returned'[p] # << >> /\ Last(returned'[p]) = b
      /\ ToSet(returned'[p]) = ToSet(returned[p]) \cup {b}
  <2>1. CASE result[p] = None
    BY <1>1, <1>7, <1>8, <2>1, AppendedLast
  <2>2. CASE result[p] # None
    <3>1. b \in ToSet(returned[p])
      BY <1>7, <1>8, <2>2, LastIn
    <3> QED BY <1>7, <1>8, <2>2, <3>1
  <2> QED BY <2>1, <2>2
<1>10. InOrder(p)'
  <2>1. CASE result[p] = None
    <3> DEFINE n == Len(returned[p])
    <3>1. /\ n \in Nat /\ DOMAIN returned[p] = 1..n
          /\ DOMAIN returned'[p] = 1..n + 1 /\ Len(returned'[p]) = n + 1
          /\ returned'[p][n + 1] = b
          /\ \A i \in 1..n : returned'[p][i] = returned[p][i] /\ returned[p][i] \in ToSet(list)
      BY <1>7, <1>8, <2>1 DEF InOrder, ToSet
    <3>2. \A i \in 1..n : Index(list, returned[p][i]) < Index(list, b)
      BY <1>2, <1>8, <2>1, <3>1 DEF InOrder
    <3>3. \A i, j \in 1..n : i < j =>
             Index(list, returned[p][i]) < Index(list, returned[p][j])
      BY <1>8, <3>1 DEF InOrder
    <3>4. ToSet(returned'[p]) \subseteq ToSet(list)
      BY <1>3, <1>8, <1>9 DEF InOrder
    <3>5. result'[p] # None
      BY <1>7, SignalAssumption
    <3> HIDE DEF n, list
    <3>6. \A i \in 1..n + 1 : i \in 1..n \/ i = n + 1
      BY <3>1
    <3>7. \A i, j \in 1..n + 1 : i < j => i \in 1..n
      BY <3>1
    <3>8. \A i, j \in 1..n + 1 : i < j =>
             Index(list, returned'[p][i]) < Index(list, returned'[p][j])
      BY <3>1, <3>2, <3>3, <3>6, <3>7
    <3>9. \A i \in 1..n + 1 : \/ Index(list, returned'[p][i]) < Index(list, iter'[p])
                              \/ i = Len(returned'[p])
      BY <1>2, <3>1, <3>2, <3>6
    <3> QED BY <1>2, <3>1, <3>4, <3>5, <3>8, <3>9 DEF InOrder, list
  <2>2. CASE result[p] # None
    BY <1>2, <1>7, <1>8, <2>2, SignalAssumption DEF InOrder
  <2> QED BY <2>1, <2>2
<1>11. \A c \in ToSet(returned'[p]) \cap Extended : ~body'[c].connected
  <2>1. \A c \in ToSet(returned[p]) \cap Extended : ~body'[c].connected
    BY <1>6, <1>8 DEF InOrder
  <2>2. CASE result[p] = None
    BY <1>5, <1>9, <2>1, <2>2
  <2>3. CASE result[p] # None
    BY <1>7, <2>1, <2>3
  <2> QED BY <2>2, <2>3
<1>12. Library => LibraryOK(p)'
  <2> SUFFICES ASSUME Library
               PROVE  LibraryOK(p)'
    OBVIOUS
  <2>1. value'[p] = b
    BY <1>7 DEF Kept
  <2>2. LibraryOK(p)
    BY <1>2 DEF EInv, EmissionOK
  <2>3. ASSUME NEW c \in ToSet(list), body'[c].connected, Done(p, c)'
        PROVE  c \in Accounted(p)'
    <3>1. body[c].connected /\ (Done(p, c) \/ c = b)
      BY <1>2, <1>6, <2>3 DEF Done
    <3>2. Accounted(p)' = Accounted(p) \cup {b}
      BY <1>1, <1>9 DEF Accounted
    <3> QED BY <1>2, <2>2, <3>1, <3>2 DEF LibraryOK, Iterating
  <2> QED BY <1>2, <1>9, <2>1, <2>3 DEF LibraryOK
<1>13. EmissionOK(p)'
  BY <1>1, <1>2, <1>7, <1>9, <1>10, <1>11, <1>12
     DEF EmissionOK, CacheOK, Library, Invoking, Iterating
<1>14. \A q \in Procs \ {p} : Same(q)
  BY <1>1 DEF Same, EInv, EmissionTypeOK, procVars, walkVars
<1>15. EmissionTypeOK'
  <2>1. result' \in [Procs -> Bodies \cup {None}] /\ returned' \in [Procs -> Seq(Bodies)]
    BY <1>1, <1>7, <1>9 DEF EInv, EmissionTypeOK
  <2>2. tried' \in [Procs -> BOOLEAN]
    <3>1. Library \in BOOLEAN
      BY DEF Library
    <3> QED BY <1>1, <3>1 DEF EInv, EmissionTypeOK
  <2>3. value' \in [Procs -> Bodies \cup {None}]
    <3>1. Kept(p, result'[p]) \in Bodies \cup {None}
      BY <1>7 DEF EInv, EmissionTypeOK, Kept
    <3> QED BY <1>1, <3>1 DEF EInv, EmissionTypeOK
  <2> QED BY <1>1, <2>1, <2>2, <2>3 DEF EInv, EmissionTypeOK
<1> QED BY <1>1, <1>5, <1>13, <1>14, <1>15, OwnStepEInv DEF SignalKept
(* The slot throws expired_slot. *)
LEMMA ExpiredEInv ==
  ASSUME EInv, NEW p \in Procs, dereference_expired(p)
  PROVE  EInv'
<1>1. PICK b \in Bodies :
        /\ MayDereference(p) /\ result[p] = None /\ iter[p] = b
        /\ body' = [body EXCEPT ![b] = nolock_disconnect(@)]
        /\ tried' = [tried EXCEPT ![p] = Library]
        /\ UNCHANGED <<blocked, owned, listVars, procVars>>
        /\ UNCHANGED <<combinerVars, result, own, returned, overlooked>>
  BY DEF dereference_expired, SlotExpires
<1> DEFINE list == ListOf(p)
<1>2. /\ pc[p] = "calling" /\ iter[p] = b /\ local[p] # None
      /\ pc'[p] = pc[p] /\ iter'[p] = iter[p] /\ ListOf(p)' = list
      /\ outcome[p] = "none"
  BY <1>1, Reading DEF EInv, EmissionOK, MayDereference, Invoking, Iterating, procVars,
     walkVars, listVars, ListOf
<1>3. SignalKept /\ Shrunk
  BY QuietStepKept DEF EInv, dereference_expired
<1>4. \A c \in ToSet(list) : body'[c].connected => body[c].connected
  BY <1>2, <1>3 DEF SignalKept, ReadKept
<1>5. ~body'[b].connected
  BY <1>1, ListTypes, StillConnected DEF EInv
<1>6. tried'[p] = Library
  BY <1>1 DEF EInv, EmissionTypeOK
<1>7. InOrder(p) /\ InOrder(p)'
  BY <1>1, <1>2 DEF EInv, EmissionOK, InOrder, Invoking, Iterating
<1>8. \A c \in ToSet(returned[p]) \cap Extended : ~body'[c].connected
  BY <1>2, <1>4, <1>7 DEF EInv, EmissionOK, InOrder, Invoking, Iterating
<1>9. Library => LibraryOK(p)'
  <2> SUFFICES ASSUME Library
               PROVE  LibraryOK(p)'
    OBVIOUS
  <2>1. LibraryOK(p)
    BY <1>2 DEF EInv, EmissionOK
  <2>2. ASSUME NEW c \in ToSet(list), body'[c].connected, Done(p, c)'
        PROVE  c \in Accounted(p)
    BY <1>2, <1>4, <1>5, <2>1, <2>2 DEF LibraryOK, Done, Iterating
  <2> QED BY <1>1, <1>2, <2>1, <2>2 DEF LibraryOK, Accounted, combinerVars
<1>10. EmissionOK(p)'
  BY <1>1, <1>2, <1>6, <1>7, <1>8, <1>9
     DEF EmissionOK, CacheOK, Library, Invoking, Iterating, combinerVars
<1>11. \A q \in Procs \ {p} : Same(q)
  BY <1>1 DEF Same, EInv, EmissionTypeOK, procVars, walkVars, combinerVars
<1>12. EmissionTypeOK'
  <2>1. Library \in BOOLEAN
    BY DEF Library
  <2> QED BY <1>1, <2>1 DEF EInv, EmissionTypeOK, combinerVars
<1> QED BY <1>1, <1>3, <1>10, <1>11, <1>12, OwnStepEInv DEF SignalKept, combinerVars

(* The iterator moves on, in the combiner or in lock_next_callable. *)
LEMMA MoveEInv ==
  ASSUME EInv, NEW p \in Procs, Increment(p), pc[p] = "skipping" \/ MayIncrement(p),
         result' = [result EXCEPT ![p] = None],
         tried' = [tried EXCEPT ![p] = FALSE],
         UNCHANGED <<combinerVars, own, returned, overlooked>>
  PROVE  EInv'
<1> DEFINE list == ListOf(p)
<1>1. /\ pc[p] \in {"calling", "skipping"} /\ local[p] # None
      /\ pc'[p] \in {"end", "grab"} /\ ListOf(p)' = list
      /\ iter'[p] = Successor(list, iter[p])
      /\ UNCHANGED body
  BY ProcTypes, Reading DEF EInv, Increment, Invoking, Iterating, ListOf, listVars, bodyVars
<1>2. /\ list \in Seq(Bodies) /\ Unrepeated(list)
      /\ iter[p] \in ToSet(list) \cup {End}
  BY <1>1, OwnList DEF EInv
<1>3. SignalKept /\ Shrunk
  BY QuietStepKept DEF EInv
<1>4. /\ result'[p] = None /\ ~tried'[p] /\ returned'[p] = returned[p]
      /\ outcome'[p] = "none" /\ outcome[p] = "none" /\ value'[p] = value[p]
  BY <1>1 DEF EInv, EmissionTypeOK, EmissionOK, Iterating, combinerVars
<1>5. /\ InOrder(p)
      /\ \A c \in ToSet(returned[p]) \cap Extended : ~body[c].connected
  BY <1>1 DEF EInv, EmissionOK, Invoking, Iterating
<1> HIDE DEF list
<1>6. \A b \in ToSet(list) : Index(list, b) < Index(list, iter'[p]) <=>
          Index(list, b) < Index(list, iter[p]) \/ b = iter[p]
  BY <1>1, <1>2, PassedNext, SignalAssumption
<1>7. InOrder(p)'
  <2>1. ASSUME NEW i \in DOMAIN returned[p]
        PROVE  Index(list, returned[p][i]) < Index(list, iter'[p])
    <3>1. returned[p][i] \in ToSet(list)
      BY <1>5, <2>1 DEF InOrder, ToSet, list
    <3>2. CASE Index(list, returned[p][i]) < Index(list, iter[p])
      BY <1>6, <3>1, <3>2
    <3>3. CASE result[p] # None /\ i = Len(returned[p])
      <4>1. returned[p][i] = iter[p]
        BY <3>3 DEF EInv, EmissionOK, CacheOK, Last
      <4> QED BY <1>6, <3>1, <4>1
    <3> QED BY <1>5, <2>1, <3>2, <3>3 DEF InOrder, list
  <2> QED BY <1>1, <1>4, <1>5, <2>1 DEF InOrder, list
<1>8. Library => LibraryOK(p)'
  <2> SUFFICES ASSUME Library
               PROVE  LibraryOK(p)'
    OBVIOUS
  <2>1. LibraryOK(p) /\ (pc[p] = "calling" => tried[p])
    BY <1>1 DEF EInv, EmissionOK, MayIncrement
  <2>2. ASSUME NEW c \in ToSet(list), body[c].connected, Done(p, c)'
        PROVE  c \in Accounted(p)
    <3>1. Index(list, c) < Index(list, iter'[p])
      BY <1>1, <1>4, <2>2 DEF Done, list
    <3>2. Index(list, c) < Index(list, iter[p]) \/ c = iter[p]
      BY <1>6, <3>1
    <3>3. Done(p, c)
      BY <1>1, <2>1, <3>2 DEF Done, list
    <3> QED BY <1>1, <2>1, <2>2, <3>3 DEF LibraryOK, Iterating, list
  <2> QED BY <1>1, <1>4, <2>1, <2>2 DEF LibraryOK, Accounted, list
<1>9. EmissionOK(p)'
  BY <1>1, <1>4, <1>5, <1>7, <1>8
     DEF EmissionOK, CacheOK, Library, Invoking, Iterating, combinerVars
<1>10. \A q \in Procs \ {p} : Same(q)
  BY OthersSame DEF Step, EInv, EmissionTypeOK, combinerVars
<1>11. EmissionTypeOK'
  BY DEF EInv, EmissionTypeOK, combinerVars
<1> QED BY <1>1, <1>3, <1>9, <1>10, <1>11, OwnStepEInv DEF SignalKept, combinerVars
(* A slot that is skipped is not connected, or is blocked. *)
LEMMA ReachEInv ==
  ASSUME EInv, NEW p \in Procs, Reach(p)
  PROVE  EInv'
<1> DEFINE list == ListOf(p)
<1>1. PICK b \in Bodies :
        LET r  == disconnect_expired_slot(b)
            bd == [body EXCEPT ![b] = r]
        IN  /\ pc[p] = "grab" /\ iter[p] = b
            /\ IF Callable(b, r)
               THEN /\ body' = set_active_slot(bd, active[p], b)
                    /\ pc' = [pc EXCEPT ![p] = "calling"]
               ELSE /\ body' = bd
                    /\ pc' = [pc EXCEPT ![p] = "skipping"]
            /\ UNCHANGED <<blocked, owned, listVars, local, iter, stop, target>>
  BY DEF Reach, Grab
<1>2. /\ pc[p] = "grab" /\ iter[p] = b /\ local[p] # None
      /\ pc'[p] \in {"calling", "skipping"} /\ iter'[p] = b /\ ListOf(p)' = list
      /\ overlooked'[p] = overlooked[p] \cup (blocked \cap {b})
      /\ Grab(p) /\ UNCHANGED <<combinerVars, result, tried, own, returned>>
  BY <1>1, ProcTypes, Reading DEF EInv, EmissionTypeOK, Invoking, Iterating, listVars, ListOf,
     Reach
<1>3. pc'[p] = "skipping" => ~body'[b].connected \/ b \in overlooked'[p]
  <2>1. CASE Callable(b, disconnect_expired_slot(b))
    BY <1>1, <2>1, ProcTypes DEF EInv
  <2>2. CASE ~Callable(b, disconnect_expired_slot(b))
    <3>1. ~disconnect_expired_slot(b).connected \/ b \in overlooked'[p]
      BY <1>2, <2>2 DEF Callable
    <3> QED BY <1>1, <2>2, <3>1, ListTypes DEF EInv
  <2> QED BY <2>1, <2>2
<1>4. SignalKept /\ Shrunk
  BY <1>2, QuietStepKept DEF EInv
<1>5. \A c \in ToSet(list) : body'[c].connected => body[c].connected
  BY <1>2, <1>4 DEF SignalKept, ReadKept
<1>6. /\ result'[p] = result[p] /\ tried'[p] = tried[p] /\ value'[p] = value[p]
      /\ outcome'[p] = outcome[p] /\ returned'[p] = returned[p]
      /\ result[p] = None /\ ~tried[p] /\ outcome[p] = "none"
  BY <1>2 DEF EInv, EmissionOK, CacheOK, Iterating, combinerVars
<1>7. InOrder(p) /\ InOrder(p)'
  BY <1>2, <1>6 DEF EInv, EmissionOK, InOrder, Invoking, Iterating
<1>8. \A c \in ToSet(returned[p]) \cap Extended : ~body'[c].connected
  BY <1>2, <1>5, <1>7 DEF EInv, EmissionOK, InOrder, Invoking, Iterating
<1>9. Library => LibraryOK(p)'
  <2> SUFFICES ASSUME Library
               PROVE  LibraryOK(p)'
    OBVIOUS
  <2>1. LibraryOK(p)
    BY <1>2 DEF EInv, EmissionOK
  <2>2. ASSUME NEW c \in ToSet(list), body'[c].connected, Done(p, c)'
        PROVE  c \in Accounted(p)'
    <3>1. body[c].connected /\ (Done(p, c) \/ c \in overlooked'[p])
      BY <1>2, <1>3, <1>5, <1>6, <2>2 DEF Done
    <3>2. Accounted(p) \cup overlooked'[p] = Accounted(p)'
      BY <1>2, <1>6 DEF Accounted
    <3> QED BY <1>2, <2>1, <3>1, <3>2 DEF LibraryOK, Iterating
  <2> QED BY <1>2, <1>6, <2>1, <2>2 DEF LibraryOK
<1>10. EmissionOK(p)'
  BY <1>2, <1>6, <1>7, <1>8, <1>9
     DEF EmissionOK, CacheOK, Library, Invoking, Iterating, combinerVars
<1>11. \A q \in Procs \ {p} : Same(q)
  BY <1>2, OthersSame DEF Step, Reach, EInv, EmissionTypeOK, combinerVars
<1>12. EmissionTypeOK'
  BY <1>1, <1>2 DEF EInv, EmissionTypeOK, Reach, combinerVars
<1> QED BY <1>2, <1>4, <1>10, <1>11, <1>12, OwnStepEInv DEF SignalKept, combinerVars

(* The combiner comes to the end: the iterator is past every slot.           *)
LEMMA ReturnEInv ==
  ASSUME EInv, NEW p \in Procs, Return(p)
  PROVE  EInv'
<1> DEFINE list == ListOf(p)
<1>1. /\ pc[p] = "end" /\ local[p] # None /\ iter[p] = End
      /\ pc'[p] \in {"janitor", "release"} /\ iter'[p] = iter[p] /\ ListOf(p)' = list
      /\ UNCHANGED <<combiner, result, tried, value, own, returned, overlooked>>
      /\ outcome' = [outcome EXCEPT ![p] = combiner_invoker(p)]
  BY ProcTypes, Reading DEF EInv, Return, ReachEnd, AfterCombiner, Invoking, Iterating,
     listVars, ListOf, IInv, ProcessOK
<1>2. SignalKept /\ Shrunk
  BY QuietStepKept DEF EInv, Return
<1>3. \A c \in ToSet(list) : body'[c].connected => body[c].connected
  BY <1>1, <1>2 DEF SignalKept, ReadKept
<1>4. combiner_invoker(p) \in {"no_value", "value"}
  BY DEF combiner_invoker
<1>5. outcome'[p] = combiner_invoker(p)
  BY <1>1 DEF EInv, EmissionTypeOK
<1>6. result[p] = None /\ ~tried[p]
  BY <1>1 DEF EInv, EmissionOK, CacheOK
<1>7. InOrder(p) /\ InOrder(p)'
  BY <1>1 DEF EInv, EmissionOK, InOrder, Invoking, Iterating
<1>8. \A c \in ToSet(returned[p]) \cap Extended : ~body'[c].connected
  BY <1>1, <1>3, <1>7 DEF EInv, EmissionOK, InOrder, Invoking, Iterating
<1>9. Library => LibraryOK(p)'
  <2> SUFFICES ASSUME Library
               PROVE  LibraryOK(p)'
    OBVIOUS
  <2>1. LibraryOK(p)
    BY <1>1 DEF EInv, EmissionOK
  <2>2. \A c \in ToSet(list) : Index(list, c) < Index(list, iter[p])
    BY <1>1, OwnList DEF EInv
  <2>3. NoneLeftOut(p)'
    BY <1>1, <1>3, <2>1, <2>2 DEF LibraryOK, NoneLeftOut, Accounted, Done, Iterating
  <2>4. outcome'[p] = "no_value" => returned[p] = << >>
    <3>1. returned[p] # << >> => Last(returned[p]) \in Bodies
      BY LastIn DEF EInv, EmissionTypeOK
    <3> QED BY <1>5, <2>1, <3>1, SignalAssumption DEF LibraryOK, combiner_invoker
  <2> QED BY <1>1, <2>1, <2>3, <2>4 DEF LibraryOK, Iterating
<1>10. EmissionOK(p)'
  BY <1>1, <1>6, <1>7, <1>8, <1>9 DEF EmissionOK, CacheOK, Library, Invoking, Iterating
<1>11. \A q \in Procs \ {p} : Same(q)
  BY <1>1, OthersSame DEF Step, Return, EInv, EmissionTypeOK
<1>12. EmissionTypeOK'
  BY <1>1, <1>4 DEF EInv, EmissionTypeOK
<1> QED BY <1>1, <1>2, <1>10, <1>11, <1>12, OwnStepEInv DEF SignalKept

(* The combiner, or an exception, leaves before the end.                     *)
LEMMA LeaveEInv ==
  ASSUME EInv, NEW p \in Procs, Leave(p)
  PROVE  EInv'
<1> DEFINE list == ListOf(p)
<1>1. /\ pc[p] = "calling" /\ ~tried[p] /\ local[p] # None /\ iter'[p] = End
      /\ pc'[p] \in {"janitor", "cache"} /\ ListOf(p)' = list
      /\ UNCHANGED body
      /\ UNCHANGED <<combiner, tried, value, own, returned, overlooked>>
      /\ outcome' = [outcome EXCEPT ![p] = "left"]
      /\ result' = [result EXCEPT ![p] = None]
  BY ProcTypes, Reading DEF EInv, EmissionOK, CacheOK, Leave, MayDereference, StopEarly,
     AfterCombiner, Invoking, Iterating, listVars, bodyVars, ListOf
<1>2. SignalKept /\ Shrunk
  BY QuietStepKept DEF EInv, Leave
<1>3. result'[p] = None /\ outcome'[p] = "left"
  BY <1>1 DEF EInv, EmissionTypeOK
<1>4. /\ InOrder(p)
      /\ \A c \in ToSet(returned[p]) \cap Extended : ~body[c].connected
  BY <1>1 DEF EInv, EmissionOK, Invoking, Iterating
<1>5. InOrder(p)'
  <2>1. ASSUME NEW i \in DOMAIN returned[p]
        PROVE  Index(list, returned[p][i]) < Index(list, End)
    <3>1. returned[p][i] \in ToSet(list)
      BY <1>4, <2>1 DEF InOrder, ToSet
    <3> QED BY <1>1, <3>1, OwnList DEF EInv
  <2> QED BY <1>1, <1>4, <2>1 DEF InOrder
<1>6. Library => LibraryOK(p)'
  BY <1>1, <1>3 DEF EInv, EmissionOK, LibraryOK, Iterating
<1>7. EmissionOK(p)'
  BY <1>1, <1>3, <1>4, <1>5, <1>6 DEF EmissionOK, CacheOK, Library, Invoking, Iterating
<1>8. \A q \in Procs \ {p} : Same(q)
  BY <1>1, OthersSame DEF Step, Leave, EInv, EmissionTypeOK
<1>9. EmissionTypeOK'
  BY <1>1 DEF EInv, EmissionTypeOK
<1> QED BY <1>1, <1>2, <1>7, <1>8, <1>9, OwnStepEInv DEF SignalKept

LEMMA CacheDtorEInv ==
  ASSUME EInv, NEW p \in Procs, CacheDtor(p), UNCHANGED emissionVars
  PROVE  EInv'
<1>1. /\ pc[p] = "cache" /\ local[p] # None /\ pc'[p] = "release" /\ ListOf(p)' = ListOf(p)
  BY ProcTypes, Reading DEF EInv, CacheDtor, Invoking, listVars, ListOf
<1>2. SignalKept /\ Shrunk
  BY QuietStepKept DEF EInv
<1>3. \A c \in ToSet(ListOf(p)) : body'[c].connected => body[c].connected
  BY <1>1, <1>2 DEF SignalKept, ReadKept
<1>4. Library => LibraryOK(p)'
  BY <1>1, <1>3 DEF EInv, EmissionOK, LibraryOK, NoneLeftOut, Accounted, Iterating, emissionVars,
     combinerVars
<1>5. EmissionOK(p)'
  BY <1>1, <1>4 DEF EInv, EmissionOK, CacheOK, Library, Invoking, Iterating, emissionVars,
     combinerVars
<1>6. \A q \in Procs \ {p} : Same(q)
  BY OthersSame DEF Step, EInv, emissionVars, combinerVars
<1>7. EmissionTypeOK'
  BY DEF EInv, EmissionTypeOK, emissionVars, combinerVars
<1> QED BY <1>1, <1>2, <1>5, <1>6, <1>7, OwnStepEInv DEF SignalKept, emissionVars, combinerVars
LEMMA JanitorEInv ==
  ASSUME EInv, NEW p \in Procs, Undisturbed({q \in {p} : active[q] = None}), Janitor(p),
         UNCHANGED emissionVars
  PROVE  EInv'
<1>1. /\ pc[p] = "janitor" /\ local[p] # None /\ UNCHANGED <<local, iter>>
      /\ pc'[p] = IF active[p] = None THEN "release" ELSE "cache"
  BY ProcTypes, Reading DEF EInv, Janitor, Invoking, bodyVars, walkVars
<1>2. /\ IInv' /\ ListsInv' /\ Shrunk /\ \A q \in Procs \ {p} : ReadKept(q)
      /\ active[p] # None => ReadKept(p)
      /\ body' = body
      /\ ToSet(ListOf(p)') \subseteq ToSet(ListOf(p))
  BY <1>1, JanitorKept, JanitorMayCleanUp DEF EInv, ListOf
<1>3. Library => LibraryOK(p)'
  BY <1>1, <1>2 DEF EInv, EmissionOK, LibraryOK, NoneLeftOut, Accounted, Iterating, emissionVars,
     combinerVars
<1>4. pc'[p] = "cache" => ListOf(p)' = ListOf(p)
  BY <1>1, <1>2 DEF ReadKept, ListOf
<1>5. pc'[p] = "cache" =>
        /\ InOrder(p)'
        /\ \A b \in ToSet(returned'[p]) \cap Extended : ~body'[b].connected
  BY <1>1, <1>2, <1>4 DEF EInv, EmissionOK, InOrder, Invoking, emissionVars
<1>6. EmissionOK(p)'
  BY <1>1, <1>3, <1>5 DEF EInv, EmissionOK, CacheOK, Library, Invoking, Iterating,
     emissionVars, combinerVars
<1>7. \A q \in Procs \ {p} : Same(q)
  BY OthersSame DEF Step, EInv, emissionVars, combinerVars
<1>8. EmissionTypeOK'
  BY DEF EInv, EmissionTypeOK, emissionVars, combinerVars
<1> QED BY <1>1, <1>2, <1>6, <1>7, <1>8, OwnStepEInv DEF emissionVars, combinerVars

LEMMA ForgetEInv ==
  ASSUME EInv, NEW p \in Procs, Forget(p)
  PROVE  EInv'
<1>1. /\ pc'[p] = "idle"
      /\ result'[p] = None /\ ~tried'[p] /\ value'[p] = None /\ outcome'[p] = "none"
      /\ returned'[p] = << >> /\ overlooked'[p] = {}
  BY ProcTypes DEF EInv, EmissionTypeOK, Forget, Release
<1>2. EmissionOK(p)'
  BY <1>1 DEF EmissionOK, CacheOK, Invoking, Iterating
<1>3. \A q \in Procs \ {p} : Same(q)
  BY OthersSame DEF Step, Forget, EInv, EmissionTypeOK
<1>4. EmissionTypeOK'
  BY DEF EInv, EmissionTypeOK, Forget
<1> QED BY <1>1, <1>2, <1>3, <1>4, ReleaseReads, OwnStepEInv DEF EInv, Forget

-----------------------------------------------------------------------------
(* The invariant holds initially and through every step.                     *)

LEMMA InitEInv == EmissionInit => EInv
<1> SUFFICES ASSUME EmissionInit PROVE EInv
  OBVIOUS
<1>1. IInv /\ ListsInv
  BY InitIInv, InitLists DEF EmissionInit
<1>2. EmissionTypeOK
  BY DEF EmissionInit, EmissionTypeOK
<1>3. OwnConnection
  BY DEF EmissionInit, Init, OwnConnection, ToSet
<1>4. \A p \in Procs : EmissionOK(p)
  BY DEF EmissionInit, Init, EmissionOK, CacheOK, Invoking, Iterating
<1> QED BY <1>1, <1>2, <1>3, <1>4 DEF EInv

LEMMA NextEInv ==
  ASSUME EInv, [EmissionNext]_allVars
  PROVE  EInv'
<1>1. ASSUME NEW b \in Bodies, NEW position \in Positions,
             Undisturbed({}) /\ connect_extended(b, position)
      PROVE  EInv'
  BY <1>1, UndisturbedUnread, ConnectEInv DEF connect_extended
<1>2. ASSUME NEW b \in Bodies \ Extended, NEW position \in Positions,
             Undisturbed({}) /\ Connect(b, position) /\ UNCHANGED emissionVars
      PROVE  EInv'
  BY <1>2, UndisturbedUnread, ConnectEInv DEF emissionVars
<1>3. ASSUME UNCHANGED emissionVars,
             \/ \E b \in Bodies : Disconnect(b) \/ Connected(b) \/ Block(b) \/ Unblock(b)
             \/ \E o \in Objs : DropObject(o)
             \/ \E c \in Combiners : SetCombiner(c)
      PROVE  EInv'
  BY <1>3, FreeEInv DEF QuietEnvironment
<1>4. ASSUME NEW p \in Procs, Undisturbed({}) /\ Invoke(p) /\ UNCHANGED emissionVars
      PROVE  EInv'
  BY <1>4, UndisturbedUnread, InvokeEInv
<1>5. ASSUME NEW p \in Procs,
             \/ Reach(p) \/ dereference(p) \/ dereference_expired(p)
             \/ Return(p) \/ Leave(p) \/ Forget(p)
      PROVE  EInv'
  BY <1>5, ReachEInv, DereferenceEInv, ExpiredEInv, ReturnEInv, LeaveEInv, ForgetEInv
<1>6. ASSUME NEW p \in Procs, increment(p)
      PROVE  EInv'
  BY <1>6, MoveEInv DEF increment
<1>7. ASSUME NEW p \in Procs, Skip(p), UNCHANGED emissionVars
      PROVE  EInv'
  <2>1. result[p] = None /\ ~tried[p]
    BY <1>7 DEF Skip, EInv, EmissionOK, CacheOK
  <2>2. result' = [result EXCEPT ![p] = None] /\ tried' = [tried EXCEPT ![p] = FALSE]
    BY <1>7, <2>1 DEF EInv, EmissionTypeOK, emissionVars
  <2> QED BY <1>7, <2>2, MoveEInv DEF Skip, emissionVars
<1>8. ASSUME NEW p \in Procs, CacheDtor(p), UNCHANGED emissionVars
      PROVE  EInv'
  BY <1>8, CacheDtorEInv
<1>9. ASSUME NEW p \in Procs, Undisturbed({q \in {p} : active[q] = None}), Janitor(p),
             UNCHANGED emissionVars
      PROVE  EInv'
  BY <1>9, JanitorEInv
<1>10. CASE UNCHANGED allVars
  <2>1. UNCHANGED vars /\ UNCHANGED emissionVars
    BY <1>10 DEF allVars
  <2>2. NoneConnected /\ UNCHANGED listVars /\ UNCHANGED procVars
    BY <2>1 DEF vars, bodyVars, NoneConnected
  <2>3. IInv'
    BY <2>1, BodiesInIInv, BodyStep DEF EInv, IInv, TypeOK, vars, bodyVars
  <2>4. SignalKept /\ Shrunk
    BY <2>2, <2>3, QuietKept DEF EInv, SignalKept
  <2>5. OwnConnection'
    BY <2>1, <2>4, OwnKept DEF EInv, emissionVars, vars, bodyVars
  <2>6. EmissionTypeOK'
    BY <2>1 DEF EInv, EmissionTypeOK, emissionVars, combinerVars
  <2> QED BY <2>1, <2>2, <2>4, <2>5, <2>6, FreeStepEInv DEF emissionVars
<1> QED BY <1>1, <1>2, <1>3, <1>4, <1>5, <1>6, <1>7, <1>8, <1>9, <1>10 DEF EmissionNext

(* Every reachable state of invocations, combiners and extended slots        *)
(* satisfies the invariant, also where set_combiner is called.               *)
THEOREM EmissionInvariant == EmissionSpec => []EInv
<1>1. EInv /\ [EmissionNext]_allVars => EInv'
  BY NextEInv
<1> QED BY InitEInv, <1>1, PTL DEF EmissionSpec

(* The result in the cache is that of the slot the iterator is at, and an    *)
(* invocation runs a slot at most once and in the order of its list,         *)
(* whatever its combiner does with the iterators and however the list and    *)
(* the slots are changed meanwhile.                                          *)
THEOREM RunsInOrder == EmissionSpec => []RunOnceInOrder
<1>1. EInv => RunOnceInOrder
  BY DEF EInv, EmissionOK, CacheOK, InOrder, ListOf, RunOnceInOrder
<1> QED BY <1>1, EmissionInvariant, PTL

(* The library's combiners return the value of the last slot that returned,  *)
(* have none only when no slot did, and leave out no connected slot but      *)
(* those that were blocked when the invocation reached them.                 *)
THEOREM LastValueCorrect == EmissionSpec => []LastValueReturned
<1>1. EInv => LastValueReturned
  <2> SUFFICES ASSUME EInv, NEW p \in Procs, local[p] # None, Library
               PROVE  LibraryOK(p)
    BY DEF LastValueReturned, LibraryOK, NoneLeftOut, Accounted, ListOf
  <2> QED BY DEF EInv, IInv, ProcessOK, EmissionOK
<1> QED BY <1>1, EmissionInvariant, PTL

(* An extended slot has its own connection when it runs, whoever invokes the *)
(* signal and whenever.                                                      *)
THEOREM ExtendedSlotsCorrect == EmissionSpec => []ExtendedSlotFindsItself
<1>1. EInv => ExtendedSlotFindsItself
  BY DEF EInv, EmissionOK, ExtendedSlotFindsItself
<1> QED BY <1>1, EmissionInvariant, PTL

(* Also where set_combiner is called: no connection is lost.                 *)
THEOREM EmissionKeepsConnections == EmissionSpec => []NoConnectionLost
<1>1. EInv => NoConnectionLost
  BY ListTypes, UnrepeatedCardinality DEF EInv, ListsInv, GoodList, NoConnectionLost
<1> QED BY <1>1, EmissionInvariant, PTL
=============================================================================
