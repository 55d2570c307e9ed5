-------------------------- MODULE DestructorsProofs --------------------------
(* Proofs about which destructors run where, for any number of threads,      *)
(* bodies and objects, and slots that track any sequence of objects.         *)
EXTENDS Destructors, FiniteSetTheorems, TLAPS

-----------------------------------------------------------------------------
(* The inductive invariant.                                                  *)

BodyRecord == [connected : BOOLEAN, refcount : Nat, slot : BOOLEAN]

TypeOK ==
    /\ mutex \in Threads \cup {None}
    /\ body \in [Bodies -> BodyRecord]
    /\ owned \in [Objs -> SUBSET Threads]
    /\ destroyed \subseteq Bodies \cup Objs
    /\ op \in [Threads -> Kinds \cup {"none"}]
    /\ at \in [Threads -> Bodies \cup {None}]
    /\ pc \in [Threads -> {"idle", "clear", "lock", "locked", "unlocked"}]
    /\ todo \in [Threads -> Seq(Objs)]
    /\ temp \in [Threads -> Objs \cup {None}]
    /\ kept \in [Threads -> SUBSET Objs]
    /\ active \in [Threads -> Bodies \cup {None}]
    /\ calling \in [Threads -> Bodies \cup {None}]
    /\ garbage \in [Threads -> SUBSET Bodies]
    /\ dtor \in [Threads -> Bodies \cup Objs \cup {Local, None}]

(* Who holds the mutex, and what it is at in its critical section.           *)
ThreadOK(t) ==
    /\ mutex = t <=> pc[t] = "locked"
    /\ pc[t] = "clear" => op[t] \in {"next", "end"}
    /\ pc[t] # "idle" /\ op[t] # "set_combiner" => at[t] \in Bodies
    /\ todo[t] # << >> => pc[t] = "locked" /\ op[t] \in {"connected", "next", "disconnect_slot"}
    /\ temp[t] # None =>
          todo[t] # << >> /\ temp[t] = Head(todo[t]) /\ (op[t] = "next" => temp[t] \in kept[t])
    /\ dtor[t] # None /\ pc[t] = "locked" =>
          \/ op[t] \in {"connected", "disconnect_slot"} /\ dtor[t] \in Objs
          \/ op[t] \in {"connect", "set_combiner"} /\ dtor[t] = Local

ThreadsInv == \A t \in Threads : ThreadOK(t)

(* The slot a thread runs is its active one, and its tracked objects are     *)
(* kept.  On the way there, in lock_next_callable, each of them has been     *)
(* locked or is still to be.                                                 *)
AllKept(t, b) == \A i \in DOMAIN Tracked[b] : Tracked[b][i] \in kept[t]

CallOK(t) ==
    /\ calling[t] # None =>
          /\ calling[t] = active[t] /\ AllKept(t, calling[t])
          /\ pc[t] = "idle" \/ op[t] \notin {"next", "end"} \/ (op[t] = "next" /\ pc[t] = "unlocked")
    /\ op[t] = "next" /\ pc[t] = "locked" /\ body[at[t]].connected =>
          \A i \in DOMAIN Tracked[at[t]] :
              \/ Tracked[at[t]][i] \in kept[t]
              \/ \E j \in DOMAIN todo[t] : todo[t][j] = Tracked[at[t]][i]

CallsInv == \A t \in Threads : CallOK(t)

(* The count of a slot is exact: the connection, and the threads at it.      *)
UsersIn(act, b) == {t \in Threads : act[t] = b}

Exact(r, n) ==
    /\ r.refcount = n + IF r.connected THEN 1 ELSE 0
    /\ r.slot <=> r.refcount # 0

(* A slot is in one place. *)
InOnePlace(b) ==
    /\ body[b].slot => b \notin destroyed /\ \A t \in Threads : b \notin garbage[t]
    /\ b \in destroyed => \A t \in Threads : b \notin garbage[t]
    /\ \A t, u \in Threads : b \in garbage[t] /\ b \in garbage[u] => t = u
    /\ body[b].slot \/ b \in destroyed \/ \E t \in Threads : b \in garbage[t]

BodiesInv ==
    \A b \in Bodies : Exact(body[b], Cardinality(UsersIn(active, b))) /\ InOnePlace(b)

(* An object whose destructor has run is not referred to, and an object that *)
(* nothing refers to has been destroyed.                                     *)
ObjectsInv == \A o \in Objs : o \in destroyed <=> ~Alive(o)

IInv ==
    /\ TypeOK
    /\ ThreadsInv
    /\ CallsInv
    /\ BodiesInv
    /\ ObjectsInv

-----------------------------------------------------------------------------
(* Reference counts of slots.                                                *)

LEMMA DecExact ==
  ASSUME NEW r \in BodyRecord, NEW n \in Nat, Exact(r, n + 1)
  PROVE  /\ dec_slot_refcount(r) \in BodyRecord
         /\ dec_slot_refcount(r).connected = r.connected
         /\ Exact(dec_slot_refcount(r), n)
<1>1. /\ r.connected \in BOOLEAN /\ r.refcount \in Nat /\ r.slot \in BOOLEAN
  BY DEF BodyRecord
<1>2. r.refcount = n + 1 + (IF r.connected THEN 1 ELSE 0) /\ r.slot
  BY <1>1 DEF Exact
<1>3. r.refcount - 1 \in Nat
  BY <1>1, <1>2
<1> QED BY <1>1, <1>2, <1>3 DEF BodyRecord, Exact, dec_slot_refcount

LEMMA IncExact ==
  ASSUME NEW r \in BodyRecord, NEW n \in Nat, Exact(r, n), r.connected
  PROVE  /\ inc_slot_refcount(r) \in BodyRecord
         /\ inc_slot_refcount(r).connected = r.connected
         /\ Exact(inc_slot_refcount(r), n + 1)
<1>1. /\ r.connected \in BOOLEAN /\ r.refcount \in Nat /\ r.slot \in BOOLEAN
  BY DEF BodyRecord
<1> DEFINE i == inc_slot_refcount(r)
<1>5. i = [r EXCEPT !.refcount = r.refcount + 1] /\ r.refcount + 1 \in Nat
  BY <1>1 DEF inc_slot_refcount
<1> HIDE DEF i
<1>2. /\ i \in BodyRecord /\ i.connected = r.connected /\ i.slot = r.slot
      /\ i.refcount = r.refcount + 1
  BY <1>5 DEF BodyRecord
<1>3. r.refcount = n + 1 /\ r.slot
  BY <1>1 DEF Exact
<1>4. Exact(i, n + 1)
  BY <1>1, <1>2, <1>3 DEF Exact
<1> QED BY <1>2, <1>4 DEF i

(* Disconnecting brings no count back from 0. *)
LEMMA DisconnectExact ==
  ASSUME NEW r \in BodyRecord, NEW n \in Nat, Exact(r, n)
  PROVE  /\ nolock_disconnect(r) \in BodyRecord
         /\ Exact(nolock_disconnect(r), n)
         /\ r.refcount = 0 => nolock_disconnect(r).refcount = 0
         /\ nolock_disconnect(r).connected => r.connected
<1> DEFINE d == [r EXCEPT !.connected = FALSE]
<1>1. r.connected \in BOOLEAN /\ r.refcount \in Nat
  BY DEF BodyRecord
<1>2. d \in BodyRecord /\ ~d.connected /\ d.refcount = r.refcount /\ d.slot = r.slot
  BY DEF BodyRecord
<1> HIDE DEF d
<1>3. CASE r.connected
  <2>1. Exact(d, n + 1) /\ r.refcount # 0
    BY <1>1, <1>2, <1>3 DEF Exact
  <2>2. dec_slot_refcount(d) \in BodyRecord /\ Exact(dec_slot_refcount(d), n)
    BY <1>2, <2>1, DecExact
  <2>3. nolock_disconnect(r) = dec_slot_refcount(d)
    BY <1>3 DEF nolock_disconnect, d
  <2> QED BY <1>3, <2>1, <2>2, <2>3
<1>4. CASE ~r.connected
  BY <1>4 DEF nolock_disconnect
<1> QED BY <1>1, <1>3, <1>4

LEMMA UsersFinite ==
  ASSUME NEW act, NEW b
  PROVE  IsFiniteSet(UsersIn(act, b)) /\ Cardinality(UsersIn(act, b)) \in Nat
<1>1. UsersIn(act, b) \in SUBSET Threads
  BY DEF UsersIn
<1>2. IsFiniteSet(UsersIn(act, b))
  BY <1>1, FS_Subset, DestructorsAssumption
<1> QED BY <1>2, FS_CardinalityType

LEMMA UsersMoved ==
  ASSUME NEW act \in [Threads -> Bodies \cup {None}], NEW t \in Threads,
         NEW new \in Bodies \cup {None}, NEW b \in Bodies
  PROVE  LET before == Cardinality(UsersIn(act, b))
             after  == Cardinality(UsersIn([act EXCEPT ![t] = new], b))
         IN  /\ b = new /\ b # act[t] => after = before + 1
             /\ b # new /\ b = act[t] => before = after + 1
             /\ (b = new <=> b = act[t]) => after = before
<1> DEFINE U == UsersIn(act, b)
           V == UsersIn([act EXCEPT ![t] = new], b)
<1>1. IsFiniteSet(U) /\ IsFiniteSet(V)
  BY UsersFinite
<1>2. CASE b = new /\ b # act[t]
  <2>1. V = U \cup {t} /\ t \notin U
    BY <1>2 DEF UsersIn
  <2> QED BY <1>1, <1>2, <2>1, FS_AddElement
<1>3. CASE b # new /\ b = act[t]
  <2>1. U = V \cup {t} /\ t \notin V
    BY <1>3 DEF UsersIn
  <2> HIDE DEF U, V
  <2>2. Cardinality(U) = Cardinality(V) + 1
    BY <1>1, <2>1, FS_AddElement
  <2> QED BY <1>3, <2>2 DEF U, V
<1>4. CASE b = new <=> b = act[t]
  <2>1. V = U
    BY <1>4 DEF UsersIn
  <2> QED BY <1>4, <2>1
<1> QED BY <1>2, <1>3, <1>4

(* set_active_slot moves one user; it brings no count back from 0.           *)
LEMMA SetActiveExact ==
  ASSUME TypeOK, BodiesInv, NEW t \in Threads, NEW new \in Bodies \cup {None},
         new # None => body[new].connected, NEW b \in Bodies
  PROVE  LET r == set_active_slot(t, body, new)[b]
         IN  /\ r \in BodyRecord
             /\ Exact(r, Cardinality(UsersIn([active EXCEPT ![t] = new], b)))
             /\ body[b].refcount = 0 => r.refcount = 0
             /\ r.connected = body[b].connected
<1> DEFINE n == Cardinality(UsersIn(active, b))
           m == Cardinality(UsersIn([active EXCEPT ![t] = new], b))
           q == IF b = active[t] THEN dec_slot_refcount(body[b]) ELSE body[b]
           r == set_active_slot(t, body, new)[b]
<1>1. n \in Nat /\ m \in Nat
  BY UsersFinite
<1>2. body[b] \in BodyRecord /\ Exact(body[b], n)
  BY DEF TypeOK, BodiesInv
<1>3. /\ b = new /\ b # active[t] => m = n + 1
      /\ b # new /\ b = active[t] => n = m + 1
      /\ (b = new <=> b = active[t]) => m = n
  BY UsersMoved DEF TypeOK
<1>4. r = IF b = new THEN inc_slot_refcount(q) ELSE q
  BY DEF set_active_slot
<1>5. b = new => body[b].connected
  BY DestructorsAssumption
<1>6. b = active[t] => n # 0
  <2>1. b = active[t] => t \in UsersIn(active, b)
    BY DEF UsersIn
  <2>2. b = active[t] => UsersIn(active, b) # {}
    BY <2>1
  <2> QED BY <2>2, UsersFinite, FS_EmptySet
<1>7. body[b].refcount = 0 => b # new /\ b # active[t]
  BY <1>1, <1>2, <1>5, <1>6 DEF Exact, BodyRecord
<1> SUFFICES /\ r \in BodyRecord /\ Exact(r, m)
             /\ body[b].refcount = 0 => r.refcount = 0
             /\ r.connected = body[b].connected
  OBVIOUS
<1> HIDE DEF n, m, r
<1>8. CASE b = active[t]
  <2>1. n - 1 \in Nat /\ (n - 1) + 1 = n
    BY <1>1, <1>6, <1>8
  <2>2. q \in BodyRecord /\ q.connected = body[b].connected /\ Exact(q, n - 1)
    BY <1>2, <1>8, <2>1, DecExact
  <2> HIDE DEF q
  <2>3. CASE b = new
    <3>1. /\ inc_slot_refcount(q) \in BodyRecord /\ Exact(inc_slot_refcount(q), n)
          /\ inc_slot_refcount(q).connected = q.connected
      BY <1>5, <2>1, <2>2, <2>3, IncExact
    <3> QED BY <1>3, <1>4, <1>7, <1>8, <2>2, <2>3, <3>1
  <2>4. CASE b # new
    <3>1. m = n - 1
      BY <1>1, <1>3, <1>8, <2>4
    <3> QED BY <1>4, <1>7, <1>8, <2>2, <2>4, <3>1
  <2> QED BY <2>3, <2>4
<1>9. CASE b # active[t]
  <2>1. q = body[b]
    BY <1>9
  <2> HIDE DEF q
  <2>2. CASE b = new
    <3>1. /\ inc_slot_refcount(q) \in BodyRecord /\ Exact(inc_slot_refcount(q), n + 1)
          /\ inc_slot_refcount(q).connected = q.connected
      BY <1>1, <1>2, <1>5, <2>1, <2>2, IncExact
    <3> QED BY <1>3, <1>4, <1>7, <1>9, <2>1, <2>2, <3>1
  <2>3. CASE b # new
    BY <1>2, <1>3, <1>4, <1>9, <2>1, <2>3
  <2> QED BY <2>2, <2>3
<1> QED BY <1>8, <1>9

-----------------------------------------------------------------------------
(* What a step leaves alone.                                                 *)

LEMMA BodiesSame ==
  ASSUME IInv, UNCHANGED <<body, active, garbage>>,
         \A b \in Bodies : b \in destroyed' <=> b \in destroyed
  PROVE  BodiesInv'
<1>1. \A b \in Bodies : InOnePlace(b)'
  BY DEF IInv, BodiesInv, InOnePlace
<1>2. \A b \in Bodies : Exact(body'[b], Cardinality(UsersIn(active', b)))
  BY DEF IInv, BodiesInv
<1> QED BY <1>1, <1>2 DEF BodiesInv

LEMMA ObjectsSame ==
  ASSUME IInv, UNCHANGED <<owned, temp, kept>>,
         \A o \in Objs : o \in destroyed' <=> o \in destroyed
  PROVE  ObjectsInv'
BY DEF IInv, ObjectsInv, Alive

(* The slots whose count reaches 0 go to the garbage of the thread. *)
LEMMA BodiesTrashed ==
  ASSUME IInv, NEW t \in Threads, Trash(t), UNCHANGED destroyed,
         \A b \in Bodies : /\ body'[b] \in BodyRecord
                           /\ Exact(body'[b], Cardinality(UsersIn(active', b)))
                           /\ body[b].refcount = 0 => body'[b].refcount = 0
  PROVE  BodiesInv' /\ garbage' \in [Threads -> SUBSET Bodies]
<1>1. garbage' = [garbage EXCEPT ![t] = @ \cup
                     {b \in Bodies : body[b].refcount # 0 /\ body'[b].refcount = 0}]
  BY DEF Trash
<1>2. garbage \in [Threads -> SUBSET Bodies] /\ garbage' \in [Threads -> SUBSET Bodies]
  BY <1>1 DEF IInv, TypeOK
<1>3. ASSUME NEW b \in Bodies
      PROVE  InOnePlace(b)'
  <2>1. InOnePlace(b) /\ (body[b].slot <=> body[b].refcount # 0)
    BY DEF IInv, BodiesInv, Exact
  <2>2. body'[b].slot <=> body'[b].refcount # 0
    BY DEF Exact
  <2>3. \A u \in Threads \ {t} : garbage'[u] = garbage[u]
    BY <1>1, <1>2
  <2>4. b \in garbage'[t] <=>
          b \in garbage[t] \/ (body[b].refcount # 0 /\ body'[b].refcount = 0)
    BY <1>1, <1>2
  <2>5. CASE body[b].refcount # 0 /\ body'[b].refcount = 0
    <3>1. /\ ~body'[b].slot /\ b \notin destroyed'
          /\ b \in garbage'[t] /\ \A u \in Threads \ {t} : b \notin garbage'[u]
      BY <2>1, <2>2, <2>3, <2>4, <2>5 DEF InOnePlace
    <3> QED BY <3>1 DEF InOnePlace
  <2>6. CASE ~(body[b].refcount # 0 /\ body'[b].refcount = 0)
    <3>1. /\ body'[b].slot <=> body[b].slot
          /\ \A u \in Threads : b \in garbage'[u] <=> b \in garbage[u]
      BY <2>1, <2>2, <2>3, <2>4, <2>6
    <3> QED BY <2>1, <3>1 DEF InOnePlace
  <2> QED BY <2>5, <2>6
<1> QED BY <1>2, <1>3 DEF BodiesInv

(* The effect of EnterDestructor when a reference to an object is dropped.   *)
LEMMA ObjectDropped ==
  ASSUME IInv, NEW t \in Threads, NEW o \in Objs, Alive(o), EnterDestructor(t, o),
         \A x \in Objs \ {o} : Alive(x)' <=> Alive(x)
  PROVE  /\ ObjectsInv'
         /\ destroyed' \subseteq Bodies \cup Objs
         /\ \A b \in Bodies : b \in destroyed' <=> b \in destroyed
         /\ dtor' \in {dtor, [dtor EXCEPT ![t] = o]}
         /\ Alive(o)' => dtor' = dtor
<1>1. o \notin destroyed /\ o \notin Bodies /\ destroyed \subseteq Bodies \cup Objs
  BY DestructorsAssumption DEF IInv, TypeOK, ObjectsInv
<1>2. CASE Alive(o)'
  <2>1. UNCHANGED <<dtor, destroyed>>
    BY <1>2 DEF EnterDestructor
  <2>2. ObjectsInv'
    BY <1>1, <1>2, <2>1 DEF IInv, ObjectsInv
  <2> QED BY <1>1, <2>1, <2>2
<1>3. CASE ~Alive(o)'
  <2>1. dtor' = [dtor EXCEPT ![t] = o] /\ destroyed' = destroyed \cup {o}
    BY <1>3 DEF EnterDestructor
  <2>2. ObjectsInv'
    BY <1>3, <2>1 DEF IInv, ObjectsInv
  <2> QED BY <1>1, <1>3, <2>1, <2>2
<1> QED BY <1>2, <1>3

(* A thread that does not move. *)
Still(u) ==
    /\ mutex' = u <=> mutex = u
    /\ op'[u] = op[u] /\ at'[u] = at[u] /\ pc'[u] = pc[u] /\ todo'[u] = todo[u]
    /\ temp'[u] = temp[u] /\ kept'[u] = kept[u] /\ dtor'[u] = dtor[u]
    /\ active'[u] = active[u] /\ calling'[u] = calling[u]

(* No critical section here connects a body. *)
NoneConnected == \A b \in Bodies : body'[b].connected => body[b].connected

LEMMA OthersStill ==
  ASSUME IInv, NEW t \in Threads, \A u \in Threads \ {t} : Still(u), NoneConnected,
         ThreadOK(t)', CallOK(t)'
  PROVE  ThreadsInv' /\ CallsInv'
<1>1. \A u \in Threads \ {t} : ThreadOK(u)'
  BY DEF IInv, ThreadsInv, ThreadOK, Still
<1>2. ASSUME NEW u \in Threads \ {t}
      PROVE  CallOK(u)'
  <2>1. ThreadOK(u) /\ CallOK(u) /\ Still(u)
    BY DEF IInv, ThreadsInv, CallsInv
  <2>2. calling'[u] # None =>
          /\ calling'[u] = active'[u] /\ AllKept(u, calling[u])'
          /\ \/ pc'[u] = "idle" \/ op'[u] \notin {"next", "end"}
             \/ op'[u] = "next" /\ pc'[u] = "unlocked"
    BY <2>1 DEF CallOK, Still, AllKept
  <2>3. op'[u] = "next" /\ pc'[u] = "locked" /\ body'[at'[u]].connected =>
          /\ op[u] = "next" /\ pc[u] = "locked" /\ body[at[u]].connected
    BY <2>1 DEF ThreadOK, Still, NoneConnected
  <2> QED BY <2>1, <2>2, <2>3 DEF CallOK, Still, AllKept
<1> QED BY <1>1, <1>2 DEF ThreadsInv, CallsInv

(* Steps that leave the thread's call alone. *)
LEMMA CallSame ==
  ASSUME IInv, NEW t \in Threads, pc'[t] # "locked",
         active'[t] = active[t], calling'[t] = calling[t], kept'[t] = kept[t],
         calling[t] # None => pc'[t] = "idle" \/ op'[t] \notin {"next", "end"}
  PROVE  CallOK(t)'
BY DEF IInv, CallsInv, CallOK, AllKept

LEMMA CallUnchanged ==
  ASSUME IInv, NEW t \in Threads, UNCHANGED <<body, op, at, pc, todo, kept, active, calling>>
  PROVE  CallOK(t)' /\ NoneConnected
BY DEF IInv, CallsInv, CallOK, AllKept, NoneConnected

(* A step that disconnects at most one body. *)
LEMMA BodiesDisconnected ==
  ASSUME IInv, NEW c, UNCHANGED active,
         \/ c \in Bodies /\ body' = [body EXCEPT ![c] = nolock_disconnect(body[c])]
         \/ body' = body
  PROVE  /\ \A b \in Bodies : /\ body'[b] \in BodyRecord
                              /\ Exact(body'[b], Cardinality(UsersIn(active', b)))
                              /\ body[b].refcount = 0 => body'[b].refcount = 0
         /\ body' \in [Bodies -> BodyRecord]
         /\ NoneConnected
<1>1. ASSUME NEW b \in Bodies
      PROVE  /\ body'[b] \in BodyRecord
             /\ Exact(body'[b], Cardinality(UsersIn(active', b)))
             /\ body[b].refcount = 0 => body'[b].refcount = 0
             /\ body'[b].connected => body[b].connected
  <2>1. /\ body[b] \in BodyRecord /\ Exact(body[b], Cardinality(UsersIn(active, b)))
        /\ Cardinality(UsersIn(active, b)) \in Nat
    BY UsersFinite DEF IInv, TypeOK, BodiesInv
  <2>2. body'[b] \in {body[b], nolock_disconnect(body[b])}
    BY DEF IInv, TypeOK
  <2>3. CASE body'[b] = body[b]
    BY <2>1, <2>3
  <2>4. CASE body'[b] = nolock_disconnect(body[b])
    BY <2>1, <2>4, DisconnectExact
  <2> QED BY <2>2, <2>3, <2>4
<1>2. body' = [b \in Bodies |-> body'[b]]
  BY DEF IInv, TypeOK
<1>3. body' \in [Bodies -> BodyRecord]
  BY <1>1, <1>2
<1> QED BY <1>1, <1>3 DEF NoneConnected

-----------------------------------------------------------------------------
(* The steps.                                                                *)

LEMMA BeginStep ==
  ASSUME IInv, NEW t \in Threads, NEW kind \in Kinds, NEW b \in Bodies, Begin(t, kind, b)
  PROVE  IInv'
<1>1. /\ dtor[t] = None /\ pc[t] = "idle"
      /\ op' = [op EXCEPT ![t] = kind]
      /\ at' = [at EXCEPT ![t] = IF kind = "set_combiner" THEN None ELSE b]
      /\ \/ pc' = [pc EXCEPT ![t] = "lock"]
         \/ pc' = [pc EXCEPT ![t] = "clear"] /\ kind \in {"next", "end"}
      /\ calling' = [calling EXCEPT ![t] = IF kind \in {"next", "end"} THEN None ELSE calling[t]]
      /\ UNCHANGED <<mutex, body, owned, destroyed, todo, temp, kept, active, garbage, dtor>>
  BY DEF Begin, Running
<1>2. /\ op'[t] = kind /\ pc'[t] \in {"clear", "lock"}
      /\ calling'[t] = IF kind \in {"next", "end"} THEN None ELSE calling[t]
  BY <1>1 DEF IInv, TypeOK
<1>3. TypeOK'
  BY <1>1 DEF IInv, TypeOK
<1>4. ThreadOK(t)'
  BY <1>1, DestructorsAssumption DEF IInv, TypeOK, ThreadsInv, ThreadOK
<1>5. CallOK(t)'
  BY <1>1, <1>2 DEF IInv, CallsInv, CallOK, AllKept
<1>6. \A u \in Threads \ {t} : Still(u)
  BY <1>1 DEF IInv, TypeOK, Still
<1>7. NoneConnected
  BY <1>1 DEF NoneConnected
<1> QED BY <1>1, <1>3, <1>4, <1>5, <1>6, <1>7, OthersStill, BodiesSame, ObjectsSame DEF IInv

LEMMA ClearStep ==
  ASSUME IInv, NEW t \in Threads, Clear(t)
  PROVE  IInv'
<1>3. pc[t] = "clear" /\ dtor[t] = None /\ op[t] \in {"next", "end"} /\ calling[t] = None
  BY DEF Clear, Running, IInv, ThreadsInv, ThreadOK, CallsInv, CallOK
<1>1. ASSUME NEW o \in kept[t],
             kept' = [kept EXCEPT ![t] = @ \ {o}],
             UNCHANGED <<mutex, body, owned, op, at, pc, todo, temp, active, calling, garbage>>,
             EnterDestructor(t, o)
      PROVE  IInv'
  <2>1. o \in Objs /\ Alive(o) /\ temp[t] = None
    BY <1>1, <1>3 DEF IInv, TypeOK, Alive, ThreadsInv, ThreadOK
  <2>2. \A u \in Threads : kept'[u] = IF u = t THEN kept[u] \ {o} ELSE kept[u]
    BY <1>1 DEF IInv, TypeOK
  <2>3. \A x \in Objs \ {o} : Alive(x)' <=> Alive(x)
    BY <1>1, <2>2 DEF Alive
  <2>4. /\ ObjectsInv'
        /\ destroyed' \subseteq Bodies \cup Objs
        /\ \A b \in Bodies : b \in destroyed' <=> b \in destroyed
        /\ dtor' \in {dtor, [dtor EXCEPT ![t] = o]}
    BY <1>1, <2>1, <2>3, ObjectDropped
  <2>8. kept' \in [Threads -> SUBSET Objs]
    BY <1>1 DEF IInv, TypeOK
  <2>9. dtor' \in [Threads -> Bodies \cup Objs \cup {Local, None}]
    BY <2>1, <2>4 DEF IInv, TypeOK
  <2>5. TypeOK'
    BY <1>1, <2>4, <2>8, <2>9 DEF IInv, TypeOK
  <2>6. ThreadOK(t)'
    BY <1>1, <1>3, <2>1 DEF IInv, ThreadsInv, ThreadOK
  <2>10. CallOK(t)' /\ NoneConnected
    BY <1>1, <1>3 DEF CallOK, NoneConnected
  <2>7. \A u \in Threads \ {t} : Still(u)
    BY <1>1, <2>2, <2>4 DEF IInv, TypeOK, Still
  <2> QED BY <1>1, <2>4, <2>5, <2>6, <2>7, <2>10, OthersStill, BodiesSame DEF IInv
<1>2. ASSUME \/ pc' = [pc EXCEPT ![t] = "lock"]
             \/ pc' = [pc EXCEPT ![t] = "idle"],
             UNCHANGED <<mutex, body, owned, destroyed, op, at, todo, temp, kept, active,
                         calling, garbage, dtor>>
      PROVE  IInv'
  <2>1. TypeOK'
    BY <1>2 DEF IInv, TypeOK
  <2>2. ThreadOK(t)' /\ pc'[t] # "locked"
    BY <1>2, <1>3 DEF IInv, TypeOK, ThreadsInv, ThreadOK
  <2>3. CallOK(t)' /\ NoneConnected
    BY <1>2, <1>3, <2>2 DEF CallOK, NoneConnected
  <2>4. \A u \in Threads \ {t} : Still(u)
    BY <1>2 DEF IInv, TypeOK, Still
  <2> QED BY <1>2, <2>1, <2>2, <2>3, <2>4, OthersStill, BodiesSame, ObjectsSame DEF IInv
<1> QED BY <1>1, <1>2 DEF Clear

LEMMA LockStep ==
  ASSUME IInv, NEW t \in Threads, Lock(t)
  PROVE  IInv'
<1>1. /\ dtor[t] = None /\ pc[t] = "lock" /\ mutex = None /\ mutex' = t
      /\ pc' = [pc EXCEPT ![t] = "locked"]
      /\ Trash(t)
      /\ UNCHANGED <<owned, destroyed, op, at, temp, kept, active, calling, dtor>>
  BY DEF Lock, Running
<1>2. /\ op[t] # "set_combiner" => at[t] \in Bodies
      /\ temp[t] = None /\ op[t] \in Kinds \cup {"none"}
  BY <1>1 DEF IInv, TypeOK, ThreadsInv, ThreadOK
<1>3. PICK new \in Seq(Objs) :
        /\ todo' = [todo EXCEPT ![t] = new]
        /\ new # << >> => op[t] \in {"connected", "next", "disconnect_slot"}
        /\ op[t] = "next" /\ body[at[t]].slot => new = Tracked[at[t]]
  <2>2. CASE op[t] \in {"connected", "next"} /\ body[at[t]].slot
    <3>1. todo' = [todo EXCEPT ![t] = Tracked[at[t]]]
      BY <2>2 DEF Lock
    <3>2. Tracked[at[t]] \in Seq(Objs)
      BY <1>2, <2>2, DestructorsAssumption
    <3> QED BY <2>2, <3>1, <3>2
  <2>3. CASE op[t] = "disconnect_slot" /\ body[at[t]].connected /\ Wrapped[at[t]] # None
    <3>1. todo' = [todo EXCEPT ![t] = <<Wrapped[at[t]]>>]
      BY <2>3 DEF Lock
    <3>2. <<Wrapped[at[t]]>> \in Seq(Objs)
      BY <1>2, <2>3, DestructorsAssumption
    <3> QED BY <2>3, <3>1, <3>2
  <2>4. CASE /\ ~(op[t] \in {"connected", "next"} /\ body[at[t]].slot)
             /\ ~(op[t] = "disconnect_slot" /\ body[at[t]].connected /\ Wrapped[at[t]] # None)
    <3>1. todo' = [todo EXCEPT ![t] = << >>]
      BY <2>4 DEF Lock
    <3>2. << >> \in Seq(Objs)
      OBVIOUS
    <3> QED BY <2>4, <3>1, <3>2
  <2> QED BY <2>2, <2>3, <2>4
<1>4. /\ \/ at[t] \in Bodies /\ body' = [body EXCEPT ![at[t]] = nolock_disconnect(body[at[t]])]
         \/ body' = body
      /\ op[t] = "next" => body' = body
  BY <1>2 DEF Lock
<1>5. /\ \A b \in Bodies : /\ body'[b] \in BodyRecord
                           /\ Exact(body'[b], Cardinality(UsersIn(active', b)))
                           /\ body[b].refcount = 0 => body'[b].refcount = 0
      /\ body' \in [Bodies -> BodyRecord]
      /\ NoneConnected
  BY <1>1, <1>4, BodiesDisconnected
<1>6. BodiesInv' /\ garbage' \in [Threads -> SUBSET Bodies]
  BY <1>1, <1>5, BodiesTrashed
<1>7. TypeOK'
  BY <1>1, <1>3, <1>5, <1>6 DEF IInv, TypeOK
<1>8. ThreadOK(t)'
  BY <1>1, <1>2, <1>3 DEF IInv, TypeOK, ThreadOK
<1>9. CallOK(t)'
  <2>1. calling[t] # None => op[t] \notin {"next", "end"}
    BY <1>1 DEF IInv, CallsInv, CallOK
  <2>2. op[t] = "next" /\ body[at[t]].connected => todo'[t] = Tracked[at[t]]
    <3>1. op[t] = "next" /\ body[at[t]].connected => body[at[t]].slot
      <4> SUFFICES ASSUME op[t] = "next", body[at[t]].connected PROVE body[at[t]].slot
        OBVIOUS
      <4>1. /\ body[at[t]] \in BodyRecord
            /\ Exact(body[at[t]], Cardinality(UsersIn(active, at[t])))
        BY <1>2 DEF IInv, TypeOK, BodiesInv
      <4>2. Cardinality(UsersIn(active, at[t])) \in Nat
        BY UsersFinite
      <4> QED BY <4>1, <4>2 DEF Exact, BodyRecord
    <3> QED BY <1>3, <3>1 DEF IInv, TypeOK
  <2>3. calling'[t] # None =>
          /\ calling'[t] = active'[t] /\ AllKept(t, calling[t])'
          /\ op'[t] \notin {"next", "end"}
    BY <1>1, <2>1 DEF IInv, CallsInv, CallOK, AllKept
  <2> QED BY <1>1, <1>4, <2>2, <2>3 DEF CallOK, AllKept
<1>10. \A u \in Threads \ {t} : Still(u)
  BY <1>1, <1>3, DestructorsAssumption DEF IInv, TypeOK, Still
<1> QED BY <1>1, <1>5, <1>6, <1>7, <1>8, <1>9, <1>10, OthersStill, ObjectsSame DEF IInv

LEMMA LockObjectStep ==
  ASSUME IInv, NEW t \in Threads, LockObject(t)
  PROVE  IInv'
<1>5. PICK o : o = Head(todo[t])
  OBVIOUS
<1>1. /\ dtor[t] = None /\ pc[t] = "locked" /\ todo[t] # << >> /\ temp[t] = None
      /\ Trash(t)
      /\ UNCHANGED <<mutex, owned, destroyed, op, at, pc, active, calling, dtor>>
  BY DEF LockObject, Running
<1>2. /\ todo[t] \in Seq(Objs) /\ o \in Objs /\ at[t] \in Bodies
      /\ op[t] \in {"connected", "next", "disconnect_slot"}
  <2>1. todo[t] \in Seq(Objs)
    BY DEF IInv, TypeOK
  <2>2. o \in Objs
    BY <1>1, <1>5, <2>1
  <2>3. op[t] \in {"connected", "next", "disconnect_slot"} /\ at[t] \in Bodies
    BY <1>1 DEF IInv, ThreadsInv, ThreadOK
  <2> QED BY <2>1, <2>2, <2>3
<1>6. CallOK(t)
  BY DEF IInv, CallsInv
<1>3. CASE Alive(o)
  <2>1. /\ temp' = [temp EXCEPT ![t] = o]
        /\ kept' = [kept EXCEPT ![t] = IF op[t] = "next" THEN kept[t] \cup {o} ELSE kept[t]]
        /\ UNCHANGED <<body, todo>>
    BY <1>3, <1>5 DEF LockObject
  <2>2. /\ temp'[t] = o
        /\ kept'[t] = IF op[t] = "next" THEN kept[t] \cup {o} ELSE kept[t]
        /\ \A u \in Threads \ {t} : temp'[u] = temp[u] /\ kept'[u] = kept[u]
    BY <2>1 DEF IInv, TypeOK
  <2>3. /\ \A b \in Bodies : /\ body'[b] \in BodyRecord
                             /\ Exact(body'[b], Cardinality(UsersIn(active', b)))
                             /\ body[b].refcount = 0 => body'[b].refcount = 0
        /\ NoneConnected
    BY <1>1, <2>1, BodiesDisconnected
  <2>4. BodiesInv' /\ garbage' \in [Threads -> SUBSET Bodies]
    BY <1>1, <2>3, BodiesTrashed
  <2>5. TypeOK'
    BY <1>1, <1>2, <2>1, <2>4 DEF IInv, TypeOK
  <2>6. \A x \in Objs : Alive(x)' <=> Alive(x)
    <3>1. Alive(o)'
      BY <2>2 DEF Alive
    <3>2. \A x \in Objs \ {o} : Alive(x)' <=> Alive(x)
      <4>1. ASSUME NEW x \in Objs \ {o}, NEW u \in Threads
            PROVE  /\ temp'[u] = x <=> temp[u] = x
                   /\ x \in kept'[u] <=> x \in kept[u]
        BY <1>1, <2>2, DestructorsAssumption
      <4> QED BY <1>1, <4>1 DEF Alive
    <3> QED BY <1>3, <3>1, <3>2
  <2>7. ObjectsInv'
    BY <1>1, <2>6 DEF IInv, ObjectsInv
  <2>8. ThreadOK(t)'
    BY <1>1, <1>2, <1>5, <2>1, <2>2 DEF IInv, ThreadsInv, ThreadOK
  <2>9. CallOK(t)'
    <3>1. kept[t] \subseteq kept'[t]
      BY <2>2
    <3> QED BY <1>1, <1>6, <2>1, <3>1 DEF CallOK, AllKept
  <2>10. \A u \in Threads \ {t} : Still(u)
    BY <1>1, <2>1, <2>2 DEF Still
  <2> QED BY <2>3, <2>4, <2>5, <2>7, <2>8, <2>9, <2>10, OthersStill DEF IInv
<1>4. CASE ~Alive(o)
  <2>1. /\ body' = IF op[t] = "disconnect_slot" THEN body
                   ELSE [body EXCEPT ![at[t]] = nolock_disconnect(body[at[t]])]
        /\ todo' = [todo EXCEPT ![t] = << >>]
        /\ UNCHANGED <<temp, kept>>
    BY <1>4, <1>5 DEF LockObject
  <2>2. /\ \A b \in Bodies : /\ body'[b] \in BodyRecord
                             /\ Exact(body'[b], Cardinality(UsersIn(active', b)))
                             /\ body[b].refcount = 0 => body'[b].refcount = 0
        /\ body' \in [Bodies -> BodyRecord]
        /\ NoneConnected
    BY <1>1, <1>2, <2>1, BodiesDisconnected
  <2>3. BodiesInv' /\ garbage' \in [Threads -> SUBSET Bodies]
    BY <1>1, <2>2, BodiesTrashed
  <2>4. op[t] = "next" => ~body'[at[t]].connected
    <3> SUFFICES ASSUME op[t] = "next" PROVE ~body'[at[t]].connected
      OBVIOUS
    <3>1. /\ body[at[t]] \in BodyRecord
          /\ body'[at[t]] = nolock_disconnect(body[at[t]])
      BY <1>2, <2>1 DEF IInv, TypeOK
    <3> QED BY <3>1 DEF BodyRecord, nolock_disconnect, dec_slot_refcount
  <2>9. todo' \in [Threads -> Seq(Objs)]
    BY <2>1 DEF IInv, TypeOK
  <2>6. TypeOK'
    BY <1>1, <2>1, <2>2, <2>3, <2>9 DEF IInv, TypeOK
  <2>7. ThreadOK(t)'
    BY <1>1, <1>2, <2>1 DEF IInv, TypeOK, ThreadsInv, ThreadOK
  <2>5. CallOK(t)'
    BY <1>1, <1>6, <2>1, <2>4 DEF CallOK, AllKept
  <2>8. \A u \in Threads \ {t} : Still(u)
    BY <1>1, <2>1 DEF IInv, TypeOK, Still
  <2> QED BY <1>1, <2>1, <2>2, <2>3, <2>5, <2>6, <2>7, <2>8, OthersStill, ObjectsSame DEF IInv
<1> QED BY <1>3, <1>4

LEMMA DropTempStep ==
  ASSUME IInv, NEW t \in Threads, DropTemp(t)
  PROVE  IInv'
<1>1. PICK o \in Objs :
        /\ Running(t, "locked")
        /\ temp[t] = o
        /\ temp' = [temp EXCEPT ![t] = None]
        /\ todo' = [todo EXCEPT ![t] = Tail(todo[t])]
        /\ UNCHANGED <<mutex, body, owned, op, at, pc, kept, active, calling, garbage>>
        /\ EnterDestructor(t, o)
  BY DEF DropTemp
<1>2. /\ dtor[t] = None /\ pc[t] = "locked" /\ o # None
      /\ todo[t] # << >> /\ o = Head(todo[t])
      /\ op[t] \in {"connected", "next", "disconnect_slot"} /\ (op[t] = "next" => o \in kept[t])
      /\ at[t] \in Bodies /\ mutex = t
  BY <1>1, DestructorsAssumption DEF Running, IInv, ThreadsInv, ThreadOK
<1>3. todo[t] \in Seq(Objs) /\ Tail(todo[t]) \in Seq(Objs)
  BY <1>2 DEF IInv, TypeOK
<1>4. temp'[t] = None /\ \A u \in Threads \ {t} : temp'[u] = temp[u]
  BY <1>1 DEF IInv, TypeOK
<1>5. Alive(o)
  BY <1>1 DEF Alive
<1>6. \A x \in Objs \ {o} : Alive(x)' <=> Alive(x)
  <2>1. \A x \in Objs \ {o}, u \in Threads : temp'[u] = x <=> temp[u] = x
    BY <1>1, <1>4, DestructorsAssumption
  <2> QED BY <1>1, <2>1 DEF Alive
<1>7. /\ ObjectsInv'
      /\ destroyed' \subseteq Bodies \cup Objs
      /\ \A b \in Bodies : b \in destroyed' <=> b \in destroyed
      /\ dtor' \in {dtor, [dtor EXCEPT ![t] = o]}
      /\ Alive(o)' => dtor' = dtor
  BY <1>1, <1>5, <1>6, ObjectDropped
<1>8. op[t] = "next" => dtor' = dtor
  <2>1. op[t] = "next" => Alive(o)'
    BY <1>1, <1>2 DEF Alive
  <2> QED BY <1>7, <2>1
<1>9. TypeOK'
  BY <1>1, <1>3, <1>7 DEF IInv, TypeOK
<1>10. ThreadOK(t)'
  BY <1>1, <1>2, <1>4, <1>7, <1>8 DEF IInv, TypeOK, ThreadOK
<1>12. CallOK(t)' /\ NoneConnected
  <2>1. todo'[t] = Tail(todo[t])
    BY <1>1 DEF IInv, TypeOK
  <2>2. ASSUME NEW x, op[t] = "next", NEW j \in DOMAIN todo[t], todo[t][j] = x, x \notin kept[t]
        PROVE  \E k \in DOMAIN todo'[t] : todo'[t][k] = x
    <3>1. j # 1
      BY <1>2, <2>2
    <3>2. j - 1 \in DOMAIN Tail(todo[t]) /\ Tail(todo[t])[j - 1] = x
      BY <1>2, <1>3, <2>2, <3>1
    <3> QED BY <2>1, <3>2
  <2>3. CallOK(t)
    BY DEF IInv, CallsInv
  <2>4. calling'[t] # None =>
          /\ calling'[t] = active'[t] /\ AllKept(t, calling[t])'
          /\ op'[t] \notin {"next", "end"}
    BY <1>1, <1>2, <2>3 DEF CallOK, AllKept
  <2>5. ASSUME op[t] = "next", body[at[t]].connected, NEW i \in DOMAIN Tracked[at[t]]
        PROVE  \/ Tracked[at[t]][i] \in kept[t]
               \/ \E k \in DOMAIN todo'[t] : todo'[t][k] = Tracked[at[t]][i]
    <3>1. \/ Tracked[at[t]][i] \in kept[t]
          \/ \E k \in DOMAIN todo[t] : todo[t][k] = Tracked[at[t]][i]
      BY <1>2, <2>3, <2>5 DEF CallOK
    <3> QED BY <2>2, <2>5, <3>1
  <2>6. NoneConnected
    BY <1>1 DEF NoneConnected
  <2> QED BY <1>1, <2>4, <2>5, <2>6 DEF CallOK
<1>11. \A u \in Threads \ {t} : Still(u)
  BY <1>1, <1>4, <1>7 DEF IInv, TypeOK, Still
<1> QED BY <1>1, <1>7, <1>9, <1>10, <1>11, <1>12, OthersStill, BodiesSame DEF IInv

(* Code of the user that runs in the critical section and drops nothing. *)
LEMMA DestroyLocalStep ==
  ASSUME IInv, NEW t \in Threads, DestroyLocal(t)
  PROVE  IInv'
<1>1. /\ dtor[t] = None /\ pc[t] = "locked" /\ op[t] \in {"connect", "set_combiner"}
      /\ dtor' = [dtor EXCEPT ![t] = Local]
      /\ UNCHANGED <<mutex, body, owned, destroyed, op, at, pc, todo, temp, kept, active, calling,
                     garbage>>
  BY DEF DestroyLocal, Running
<1>2. TypeOK'
  BY <1>1 DEF IInv, TypeOK
<1>3. ThreadOK(t)'
  BY <1>1 DEF IInv, TypeOK, ThreadsInv, ThreadOK
<1>4. CallOK(t)' /\ NoneConnected
  BY <1>1, CallUnchanged
<1>5. \A u \in Threads \ {t} : Still(u)
  BY <1>1 DEF IInv, TypeOK, Still
<1> QED BY <1>1, <1>2, <1>3, <1>4, <1>5, OthersStill, BodiesSame, ObjectsSame DEF IInv

LEMMA UnlockStep ==
  ASSUME IInv, NEW t \in Threads, Unlock(t)
  PROVE  IInv'
<1>1. /\ dtor[t] = None /\ pc[t] = "locked" /\ todo[t] = << >>
      /\ Trash(t) /\ mutex' = None
      /\ pc' = [pc EXCEPT ![t] = "unlocked"]
      /\ UNCHANGED <<owned, destroyed, op, at, todo, temp, kept, dtor>>
  BY DEF Unlock, Running
<1>2. mutex = t /\ temp[t] = None /\ (op[t] # "set_combiner" => at[t] \in Bodies)
  BY <1>1 DEF IInv, ThreadsInv, ThreadOK
<1>3. \/ /\ op[t] \in {"disconnect", "disconnect_slot"} /\ at[t] \in Bodies
         /\ body' = [body EXCEPT ![at[t]] = nolock_disconnect(body[at[t]])]
         /\ UNCHANGED <<active, calling>>
      \/ /\ op[t] = "next" /\ at[t] \in Bodies /\ body[at[t]].connected
         /\ body' = set_active_slot(t, body, at[t])
         /\ active' = [active EXCEPT ![t] = at[t]]
         /\ calling' = [calling EXCEPT ![t] = at[t]]
      \/ /\ op[t] = "end"
         /\ body' = set_active_slot(t, body, None)
         /\ active' = [active EXCEPT ![t] = None]
         /\ UNCHANGED calling
      \/ /\ op[t] \in {"connected", "connect", "disconnect_slot", "set_combiner", "next"}
         /\ UNCHANGED <<body, active, calling>>
  BY <1>2 DEF Unlock
<1>12. CallOK(t) /\ pc'[t] = "unlocked"
  BY <1>1 DEF IInv, CallsInv, TypeOK
<1>4. /\ \A b \in Bodies : /\ body'[b] \in BodyRecord
                           /\ Exact(body'[b], Cardinality(UsersIn(active', b)))
                           /\ body[b].refcount = 0 => body'[b].refcount = 0
      /\ body' \in [Bodies -> BodyRecord]
      /\ NoneConnected
  <2>1. ASSUME NEW new \in Bodies \cup {None}, new # None => body[new].connected,
               body' = set_active_slot(t, body, new), active' = [active EXCEPT ![t] = new]
        PROVE  /\ \A b \in Bodies : /\ body'[b] \in BodyRecord
                                    /\ Exact(body'[b], Cardinality(UsersIn(active', b)))
                                    /\ body[b].refcount = 0 => body'[b].refcount = 0
               /\ body' \in [Bodies -> BodyRecord]
               /\ NoneConnected
    <3>1. ASSUME NEW b \in Bodies
          PROVE  /\ body'[b] \in BodyRecord
                 /\ Exact(body'[b], Cardinality(UsersIn(active', b)))
                 /\ body[b].refcount = 0 => body'[b].refcount = 0
                 /\ body'[b].connected = body[b].connected
      BY <2>1, SetActiveExact DEF IInv
    <3>2. body' = [b \in Bodies |-> body'[b]]
      BY <2>1 DEF set_active_slot
    <3> QED BY <3>1, <3>2 DEF NoneConnected
  <2>2. CASE /\ at[t] \in Bodies
             /\ body' = [body EXCEPT ![at[t]] = nolock_disconnect(body[at[t]])]
             /\ UNCHANGED <<active, calling>>
    BY <2>2, BodiesDisconnected
  <2>3. CASE UNCHANGED <<body, active, calling>>
    BY <2>3, BodiesDisconnected
  <2>4. CASE /\ at[t] \in Bodies /\ body[at[t]].connected
             /\ body' = set_active_slot(t, body, at[t])
             /\ active' = [active EXCEPT ![t] = at[t]]
    BY <2>1, <2>4
  <2>5. CASE body' = set_active_slot(t, body, None) /\ active' = [active EXCEPT ![t] = None]
    BY <2>1, <2>5
  <2> QED BY <1>3, <2>2, <2>3, <2>4, <2>5
<1>5. BodiesInv' /\ garbage' \in [Threads -> SUBSET Bodies]
  BY <1>1, <1>4, BodiesTrashed
<1>6. active' \in [Threads -> Bodies \cup {None}] /\ calling' \in [Threads -> Bodies \cup {None}]
  BY <1>3 DEF IInv, TypeOK
<1>7. TypeOK'
  BY <1>1, <1>4, <1>5, <1>6 DEF IInv, TypeOK
<1>8. ThreadOK(t)'
  BY <1>1, <1>2, DestructorsAssumption DEF IInv, TypeOK, ThreadOK
<1>10. CallOK(t)'
  <2>1. calling[t] # None => op[t] \notin {"next", "end"}
    BY <1>1, <1>12 DEF CallOK
  <2>2. CASE op[t] = "next" /\ calling' = [calling EXCEPT ![t] = at[t]]
             /\ active' = [active EXCEPT ![t] = at[t]] /\ body[at[t]].connected
    <3>1. calling'[t] = at[t] /\ active'[t] = at[t]
      BY <2>2 DEF IInv, TypeOK
    <3>2. AllKept(t, at[t])
      BY <1>1, <1>12, <2>2 DEF CallOK, AllKept
    <3> QED BY <1>1, <1>12, <2>2, <3>1, <3>2 DEF CallOK, AllKept
  <2>3. CASE op[t] = "end" /\ UNCHANGED calling
    BY <1>1, <1>12, <2>1, <2>3 DEF CallOK
  <2>4. CASE UNCHANGED <<active, calling>>
    BY <1>1, <1>12, <2>1, <2>4 DEF CallOK, AllKept
  <2> QED BY <1>3, <2>2, <2>3, <2>4
<1>9. \A u \in Threads \ {t} : Still(u)
  BY <1>1, <1>2, <1>3, DestructorsAssumption DEF IInv, TypeOK, Still
<1> QED BY <1>1, <1>4, <1>5, <1>7, <1>8, <1>9, <1>10, OthersStill, ObjectsSame DEF IInv

LEMMA EmptyGarbageStep ==
  ASSUME IInv, NEW t \in Threads, EmptyGarbage(t)
  PROVE  IInv'
<1>1. ASSUME NEW b \in garbage[t], Running(t, "unlocked"),
             garbage' = [garbage EXCEPT ![t] = @ \ {b}],
             dtor' = [dtor EXCEPT ![t] = b],
             destroyed' = destroyed \cup {b},
             UNCHANGED <<mutex, body, owned, op, at, pc, todo, temp, kept, active, calling>>
      PROVE  IInv'
  <2>1. /\ b \in Bodies /\ b \notin Objs /\ pc[t] = "unlocked" /\ dtor[t] = None
        /\ garbage \in [Threads -> SUBSET Bodies]
    BY <1>1, DestructorsAssumption DEF IInv, TypeOK, Running
  <2>2. /\ garbage' \in [Threads -> SUBSET Bodies]
        /\ dtor' \in [Threads -> Bodies \cup Objs \cup {Local, None}]
    BY <1>1, <2>1 DEF IInv, TypeOK
  <2>3. TypeOK'
    BY <1>1, <2>1, <2>2 DEF IInv, TypeOK
  <2>4. \A u \in Threads : garbage'[u] = IF u = t THEN garbage[t] \ {b} ELSE garbage[u]
    BY <1>1, <2>1
  <2>5. \A u \in Threads \ {t} : b \notin garbage[u]
    BY <1>1, <2>1 DEF IInv, BodiesInv, InOnePlace
  <2>6. ~body[b].slot
    BY <1>1, <2>1 DEF IInv, BodiesInv, InOnePlace
  <2>7. InOnePlace(b)'
    BY <1>1, <2>4, <2>5, <2>6 DEF InOnePlace
  <2>8. ASSUME NEW c \in Bodies \ {b} PROVE InOnePlace(c)'
    <3>1. InOnePlace(c)
      BY DEF IInv, BodiesInv
    <3>2. \A u \in Threads : c \in garbage'[u] <=> c \in garbage[u]
      BY <2>4
    <3> QED BY <1>1, <3>1, <3>2 DEF InOnePlace
  <2>9. BodiesInv'
    <3>1. \A c \in Bodies : Exact(body'[c], Cardinality(UsersIn(active', c)))
      BY <1>1 DEF IInv, BodiesInv
    <3> QED BY <2>7, <2>8, <3>1 DEF BodiesInv
  <2>10. ThreadOK(t)'
    BY <1>1, <2>1 DEF IInv, ThreadsInv, ThreadOK
  <2>12. CallOK(t)' /\ NoneConnected
    BY <1>1, CallUnchanged
  <2>11. \A u \in Threads \ {t} : Still(u)
    BY <1>1 DEF IInv, TypeOK, Still
  <2> QED BY <1>1, <2>1, <2>3, <2>9, <2>10, <2>11, <2>12, OthersStill, ObjectsSame DEF IInv
<1>2. ASSUME Running(t, "unlocked"),
             pc' = [pc EXCEPT ![t] = IF op[t] = "end" THEN "clear" ELSE "idle"],
             UNCHANGED <<mutex, body, owned, destroyed, op, at, todo, temp, kept, active,
                         calling, garbage, dtor>>
      PROVE  IInv'
  <2>1. TypeOK'
    BY <1>2 DEF IInv, TypeOK
  <2>2. ThreadOK(t)'
    BY <1>2 DEF IInv, TypeOK, ThreadsInv, ThreadOK, Running
  <2>4. pc'[t] = IF op[t] = "end" THEN "clear" ELSE "idle"
    BY <1>2 DEF IInv, TypeOK
  <2>5. op[t] = "end" => calling[t] = None
    BY <1>2 DEF IInv, CallsInv, CallOK, Running
  <2>6. CallOK(t)'
    BY <1>2, <2>4, <2>5, CallSame
  <2>7. NoneConnected
    BY <1>2 DEF NoneConnected
  <2>3. \A u \in Threads \ {t} : Still(u)
    BY <1>2 DEF IInv, TypeOK, Still
  <2> QED BY <1>2, <2>1, <2>2, <2>3, <2>6, <2>7, OthersStill, BodiesSame, ObjectsSame DEF IInv
<1> QED BY <1>1, <1>2 DEF EmptyGarbage

LEMMA ReturnStep ==
  ASSUME IInv, NEW t \in Threads, Return(t)
  PROVE  IInv'
<1>1. /\ dtor' = [dtor EXCEPT ![t] = None]
      /\ UNCHANGED <<mutex, body, owned, destroyed, op, at, pc, todo, temp, kept, active,
                     calling, garbage>>
  BY DEF Return
<1>2. TypeOK'
  BY <1>1 DEF IInv, TypeOK
<1>3. ThreadOK(t)'
  BY <1>1 DEF IInv, TypeOK, ThreadsInv, ThreadOK
<1>4. CallOK(t)' /\ NoneConnected
  BY <1>1, CallUnchanged
<1>5. \A u \in Threads \ {t} : Still(u)
  BY <1>1 DEF IInv, TypeOK, Still
<1> QED BY <1>1, <1>2, <1>3, <1>4, <1>5, OthersStill, BodiesSame, ObjectsSame DEF IInv

LEMMA DropOwnedStep ==
  ASSUME IInv, NEW t \in Threads, NEW o \in Objs, DropOwned(t, o)
  PROVE  IInv'
<1>1. /\ dtor[t] = None /\ pc[t] = "idle" /\ t \in owned[o]
      /\ owned' = [owned EXCEPT ![o] = @ \ {t}]
      /\ UNCHANGED <<mutex, body, op, at, pc, todo, temp, kept, active, calling, garbage>>
      /\ EnterDestructor(t, o)
  BY DEF DropOwned, Running
<1>2. Alive(o)
  BY <1>1 DEF Alive
<1>3. \A x \in Objs \ {o} : Alive(x)' <=> Alive(x)
  BY <1>1 DEF IInv, TypeOK, Alive
<1>4. /\ ObjectsInv'
      /\ destroyed' \subseteq Bodies \cup Objs
      /\ \A b \in Bodies : b \in destroyed' <=> b \in destroyed
      /\ dtor' \in {dtor, [dtor EXCEPT ![t] = o]}
  BY <1>1, <1>2, <1>3, ObjectDropped
<1>5. owned' \in [Objs -> SUBSET Threads]
  BY <1>1 DEF IInv, TypeOK
<1>6. dtor' \in [Threads -> Bodies \cup Objs \cup {Local, None}]
  BY <1>4 DEF IInv, TypeOK
<1>7. TypeOK'
  BY <1>1, <1>4, <1>5, <1>6 DEF IInv, TypeOK
<1>8. ThreadOK(t)'
  BY <1>1 DEF IInv, ThreadsInv, ThreadOK
<1>10. CallOK(t)' /\ NoneConnected
  BY <1>1, CallUnchanged
<1>9. \A u \in Threads \ {t} : Still(u)
  BY <1>1, <1>4 DEF IInv, TypeOK, Still
<1> QED BY <1>1, <1>4, <1>7, <1>8, <1>9, <1>10, OthersStill, BodiesSame DEF IInv

LEMMA InitIInv == Init => IInv
<1> SUFFICES ASSUME Init PROVE IInv
  OBVIOUS
<1>1. TypeOK
  <2>1. << >> \in Seq(Objs) /\ 1 \in Nat
    OBVIOUS
  <2> QED BY <2>1 DEF Init, TypeOK, BodyRecord
<1>2. ThreadsInv
  BY DestructorsAssumption DEF Init, ThreadsInv, ThreadOK
<1>5. CallsInv
  BY DEF Init, CallsInv, CallOK
<1>3. BodiesInv
  <2> SUFFICES ASSUME NEW b \in Bodies
               PROVE  Exact(body[b], Cardinality(UsersIn(active, b))) /\ InOnePlace(b)
    BY DEF BodiesInv
  <2>1. UsersIn(active, b) = {}
    BY DestructorsAssumption DEF Init, UsersIn
  <2>2. Cardinality(UsersIn(active, b)) = 0
    BY <2>1, FS_EmptySet
  <2>3. Exact(body[b], 0)
    BY DEF Init, Exact
  <2> QED BY <2>2, <2>3 DEF Init, InOnePlace
<1>4. ObjectsInv
  BY DestructorsAssumption DEF Init, ObjectsInv, Alive
<1> QED BY <1>1, <1>2, <1>3, <1>4, <1>5 DEF IInv

LEMMA NextIInv ==
  ASSUME IInv, [Next]_vars
  PROVE  IInv'
<1>1. CASE UNCHANGED vars
  <2>1. TypeOK'
    BY <1>1 DEF vars, IInv, TypeOK
  <2>2. ThreadsInv'
    BY <1>1 DEF vars, IInv, ThreadsInv, ThreadOK
  <2>3. CallsInv'
    BY <1>1 DEF vars, IInv, CallsInv, CallOK, AllKept
  <2> QED BY <1>1, <2>1, <2>2, <2>3, BodiesSame, ObjectsSame DEF vars, IInv
<1> QED BY <1>1, BeginStep, ClearStep, LockStep, LockObjectStep, DropTempStep, DestroyLocalStep,
       UnlockStep, EmptyGarbageStep, ReturnStep, DropOwnedStep DEF Next

-----------------------------------------------------------------------------
(* Every reachable state satisfies the invariant.                            *)
THEOREM DestructorsInvariant == Spec => []IInv
<1>1. IInv /\ [Next]_vars => IInv'
  BY NextIInv
<1> QED BY InitIInv, <1>1, PTL DEF Spec

(* Every critical section that is here destroys no slot, and those of an     *)
(* invocation and of disconnect no object either, in the thread that holds   *)
(* the mutex; connected() and disconnect(slot) may destroy an object there,  *)
(* and connect and set_combiner what they have copied.                       *)
THEOREM DestructorsUnlocked == Spec => []DestructorsRunUnlocked
<1>1. IInv => DestructorsRunUnlocked
  BY DEF IInv, ThreadsInv, ThreadOK, DestructorsRunUnlocked
<1> QED BY <1>1, DestructorsInvariant, PTL

(* Every slot is destroyed once, by one thread, when nobody is at it.        *)
THEOREM SlotsOnce == Spec => []SlotsDestroyedOnce
<1>1. IInv => SlotsDestroyedOnce
  <2> SUFFICES ASSUME IInv, NEW b \in Bodies
               PROVE  /\ Cardinality({t \in Threads : b \in garbage[t]})
                            + (IF body[b].slot THEN 1 ELSE 0)
                            + (IF b \in destroyed THEN 1 ELSE 0) = 1
                      /\ b \in destroyed => \A t \in Threads : active[t] # b
    BY DEF SlotsDestroyedOnce
  <2> DEFINE places == {t \in Threads : b \in garbage[t]}
             users  == UsersIn(active, b)
  <2>1. InOnePlace(b) /\ Exact(body[b], Cardinality(users)) /\ body[b] \in BodyRecord
    BY DEF IInv, BodiesInv, TypeOK
  <2>2. CASE body[b].slot
    <3>1. b \notin destroyed /\ places = {}
      BY <2>1, <2>2 DEF InOnePlace
    <3> QED BY <2>2, <3>1, FS_EmptySet
  <2>3. CASE ~body[b].slot
    <3>1. users = {}
      <4>1. Cardinality(users) = 0
        BY <2>1, <2>3, UsersFinite DEF Exact, BodyRecord
      <4> QED BY <4>1, UsersFinite, FS_EmptySet
    <3>2. \A t \in Threads : active[t] # b
      BY <3>1 DEF UsersIn
    <3>3. CASE b \in destroyed
      <4>1. places = {}
        BY <2>1, <3>3 DEF InOnePlace
      <4> QED BY <2>3, <3>2, <3>3, <4>1, FS_EmptySet
    <3>4. CASE b \notin destroyed
      <4>1. PICK t \in Threads : b \in garbage[t]
        BY <2>1, <2>3, <3>4 DEF InOnePlace
      <4>2. places = {t}
        BY <2>1, <4>1 DEF InOnePlace
      <4> HIDE DEF places
      <4>3. Cardinality(places) = 1
        BY <4>2, FS_Singleton
      <4> QED BY <2>3, <3>4, <4>3 DEF places
    <3> QED BY <3>3, <3>4
  <2> QED BY <2>2, <2>3
<1> QED BY <1>1, DestructorsInvariant, PTL

(* While a slot runs, it and the objects it tracks live.                     *)
THEOREM SlotOutlivesCallAlways == Spec => []SlotOutlivesCall
<1>1. IInv => SlotOutlivesCall
  <2> SUFFICES ASSUME IInv, NEW t \in Threads, calling[t] # None
               PROVE  /\ calling[t] \notin destroyed
                      /\ \A u \in Threads : calling[t] \notin garbage[u]
                      /\ \A i \in DOMAIN Tracked[calling[t]] :
                            Tracked[calling[t]][i] \notin destroyed
    BY DEF SlotOutlivesCall
  <2> DEFINE b == calling[t]
  <2>1. b \in Bodies /\ active[t] = b /\ AllKept(t, b)
    BY DEF IInv, TypeOK, CallsInv, CallOK
  <2> HIDE DEF b
  <2>2. body[b].slot
    <3>1. Exact(body[b], Cardinality(UsersIn(active, b))) /\ body[b] \in BodyRecord
      BY <2>1 DEF IInv, BodiesInv, TypeOK
    <3>2. t \in UsersIn(active, b)
      BY <2>1 DEF UsersIn
    <3>3. Cardinality(UsersIn(active, b)) # 0
      BY <3>2, UsersFinite, FS_EmptySet
    <3> QED BY <3>1, <3>3, UsersFinite DEF Exact, BodyRecord
  <2>3. b \notin destroyed /\ \A u \in Threads : b \notin garbage[u]
    BY <2>1, <2>2 DEF IInv, BodiesInv, InOnePlace
  <2>4. ASSUME NEW i \in DOMAIN Tracked[b]
        PROVE  Tracked[b][i] \notin destroyed
    <3>1. Tracked[b][i] \in Objs /\ Tracked[b][i] \in kept[t]
      BY <2>1, DestructorsAssumption DEF AllKept
    <3> QED BY <3>1 DEF IInv, ObjectsInv, Alive
  <2> QED BY <2>3, <2>4 DEF b
<1> QED BY <1>1, DestructorsInvariant, PTL
=============================================================================
