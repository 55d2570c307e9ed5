----------------------------- MODULE SlotsProofs ------------------------------
(* Proofs about slots that track objects, and about the objects, for any     *)
(* number of objects, invokers, pointers, slots, trackables and threads.     *)
EXTENDS Slots, FiniteSetTheorems, TLAPS

-----------------------------------------------------------------------------
(* The inductive invariant.  First the objects and the pointers to them.     *)

Invoker == [sp : Objs, postconstructed : BOOLEAN]

ObjTypes ==
    /\ obj \in [Objs -> Object]
    /\ invoker \in [Invokers -> Invoker \cup {None}]
    /\ handle \in [Handles -> Objs \cup {None}]
    /\ watched \subseteq Objs

Owned(o, inv, han) ==
    \/ \E i \in Invokers : inv[i] # None /\ inv[i].sp = o
    \/ \E h \in Handles : han[h] = o

Allocated(r) == r.made \in {"deconstruct", "deconstruct_ptr"}

(* An object is alive exactly while it is owned, and its deleter knows.      *)
Sound(r, owned) ==
    /\ r.alive <=> owned
    /\ r.alive => r.built /\ Allocated(r)
    /\ r.pre = IF r.built /\ ~r.alive THEN 1 ELSE 0
    /\ r.made = "no" => ~r.initialized /\ ~r.built /\ r.post = 0
    /\ r.made = "deconstruct" => (r.initialized <=> r.alive)

ObjectsSound == \A o \in Objs : Sound(obj[o], Owned(o, invoker, handle))

(* Whoever has a shared_ptr or a weak_ptr to an object had it from an        *)
(* invoker that has postconstructed it.                                      *)
Postconstructed ==
    /\ \A h \in Handles : handle[h] # None => obj[handle[h]].post >= 1
    /\ \A o \in watched : Allocated(obj[o]) /\ obj[o].post >= 1
    /\ \A i \in Invokers :
          invoker[i] # None /\ invoker[i].postconstructed => obj[invoker[i].sp].post >= 1

(* The invoker of an object that has yet to be postconstructed is the only   *)
(* one, unless it was copied.                                                *)
Once(r, o, inv) ==
    ~r.copied =>
        /\ r.post <= 1
        /\ \A i \in Invokers :
              inv[i] # None /\ inv[i].sp = o /\ ~inv[i].postconstructed =>
                  /\ r.post = 0
                  /\ \A j \in Invokers : inv[j] # None /\ inv[j].sp = o => j = i

OnceInv == \A o \in Objs : Once(obj[o], o, invoker)

ObjInv == ObjTypes /\ ObjectsSound /\ Postconstructed /\ OnceInv

(* Then the slots and their calls.                                           *)

SlotTypes ==
    /\ slot \in [Slots -> Seq(Entry) \cup {None}]
    /\ \A s \in Slots : slot[s] # None => Len(slot[s]) <= MaxTracked
    /\ token \in [Trackables -> Tokens \cup {None}]
    /\ call \in [Callers -> Call \cup {None}]
    /\ watched = ObjectsOf(slot)

(* A token is that of one trackable, of which the entries know while it      *)
(* lives.                                                                    *)
TokenOK(e) ==
    e.kind = "trackable" =>
        IF e.of = None THEN \A t \in Trackables : token[t] # e.to ELSE token[e.of] = e.to

TokensInv ==
    /\ \A t, u \in Trackables : token[t] # None /\ token[t] = token[u] => t = u
    /\ \A s \in Slots : slot[s] # None => \A i \in DOMAIN slot[s] : TokenOK(slot[s][i])

(* Cell k of a call has the object that entry e tracks. *)
Holds(k, e) == e.kind # "trackable" => e.to # None /\ handle[k] = e.to

Lost(e) == e.to = None \/ ~Owned(e.to, invoker, handle)

(* How many of the entries have been locked. *)
Done(c) == IF call[c].step = "running" THEN Len(slot[call[c].slot]) ELSE call[c].at - 1

(* The temporary has what the current entry tracks unless that is lost.      *)
Temporary(c) ==
    /\ call[c].step = "lock" => handle[<<c, 0>>] = None
    /\ call[c].step = "push" =>
          Holds(<<c, 0>>, Current(c)) \/ (Lost(Current(c)) /\ handle[<<c, 0>>] = None)

CallOK(c) ==
    IF call[c] = None THEN \A k \in CellsOf(c) : handle[k] = None
    ELSE /\ slot[call[c].slot] # None
         /\ call[c].step # "running" => call[c].at <= Len(slot[call[c].slot])
         /\ \A i \in 1..Done(c) : Holds(<<c, i>>, slot[call[c].slot][i])
         /\ Temporary(c)

CallsInv == \A c \in Callers : CallOK(c)

IInv == ObjInv /\ SlotTypes /\ TokensInv /\ CallsInv
-----------------------------------------------------------------------------
(* The deleter.                                                              *)

(* Whatever the deleter does, an object stays as often postconstructed and   *)
(* as much copied as it was.                                                 *)
Kept(r, q) == q.post = r.post /\ q.copied = r.copied

LEMMA DestroyRecord ==
  ASSUME NEW r \in Object
  PROVE  LET q == [r EXCEPT !.pre = @ + 1, !.alive = FALSE, !.initialized = FALSE]
         IN  /\ q \in Object /\ Kept(r, q) /\ q.made = r.made /\ q.built = r.built
             /\ q.pre = r.pre + 1 /\ ~q.alive /\ ~q.initialized
<1> DEFINE n == r.pre + 1
<1>1. n \in Nat
  BY DEF Object
<1> HIDE DEF n
<1>2. LET q == [r EXCEPT !.pre = n, !.alive = FALSE, !.initialized = FALSE]
      IN  /\ q \in Object /\ Kept(r, q) /\ q.made = r.made /\ q.built = r.built
          /\ q.pre = n /\ ~q.alive /\ ~q.initialized
  BY <1>1 DEF Object, Kept
<1> QED BY <1>2 DEF n

LEMMA PredestructRecord ==
  ASSUME NEW r \in Object
  PROVE  LET q == predestruct_and_delete(r)
         IN  /\ q \in Object /\ Kept(r, q) /\ q.made = r.made /\ q.built = r.built
             /\ q.pre = r.pre + 1 /\ ~q.alive
<1> DEFINE n == r.pre + 1
<1>1. n \in Nat
  BY DEF Object
<1> HIDE DEF n
<1>2. LET q == [r EXCEPT !.pre = n, !.alive = FALSE]
      IN  /\ q \in Object /\ Kept(r, q) /\ q.made = r.made /\ q.built = r.built
          /\ q.pre = n /\ ~q.alive
  BY <1>1 DEF Object, Kept
<1> QED BY <1>2 DEF n, predestruct_and_delete

(* The last owner goes. *)
LEMMA DisposedSound ==
  ASSUME NEW r \in Object, Sound(r, TRUE)
  PROVE  LET q == Disposed(r)
         IN q \in Object /\ Sound(q, FALSE) /\ Kept(r, q) /\ q.made = r.made
<1>1. r.alive /\ r.built /\ Allocated(r) /\ r.pre = 0
  BY DEF Sound, Object
<1>2. CASE r.made = "deconstruct"
  <2>1. r.initialized
    BY <1>1, <1>2 DEF Sound
  <2>2. Disposed(r) = [r EXCEPT !.pre = @ + 1, !.alive = FALSE, !.initialized = FALSE]
    BY <1>2, <2>1 DEF Disposed, destroy
  <2>3. PICK q : q = Disposed(r)
    OBVIOUS
  <2>4. /\ q \in Object /\ Kept(r, q) /\ q.made = r.made /\ q.built = r.built
        /\ q.pre = r.pre + 1 /\ ~q.alive /\ ~q.initialized
    BY <2>2, <2>3, DestroyRecord, Zenon
  <2> HIDE <2>2, <2>3
  <2>5. Sound(q, FALSE)
    BY <1>1, <1>2, <2>4 DEF Sound, Allocated
  <2> QED BY <2>3, <2>4, <2>5, Zenon
<1>3. CASE r.made # "deconstruct"
  <2>1. Disposed(r) = predestruct_and_delete(r) /\ r.made = "deconstruct_ptr"
    BY <1>1, <1>3 DEF Disposed, Allocated
  <2> QED BY <1>1, <2>1, PredestructRecord DEF Sound, Allocated
<1> QED BY <1>2, <1>3

(* The memory is freed. *)
LEMMA FreedSound ==
  ASSUME NEW r \in Object, Sound(r, FALSE), Allocated(r)
  PROVE  LET q == Freed(r) IN q \in Object /\ Sound(q, FALSE) /\ Kept(r, q)
<1>1. ~r.alive
  BY DEF Sound
<1>2. r.made = "deconstruct" => destroy(r) = r
  BY <1>1 DEF Sound, destroy
<1>3. Freed(r) = [r EXCEPT !.made = "freed"]
  BY <1>2 DEF Freed
<1>4. LET q == Freed(r)
      IN  /\ q \in Object /\ Kept(r, q) /\ q.made = "freed" /\ q.built = r.built
          /\ q.pre = r.pre /\ q.alive = r.alive
  BY <1>3 DEF Object, Kept
<1> QED BY <1>1, <1>4 DEF Sound, Allocated
-----------------------------------------------------------------------------
(* What the actions do to the objects.                                       *)

(* Objects are kept: what an object that is owned or watched has gone        *)
(* through is what it had, and it still has memory.                          *)
ObjKept(before, after, han, inv, watch) ==
    /\ after \in [Objs -> Object]
    /\ \A o \in Objs : Kept(before[o], after[o]) /\ Sound(after[o], Owned(o, inv, han))
    /\ \A o \in watch : Allocated(after[o])

LEMMA OwnersOwned ==
  ASSUME NEW o, NEW inv, NEW han
  PROVE  Owners(o, inv, han) = {} <=> ~Owned(o, inv, han)
BY DEF Owners, Owned

(* Pointers are dropped, or passed on among those that there are.            *)
LEMMA LeftSound ==
  ASSUME ObjTypes, ObjectsSound, Postconstructed, NEW inv, NEW han,
         \A o \in Objs : Owned(o, inv, han) => Owned(o, invoker, handle),
         obj' = [o \in Objs |-> Left(o, inv, han)]
  PROVE  ObjKept(obj, obj', han, inv, watched)
<1>1. SUFFICES ASSUME NEW o \in Objs
               PROVE  /\ Left(o, inv, han) \in Object
                      /\ Kept(obj[o], Left(o, inv, han))
                      /\ Sound(Left(o, inv, han), Owned(o, inv, han))
                      /\ o \in watched => Allocated(Left(o, inv, han))
  BY Zenon DEF ObjKept, ObjTypes
<1>2. obj[o] \in Object /\ Sound(obj[o], Owned(o, invoker, handle))
  BY DEF ObjTypes, ObjectsSound
<1>3. o \in watched => Allocated(obj[o])
  BY DEF Postconstructed
<1>4. CASE ~Owned(o, invoker, handle) \/ Owned(o, inv, han)
  <2>1. Left(o, inv, han) = obj[o]
    BY <1>4, OwnersOwned DEF Left
  <2>2. Owned(o, invoker, handle) <=> Owned(o, inv, han)
    BY <1>4
  <2>3. Sound(obj[o], Owned(o, inv, han))
    BY <1>2, <2>2 DEF Sound
  <2> QED BY <1>2, <1>3, <2>1, <2>3 DEF Kept
<1>5. CASE Owned(o, invoker, handle) /\ ~Owned(o, inv, han)
  <2>1. Sound(obj[o], TRUE)
    BY <1>2, <1>5 DEF Sound
  <2> PICK q : q = Disposed(obj[o])
    OBVIOUS
  <2>2. q \in Object /\ Sound(q, FALSE) /\ Kept(obj[o], q) /\ q.made = obj[o].made
    BY <1>2, <2>1, DisposedSound, Zenon
  <2>3. Allocated(q)
    BY <1>2, <2>1, <2>2 DEF Sound, Allocated
  <2>4. /\ o \in watched => Left(o, inv, han) = q
        /\ o \notin watched => Left(o, inv, han) = Freed(q)
    BY <1>5, OwnersOwned DEF Left
  <2>5. Freed(q) \in Object /\ Sound(Freed(q), FALSE) /\ Kept(q, Freed(q))
    BY <2>2, <2>3, FreedSound, Zenon
  <2>6. Kept(obj[o], Freed(q))
    BY <2>2, <2>5 DEF Kept
  <2>7. Sound(q, Owned(o, inv, han)) /\ Sound(Freed(q), Owned(o, inv, han))
    BY <1>5, <2>2, <2>5 DEF Sound
  <2> QED BY <2>2, <2>3, <2>4, <2>5, <2>6, <2>7, Zenon
<1> QED BY <1>4, <1>5

(* weak_ptrs are made to objects that there are, and dropped.                *)
LEMMA WatchedSound ==
  ASSUME ObjTypes, ObjectsSound, Postconstructed, NEW S, SetWatched(S),
         \A o \in S : o \in watched \/ (o \in Objs /\ Owned(o, invoker, handle))
  PROVE  ObjKept(obj, obj', handle, invoker, S)
<1> DEFINE q(o) == IF o \in watched \ S /\ Owners(o, invoker, handle) = {}
                   THEN Freed(obj[o]) ELSE obj[o]
<1>1. obj' = [o \in Objs |-> q(o)] /\ S \subseteq Objs
  BY DEF SetWatched, ObjTypes
<1> SUFFICES ASSUME NEW o \in Objs
             PROVE  /\ q(o) \in Object /\ Kept(obj[o], q(o))
                    /\ Sound(q(o), Owned(o, invoker, handle))
                    /\ o \in S => Allocated(q(o))
  BY <1>1, Zenon DEF ObjKept
<1>2. obj[o] \in Object /\ Sound(obj[o], Owned(o, invoker, handle))
  BY DEF ObjTypes, ObjectsSound
<1>3. CASE o \in watched \ S /\ Owners(o, invoker, handle) = {}
  <2>1. ~Owned(o, invoker, handle) /\ q(o) = Freed(obj[o])
    BY <1>3, OwnersOwned
  <2>2. Sound(obj[o], FALSE) /\ Allocated(obj[o])
    BY <1>2, <1>3, <2>1 DEF Sound, Postconstructed
  <2>3. /\ Freed(obj[o]) \in Object /\ Sound(Freed(obj[o]), FALSE)
        /\ Kept(obj[o], Freed(obj[o]))
    BY <1>2, <2>2, FreedSound, Zenon
  <2>4. Sound(Freed(obj[o]), Owned(o, invoker, handle))
    BY <2>1, <2>3 DEF Sound
  <2> QED BY <1>3, <2>1, <2>3, <2>4, Zenon
<1>4. CASE ~(o \in watched \ S /\ Owners(o, invoker, handle) = {})
  <2>1. o \in S => Allocated(obj[o])
    BY <1>2, <1>4 DEF Sound, Postconstructed, ObjTypes, Object
  <2> QED BY <1>2, <1>4, <2>1 DEF Kept
<1> QED BY <1>3, <1>4
(* What is left to show of a step in which objects are kept and no invoker   *)
(* gets an object.                                                           *)
LEMMA ObjInvKept ==
  ASSUME ObjInv,
         invoker' \in [Invokers -> Invoker \cup {None}],
         handle' \in [Handles -> Objs \cup {None}], watched' \subseteq Objs,
         ObjKept(obj, obj', handle', invoker', watched'),
         \A h \in Handles : handle'[h] # None => obj[handle'[h]].post >= 1,
         \A o \in watched' : obj[o].post >= 1,
         \A i \in Invokers : invoker'[i] \in {invoker[i], None}
  PROVE  ObjInv'
<1>1. ObjTypes'
  BY DEF ObjTypes, ObjKept
<1>2. ObjectsSound'
  BY <1>1 DEF ObjectsSound, ObjKept
<1>3. \A o \in Objs : obj'[o].post = obj[o].post /\ obj'[o].copied = obj[o].copied
  BY DEF ObjKept, Kept
<1>4. Postconstructed'
  <2>1. \A h \in Handles : handle'[h] # None => obj'[handle'[h]].post >= 1
    BY <1>3
  <2>2. \A o \in watched' : Allocated(obj'[o]) /\ obj'[o].post >= 1
    BY <1>3 DEF ObjKept
  <2>3. ASSUME NEW i \in Invokers, invoker'[i] # None, invoker'[i].postconstructed
        PROVE  obj'[invoker'[i].sp].post >= 1
    <3>1. invoker'[i] = invoker[i] /\ invoker[i] \in Invoker /\ invoker[i] # None
      BY <2>3 DEF ObjInv, ObjTypes
    <3> QED BY <1>3, <2>3, <3>1 DEF ObjInv, Postconstructed, Invoker
  <2> QED BY <2>1, <2>2, <2>3 DEF Postconstructed
<1>5. ASSUME NEW o \in Objs PROVE Once(obj'[o], o, invoker')
  <2>1. Once(obj[o], o, invoker)
    BY DEF ObjInv, OnceInv
  <2> QED BY <1>3, <2>1 DEF Once
<1> QED BY <1>1, <1>2, <1>4, <1>5 DEF ObjInv, OnceInv

(* Pointers change, the objects do not.                                      *)
LEMMA ObjSame ==
  ASSUME ObjTypes, ObjectsSound, Postconstructed, NEW inv, NEW han, NEW S,
         \A o \in Objs : Owned(o, inv, han) <=> Owned(o, invoker, handle),
         \A o \in S : o \in watched \/ (o \in Objs /\ Owned(o, invoker, handle))
  PROVE  ObjKept(obj, obj, han, inv, S)
<1>1. \A o \in Objs : Sound(obj[o], Owned(o, inv, han))
  BY DEF ObjectsSound, Sound
<1>2. \A o \in S : Allocated(obj[o])
  <2> TAKE o \in S
  <2>1. CASE o \in watched
    BY <2>1 DEF Postconstructed
  <2>2. CASE o \in Objs /\ Owned(o, invoker, handle)
    BY <2>2 DEF ObjectsSound, Sound
  <2> QED BY <2>1, <2>2
<1> QED BY <1>1, <1>2 DEF ObjKept, Kept, ObjTypes

LEMMA DropInvokerStep ==
  ASSUME ObjInv, NEW i \in Invokers, DropInvoker(i) PROVE ObjInv'
<1> DEFINE inv == [invoker EXCEPT ![i] = None]
<1>1. /\ invoker' = inv /\ handle' = handle /\ watched' = watched
      /\ obj' = [o \in Objs |-> Left(o, inv, handle)]
  BY DEF DropInvoker
<1>2. ObjTypes /\ ObjectsSound /\ Postconstructed
  BY DEF ObjInv
<1>3. \A o \in Objs : Owned(o, inv, handle) => Owned(o, invoker, handle)
  BY <1>2 DEF Owned, ObjTypes
<1>4. inv \in [Invokers -> Invoker \cup {None}] /\ \A j \in Invokers : inv[j] \in {invoker[j], None}
  BY <1>2 DEF ObjTypes
<1> HIDE DEF inv
<1>5. ObjKept(obj, obj', handle, inv, watched)
  BY <1>1, <1>2, <1>3, LeftSound
<1> QED BY <1>1, <1>2, <1>4, <1>5, ObjInvKept DEF Postconstructed, ObjTypes

(* Pointers are dropped, or passed on among those that there are.            *)
LEMMA SetHandlesStep ==
  ASSUME ObjInv, NEW han \in [Handles -> Objs \cup {None}], SetHandles(han),
         invoker' = invoker, watched' = watched,
         \A h \in Handles : han[h] # None => \E g \in Handles : handle[g] = han[h]
  PROVE  ObjInv'
<1>1. ObjTypes /\ ObjectsSound /\ Postconstructed
  BY DEF ObjInv
<1>2. \A o \in Objs : Owned(o, invoker, han) => Owned(o, invoker, handle)
  BY DeconstructAssumption DEF Owned
<1>3. handle' = han /\ obj' = [o \in Objs |-> Left(o, invoker, han)]
  BY DEF SetHandles
<1>4. ObjKept(obj, obj', han, invoker, watched)
  BY <1>1, <1>2, <1>3, LeftSound
<1>5. \A h \in Handles : han[h] # None => obj[han[h]].post >= 1
  BY <1>1 DEF Postconstructed
<1> QED BY <1>1, <1>3, <1>4, <1>5, ObjInvKept DEF Postconstructed, ObjTypes

LEMMA SetWatchedStep ==
  ASSUME ObjInv, NEW S, SetWatched(S), invoker' = invoker, handle' = handle,
         \A o \in S : o \in watched \/ (o # None /\ \E h \in Handles : handle[h] = o)
  PROVE  ObjInv'
<1>1. ObjTypes /\ ObjectsSound /\ Postconstructed
  BY DEF ObjInv
<1>2. \A o \in S : o \in watched \/ (o \in Objs /\ Owned(o, invoker, handle))
  BY <1>1 DEF Owned, ObjTypes
<1>3. ObjKept(obj, obj', handle, invoker, S)
  BY <1>1, <1>2, WatchedSound
<1>4. S \subseteq Objs /\ \A o \in S : obj[o].post >= 1
  BY <1>1, <1>2 DEF ObjTypes, Postconstructed
<1>5. watched' = S
  BY DEF SetWatched
<1> QED BY <1>1, <1>3, <1>4, <1>5, ObjInvKept DEF Postconstructed, ObjTypes
-----------------------------------------------------------------------------
(* Making objects.                                                           *)

(* The other objects, when one gets an owner or changes. *)
OthersSame(o, inv, han) ==
    \A p \in Objs \ {o} : Owned(p, inv, han) <=> Owned(p, invoker, handle)

LEMMA OneChanged ==
  ASSUME ObjTypes, ObjectsSound, NEW o \in Objs, NEW q \in Object, NEW inv, NEW han,
         OthersSame(o, inv, han), Sound(q, Owned(o, inv, han)),
         obj' = [obj EXCEPT ![o] = q]
  PROVE  /\ obj' \in [Objs -> Object]
         /\ \A p \in Objs : Sound(obj'[p], Owned(p, inv, han))
         /\ obj'[o] = q /\ \A p \in Objs \ {o} : obj'[p] = obj[p]
<1>1. obj' \in [Objs -> Object] /\ obj'[o] = q /\ \A p \in Objs \ {o} : obj'[p] = obj[p]
  BY DEF ObjTypes
<1>2. \A p \in Objs \ {o} : Sound(obj[p], Owned(p, inv, han))
  BY DEF ObjectsSound, OthersSame, Sound
<1> QED BY <1>1, <1>2

LEMMA ConstructedRecord ==
  ASSUME NEW r \in Object, Sound(r, FALSE), r.made = "no"
  PROVE  LET m == [r EXCEPT !.made = "deconstruct"]
             q == [m EXCEPT !.initialized = TRUE, !.built = TRUE, !.alive = TRUE]
         IN  q \in Object /\ Sound(q, TRUE) /\ Kept(r, q) /\ q.made = "deconstruct"
<1> PICK m : m = [r EXCEPT !.made = "deconstruct"]
  OBVIOUS
<1>1. /\ m \in Object /\ Kept(r, m) /\ m.made = "deconstruct" /\ m.pre = r.pre
  BY DEF Object, Kept
<1>2. r.pre = 0
  BY DEF Sound, Object
<1> PICK q : q = [m EXCEPT !.initialized = TRUE, !.built = TRUE, !.alive = TRUE]
  OBVIOUS
<1>3. /\ q \in Object /\ Kept(m, q) /\ q.made = "deconstruct" /\ q.pre = m.pre
      /\ q.initialized /\ q.built /\ q.alive
  BY <1>1 DEF Object, Kept
<1>4. Sound(q, TRUE) /\ Kept(r, q)
  BY <1>1, <1>2, <1>3 DEF Sound, Kept, Allocated
<1> QED BY <1>3, <1>4, Zenon

(* Its constructor has thrown. *)
LEMMA NotConstructedRecord ==
  ASSUME NEW r \in Object, Sound(r, FALSE), r.made = "no"
  PROVE  LET q == Freed(Disposed([r EXCEPT !.made = "deconstruct"]))
         IN  q \in Object /\ Sound(q, FALSE) /\ Kept(r, q)
<1> PICK m : m = [r EXCEPT !.made = "deconstruct"]
  OBVIOUS
<1>1. /\ m \in Object /\ Kept(r, m) /\ m.made = "deconstruct" /\ m.pre = r.pre
      /\ m.alive = r.alive /\ m.initialized = r.initialized /\ m.built = r.built
  BY DEF Object, Kept
<1>2. Sound(m, FALSE) /\ Allocated(m) /\ Disposed(m) = m
  BY <1>1 DEF Sound, Allocated, Disposed, destroy
<1>3. Freed(m) \in Object /\ Sound(Freed(m), FALSE) /\ Kept(m, Freed(m))
  BY <1>1, <1>2, FreedSound, Zenon
<1>4. Kept(r, Freed(m))
  BY <1>1, <1>3 DEF Kept
<1> QED BY <1>2, <1>3, <1>4, Zenon

LEMMA DeconstructStep ==
  ASSUME ObjInv, NEW o \in Objs, NEW i \in Invokers, deconstruct(o, i) PROVE ObjInv'
<1> DEFINE r == obj[o]
           q == [[r EXCEPT !.made = "deconstruct"]
                     EXCEPT !.initialized = TRUE, !.built = TRUE, !.alive = TRUE]
           f == Freed(Disposed([r EXCEPT !.made = "deconstruct"]))
           new == [sp |-> o, postconstructed |-> FALSE]
           inv == [invoker EXCEPT ![i] = new]
<1>1. ObjTypes /\ ObjectsSound /\ Postconstructed /\ OnceInv
  BY DEF ObjInv
<1>2. r \in Object /\ r.made = "no" /\ invoker[i] = None /\ handle' = handle /\ watched' = watched
  BY <1>1 DEF ObjTypes, deconstruct
<1>3. \/ obj' = [obj EXCEPT ![o] = q] /\ invoker' = inv
      \/ obj' = [obj EXCEPT ![o] = f] /\ invoker' = invoker
  BY DEF deconstruct
<1>4. ~Owned(o, invoker, handle) /\ Sound(r, FALSE)
  BY <1>1, <1>2 DEF ObjectsSound, Sound, Allocated
<1>5. /\ q \in Object /\ Sound(q, TRUE) /\ Kept(r, q) /\ q.made = "deconstruct"
  BY <1>2, <1>4, ConstructedRecord, Zenon
<1>6. f \in Object /\ Sound(f, FALSE) /\ Kept(r, f)
  BY <1>2, <1>4, NotConstructedRecord, Zenon
<1>7. \A p \in watched : p # o
  BY <1>1, <1>2 DEF Postconstructed, Allocated
<1>8. \A h \in Handles : handle[h] # o
  BY <1>4 DEF Owned
<1>9. r.post = 0 /\ \A j \in Invokers : invoker[j] = None \/ invoker[j].sp # o
  BY <1>2, <1>4 DEF Sound, Owned
<1>10. /\ inv \in [Invokers -> Invoker \cup {None}] /\ inv[i] = new /\ new # None
       /\ \A j \in Invokers \ {i} : inv[j] = invoker[j]
       /\ new.sp = o /\ ~new.postconstructed
  <2>1. new \in Invoker /\ new.sp = o /\ ~new.postconstructed
    BY DEF Invoker
  <2>2. None \notin Invoker
    BY DeconstructAssumption DEF Invoker
  <2> HIDE DEF new
  <2> QED BY <1>1, <2>1, <2>2 DEF ObjTypes
<1> HIDE DEF r, q, f, new, inv
<1>11. CASE obj' = [obj EXCEPT ![o] = q] /\ invoker' = inv
  <2>1. Owned(o, inv, handle) /\ OthersSame(o, inv, handle)
    BY <1>2, <1>10 DEF Owned, OthersSame
  <2>2. Sound(q, Owned(o, inv, handle))
    BY <1>5, <2>1 DEF Sound
  <2>3. /\ obj' \in [Objs -> Object] /\ \A p \in Objs : Sound(obj'[p], Owned(p, inv, handle))
        /\ obj'[o] = q /\ \A p \in Objs \ {o} : obj'[p] = obj[p]
    BY <1>1, <1>5, <1>11, <2>1, <2>2, OneChanged
  <2>4. ObjTypes' /\ ObjectsSound'
    BY <1>1, <1>2, <1>10, <1>11, <2>3 DEF ObjTypes, ObjectsSound
  <2>5. Postconstructed'
    <3>1. /\ \A h \in Handles : handle[h] # None => obj'[handle[h]].post >= 1
          /\ \A p \in watched : Allocated(obj'[p]) /\ obj'[p].post >= 1
      BY <1>1, <1>7, <1>8, <2>3 DEF Postconstructed, ObjTypes
    <3>2. ASSUME NEW j \in Invokers, inv[j] # None, inv[j].postconstructed
          PROVE  obj'[inv[j].sp].post >= 1
      <4>1. j # i /\ inv[j] = invoker[j] /\ invoker[j].sp \in Objs \ {o}
        BY <1>1, <1>9, <1>10, <3>2 DEF ObjTypes, Invoker
      <4> QED BY <1>1, <2>3, <3>2, <4>1 DEF Postconstructed
    <3> QED BY <1>2, <1>11, <3>1, <3>2 DEF Postconstructed
  <2>6. OnceInv'
    <3>1. Once(q, o, inv)
      BY <1>2, <1>5, <1>9, <1>10 DEF Once, Kept
    <3>2. \A p \in Objs \ {o} : Once(obj[p], p, inv)
      BY <1>1, <1>2, <1>10 DEF OnceInv, Once
    <3> QED BY <1>11, <2>3, <3>1, <3>2 DEF OnceInv
  <2> QED BY <2>4, <2>5, <2>6 DEF ObjInv
<1>12. CASE obj' = [obj EXCEPT ![o] = f] /\ invoker' = invoker
  <2>1. Sound(f, Owned(o, invoker, handle)) /\ OthersSame(o, invoker, handle)
    BY <1>4, <1>6 DEF Sound, OthersSame
  <2>2. /\ obj' \in [Objs -> Object] /\ \A p \in Objs : Sound(obj'[p], Owned(p, invoker, handle))
        /\ obj'[o] = f /\ \A p \in Objs \ {o} : obj'[p] = obj[p]
    BY <1>1, <1>6, <1>12, <2>1, OneChanged
  <2>3. \A p \in Objs : Kept(obj[p], obj'[p])
    BY <1>6, <2>2 DEF Kept, r
  <2>4. ObjKept(obj, obj', handle, invoker, watched)
    BY <1>1, <1>7, <2>2, <2>3 DEF ObjKept, Postconstructed, ObjTypes
  <2> QED BY <1>1, <1>2, <1>12, <2>4, ObjInvKept DEF Postconstructed, ObjTypes
<1> QED BY <1>3, <1>11, <1>12
LEMMA PostconstructedRecord ==
  ASSUME NEW r \in Object, Sound(r, FALSE), r.made = "no"
  PROVE  LET m == [r EXCEPT !.made = "deconstruct_ptr", !.built = TRUE, !.alive = TRUE]
             q == [m EXCEPT !.post = 1]
             f == Freed(Disposed([m EXCEPT !.failed = 1]))
         IN  /\ q \in Object /\ Sound(q, TRUE) /\ q.post = 1
             /\ f \in Object /\ Sound(f, FALSE) /\ Kept(r, f)
<1> PICK m : m = [r EXCEPT !.made = "deconstruct_ptr", !.built = TRUE, !.alive = TRUE]
  OBVIOUS
<1>1. /\ m \in Object /\ Kept(r, m) /\ m.made = "deconstruct_ptr" /\ m.pre = r.pre
      /\ m.alive /\ m.built
  BY DEF Object, Kept
<1>2. r.pre = 0
  BY DEF Sound, Object
<1> PICK q : q = [m EXCEPT !.post = 1]
  OBVIOUS
<1>3. q \in Object /\ q.post = 1 /\ Sound(q, TRUE)
  <2>1. /\ q \in Object /\ q.post = 1 /\ q.made = m.made /\ q.pre = m.pre
        /\ q.alive = m.alive /\ q.built = m.built
    BY <1>1 DEF Object
  <2> QED BY <1>1, <1>2, <2>1 DEF Sound, Allocated
<1> PICK g : g = [m EXCEPT !.failed = 1]
  OBVIOUS
<1>4. /\ g \in Object /\ Kept(m, g) /\ g.made = m.made /\ g.pre = m.pre
      /\ g.alive = m.alive /\ g.built = m.built
  BY <1>1 DEF Object, Kept
<1>5. Sound(g, TRUE)
  BY <1>1, <1>2, <1>4 DEF Sound, Allocated
<1> PICK d : d = Disposed(g)
  OBVIOUS
<1>6. d \in Object /\ Sound(d, FALSE) /\ Kept(g, d) /\ d.made = g.made
  BY <1>4, <1>5, DisposedSound, Zenon
<1>7. Freed(d) \in Object /\ Sound(Freed(d), FALSE) /\ Kept(d, Freed(d))
  BY <1>1, <1>4, <1>6, FreedSound DEF Allocated
<1>8. Kept(r, Freed(d))
  BY <1>1, <1>4, <1>6, <1>7 DEF Kept
<1> QED BY <1>3, <1>7, <1>8, Zenon

LEMMA DeconstructPtrStep ==
  ASSUME ObjInv, NEW o \in Objs, NEW h \in Handles, deconstruct_ptr(o, h) PROVE ObjInv'
<1> DEFINE r == obj[o]
           m == [r EXCEPT !.made = "deconstruct_ptr", !.built = TRUE, !.alive = TRUE]
           q == [m EXCEPT !.post = 1]
           f == Freed(Disposed([m EXCEPT !.failed = 1]))
           han == [handle EXCEPT ![h] = o]
<1>1. ObjTypes /\ ObjectsSound /\ Postconstructed /\ OnceInv
  BY DEF ObjInv
<1>2. /\ r \in Object /\ r.made = "no" /\ handle[h] = None
      /\ invoker' = invoker /\ watched' = watched
  BY <1>1 DEF ObjTypes, deconstruct_ptr
<1>3. \/ obj' = [obj EXCEPT ![o] = q] /\ handle' = han
      \/ obj' = [obj EXCEPT ![o] = f] /\ handle' = handle
  BY DEF deconstruct_ptr
<1>4. ~Owned(o, invoker, handle) /\ Sound(r, FALSE)
  BY <1>1, <1>2 DEF ObjectsSound, Sound, Allocated
<1>5. /\ q \in Object /\ Sound(q, TRUE) /\ q.post = 1
      /\ f \in Object /\ Sound(f, FALSE) /\ Kept(r, f)
  BY <1>2, <1>4, PostconstructedRecord, Zenon
<1>6. \A p \in watched : p # o
  BY <1>1, <1>2 DEF Postconstructed, Allocated
<1>7. /\ \A g \in Handles : handle[g] # o
      /\ \A j \in Invokers : invoker[j] = None \/ invoker[j].sp # o
  BY <1>4 DEF Owned
<1>8. /\ han \in [Handles -> Objs \cup {None}] /\ han[h] = o
      /\ \A g \in Handles \ {h} : han[g] = handle[g]
  BY <1>1 DEF ObjTypes
<1> HIDE DEF r, m, q, f, han
<1>9. CASE obj' = [obj EXCEPT ![o] = q] /\ handle' = han
  <2>1. Owned(o, invoker, han) /\ OthersSame(o, invoker, han)
    BY <1>2, <1>8, DeconstructAssumption DEF Owned, OthersSame
  <2>2. Sound(q, Owned(o, invoker, han))
    BY <1>5, <2>1 DEF Sound
  <2>3. /\ obj' \in [Objs -> Object] /\ \A p \in Objs : Sound(obj'[p], Owned(p, invoker, han))
        /\ obj'[o] = q /\ \A p \in Objs \ {o} : obj'[p] = obj[p]
    BY <1>1, <1>5, <1>9, <2>1, <2>2, OneChanged
  <2>4. ObjTypes' /\ ObjectsSound'
    BY <1>1, <1>2, <1>8, <1>9, <2>3 DEF ObjTypes, ObjectsSound
  <2>5. Postconstructed'
    <3>1. \A g \in Handles : han[g] # None => obj'[han[g]].post >= 1
      BY <1>1, <1>5, <1>7, <1>8, <2>3 DEF Postconstructed, ObjTypes
    <3>2. \A p \in watched : Allocated(obj'[p]) /\ obj'[p].post >= 1
      BY <1>1, <1>6, <2>3 DEF Postconstructed, ObjTypes
    <3>3. ASSUME NEW j \in Invokers, invoker[j] # None, invoker[j].postconstructed
          PROVE  obj'[invoker[j].sp].post >= 1
      <4>1. invoker[j].sp \in Objs \ {o}
        BY <1>1, <1>7, <3>3 DEF ObjTypes, Invoker
      <4> QED BY <1>1, <2>3, <3>3, <4>1 DEF Postconstructed
    <3> QED BY <1>2, <1>9, <3>1, <3>2, <3>3 DEF Postconstructed
  <2>6. OnceInv'
    <3>1. Once(q, o, invoker)
      BY <1>5, <1>7 DEF Once
    <3>2. \A p \in Objs \ {o} : Once(obj[p], p, invoker)
      BY <1>1 DEF OnceInv
    <3> QED BY <1>2, <2>3, <3>1, <3>2 DEF OnceInv
  <2> QED BY <2>4, <2>5, <2>6 DEF ObjInv
<1>10. CASE obj' = [obj EXCEPT ![o] = f] /\ handle' = handle
  <2>1. Sound(f, Owned(o, invoker, handle)) /\ OthersSame(o, invoker, handle)
    BY <1>4, <1>5 DEF Sound, OthersSame
  <2>2. /\ obj' \in [Objs -> Object] /\ \A p \in Objs : Sound(obj'[p], Owned(p, invoker, handle))
        /\ obj'[o] = f /\ \A p \in Objs \ {o} : obj'[p] = obj[p]
    BY <1>1, <1>5, <1>10, <2>1, OneChanged
  <2>3. \A p \in Objs : Kept(obj[p], obj'[p])
    BY <1>5, <2>2 DEF Kept, r
  <2>4. ObjKept(obj, obj', handle, invoker, watched)
    BY <1>1, <1>6, <2>2, <2>3 DEF ObjKept, Postconstructed, ObjTypes
  <2> QED BY <1>1, <1>2, <1>10, <2>4, ObjInvKept DEF Postconstructed, ObjTypes
<1> QED BY <1>3, <1>9, <1>10

-----------------------------------------------------------------------------
(* Invokers.                                                                 *)

(* A record whose counts of postconstructors, or whose history, change.      *)
LEMMA PostRecord ==
  ASSUME NEW r \in Object, NEW p \in Nat, Sound(r, TRUE)
  PROVE  LET q == [r EXCEPT !.post = p]
         IN  q \in Object /\ q.post = p /\ q.copied = r.copied /\ Sound(q, TRUE)
BY DEF Object, Sound, Allocated

LEMMA FailedRecord ==
  ASSUME NEW r \in Object, NEW n \in Nat, Sound(r, TRUE)
  PROVE  LET q == [r EXCEPT !.failed = n]
         IN  q \in Object /\ Kept(r, q) /\ Sound(q, TRUE)
BY DEF Object, Sound, Allocated, Kept

LEMMA CopiedRecord ==
  ASSUME NEW r \in Object, NEW c \in BOOLEAN, Sound(r, TRUE)
  PROVE  LET q == [r EXCEPT !.copied = c]
         IN  q \in Object /\ q.post = r.post /\ q.copied = c /\ Sound(q, TRUE)
BY DEF Object, Sound, Allocated

LEMMA PostconstructStep ==
  ASSUME ObjInv, NEW i \in Invokers, NEW h \in Handles, postconstruct(i, h) PROVE ObjInv'
<1> DEFINE o == invoker[i].sp
           run == ~invoker[i].postconstructed
           p == IF run THEN obj[o].post + 1 ELSE obj[o].post
           n == obj[o].failed + 1
           q == [obj[o] EXCEPT !.post = p]
           f == [obj[o] EXCEPT !.failed = n]
           new == [invoker[i] EXCEPT !.postconstructed = TRUE]
           inv == [invoker EXCEPT ![i] = new]
           han == [handle EXCEPT ![h] = o]
<1>1. ObjTypes /\ ObjectsSound /\ Postconstructed /\ OnceInv
  BY DEF ObjInv
<1>2. /\ invoker[i] # None /\ invoker[i] \in Invoker /\ handle[h] = None
      /\ watched' = watched /\ o \in Objs
  BY <1>1 DEF ObjTypes, postconstruct, Invoker
<1>3. \/ obj' = [obj EXCEPT ![o] = q] /\ invoker' = inv /\ handle' = han
      \/ obj' = [obj EXCEPT ![o] = f] /\ invoker' = invoker /\ handle' = handle
  BY DEF postconstruct
<1>4. obj[o] \in Object /\ p \in Nat /\ n \in Nat /\ p >= obj[o].post
  BY <1>1, <1>2 DEF ObjTypes, Object
<1>5. Owned(o, invoker, handle) /\ Sound(obj[o], TRUE) /\ obj[o].made # "no"
  BY <1>1, <1>2 DEF ObjectsSound, Sound, Owned, Allocated
<1>6. new \in Invoker /\ new.sp = o /\ new.postconstructed
  BY <1>2 DEF Invoker
<1>7. None \notin Invoker
  BY DeconstructAssumption DEF Invoker
<1>8. p >= 1
  BY <1>1, <1>2, <1>4 DEF Postconstructed, ObjTypes, Object
<1>9. /\ q \in Object /\ q.post = p /\ q.copied = obj[o].copied
      /\ f \in Object /\ f.post = obj[o].post /\ f.copied = obj[o].copied
      /\ Sound(q, TRUE) /\ Sound(f, TRUE)
  <2> HIDE DEF o, p, n
  <2>1. q \in Object /\ q.post = p /\ q.copied = obj[o].copied /\ Sound(q, TRUE)
    BY <1>4, <1>5, PostRecord, Zenon
  <2>2. f \in Object /\ Kept(obj[o], f) /\ Sound(f, TRUE)
    BY <1>4, <1>5, FailedRecord, Zenon
  <2> QED BY <2>1, <2>2, Zenon DEF Kept
<1>10. ~obj[o].copied =>
          /\ p <= 1
          /\ \A j \in Invokers : run /\ invoker[j] # None /\ invoker[j].sp = o => j = i
  BY <1>1, <1>2, <1>4 DEF OnceInv, Once
<1> HIDE DEF p, n, q, f, new
<1>11. CASE obj' = [obj EXCEPT ![o] = q] /\ invoker' = inv /\ handle' = han
  <2>1. /\ inv \in [Invokers -> Invoker \cup {None}] /\ inv[i] = new
        /\ \A j \in Invokers \ {i} : inv[j] = invoker[j]
        /\ han \in [Handles -> Objs \cup {None}] /\ han[h] = o
        /\ \A g \in Handles \ {h} : han[g] = handle[g]
    <3>1. new \in Invoker \cup {None} /\ o \in Objs \cup {None}
      BY <1>2, <1>6
    <3> HIDE DEF o
    <3> QED BY <1>1, <3>1 DEF ObjTypes
  <2> HIDE DEF inv, han
  <2>2. Owned(o, inv, han) /\ OthersSame(o, inv, han)
    BY <1>2, <1>6, <1>7, <2>1, DeconstructAssumption DEF Owned, OthersSame
  <2>3. Sound(q, Owned(o, inv, han))
    BY <1>9, <2>2 DEF Sound
  <2>4. /\ obj' \in [Objs -> Object] /\ \A x \in Objs : Sound(obj'[x], Owned(x, inv, han))
        /\ obj'[o] = q /\ \A x \in Objs \ {o} : obj'[x] = obj[x]
    BY <1>1, <1>2, <1>9, <1>11, <2>2, <2>3, OneChanged
  <2>5. ObjTypes' /\ ObjectsSound'
    BY <1>1, <1>2, <1>11, <2>1, <2>4 DEF ObjTypes, ObjectsSound
  <2>6. Postconstructed'
    <3>1. \A x \in Objs : obj'[x].post >= 1 \/ obj'[x] = obj[x]
      BY <1>8, <1>9, <2>4
    <3>2. \A g \in Handles : han[g] # None => obj'[han[g]].post >= 1
      BY <1>1, <1>2, <1>8, <1>9, <2>1, <2>4, <3>1 DEF Postconstructed, ObjTypes
    <3>3. \A x \in watched : Allocated(obj'[x]) /\ obj'[x].post >= 1
      <4>1. \A x \in watched : obj'[x].post >= 1
        BY <1>1, <3>1 DEF Postconstructed, ObjTypes
      <4>2. Allocated(q)
        BY <1>9 DEF Sound
      <4> QED BY <1>1, <2>4, <4>1, <4>2 DEF Postconstructed, ObjTypes
    <3>4. ASSUME NEW j \in Invokers, inv[j] # None, inv[j].postconstructed
          PROVE  obj'[inv[j].sp].post >= 1
      <4>1. CASE j = i
        BY <1>6, <1>8, <1>9, <2>1, <2>4, <4>1
      <4>2. CASE j # i
        <5>1. inv[j] = invoker[j] /\ invoker[j].sp \in Objs
          BY <1>1, <2>1, <3>4, <4>2 DEF ObjTypes, Invoker
        <5> QED BY <1>1, <3>1, <3>4, <5>1 DEF Postconstructed
      <4> QED BY <4>1, <4>2
    <3> QED BY <1>2, <1>11, <3>2, <3>3, <3>4 DEF Postconstructed
  <2>7. OnceInv'
    <3>1. Once(q, o, inv)
      <4> SUFFICES ASSUME ~q.copied
                   PROVE  /\ q.post <= 1
                          /\ \A k \in Invokers :
                                inv[k] # None /\ inv[k].sp = o => inv[k].postconstructed
        BY Zenon DEF Once
      <4>1. q.post <= 1
        BY <1>9, <1>10
      <4>2. ASSUME NEW k \in Invokers, inv[k] # None, inv[k].sp = o, k # i
            PROVE  inv[k].postconstructed
        <5>1. ~run /\ inv[k] = invoker[k]
          BY <1>9, <1>10, <2>1, <4>2
        <5>2. ~invoker[k].postconstructed => i = k
          BY <1>1, <1>2, <1>9, <4>2, <5>1 DEF OnceInv, Once
        <5> QED BY <4>2, <5>1, <5>2
      <4> QED BY <1>6, <2>1, <4>1, <4>2
    <3>2. \A x \in Objs \ {o} : Once(obj[x], x, inv)
      BY <1>1, <1>2, <1>6, <2>1 DEF OnceInv, Once
    <3> QED BY <1>11, <2>4, <3>1, <3>2 DEF OnceInv
  <2> QED BY <2>5, <2>6, <2>7 DEF ObjInv
<1>12. CASE obj' = [obj EXCEPT ![o] = f] /\ invoker' = invoker /\ handle' = handle
  <2>1. Sound(f, Owned(o, invoker, handle)) /\ OthersSame(o, invoker, handle)
    BY <1>5, <1>9 DEF Sound, OthersSame
  <2>2. /\ obj' \in [Objs -> Object] /\ \A x \in Objs : Sound(obj'[x], Owned(x, invoker, handle))
        /\ obj'[o] = f /\ \A x \in Objs \ {o} : obj'[x] = obj[x]
    BY <1>1, <1>2, <1>9, <1>12, <2>1, OneChanged
  <2>3. \A x \in Objs : Kept(obj[x], obj'[x])
    BY <1>9, <2>2 DEF Kept
  <2>4. Allocated(f)
    BY <1>9 DEF Sound
  <2>5. ObjKept(obj, obj', handle, invoker, watched)
    BY <1>1, <2>2, <2>3, <2>4 DEF ObjKept, Postconstructed, ObjTypes
  <2> QED BY <1>1, <1>2, <1>12, <2>5, ObjInvKept DEF Postconstructed, ObjTypes
<1> QED BY <1>3, <1>11, <1>12
LEMMA CopyInvokerStep ==
  ASSUME ObjInv, NEW i \in Invokers, NEW j \in Invokers, CopyInvoker(i, j) PROVE ObjInv'
<1> PICK o, c : o = invoker[i].sp /\ c = (obj[o].copied \/ ~invoker[i].postconstructed)
  OBVIOUS
<1>q. PICK q : q = [obj[o] EXCEPT !.copied = c]
  OBVIOUS
<1> PICK inv : inv = [invoker EXCEPT ![j] = invoker[i]]
  OBVIOUS
<1>1. ObjTypes /\ ObjectsSound /\ Postconstructed /\ OnceInv
  BY DEF ObjInv
<1>2. /\ invoker[i] # None /\ invoker[i] \in Invoker /\ invoker[j] = None /\ o \in Objs
      /\ invoker' = inv /\ handle' = handle /\ watched' = watched
  BY <1>1 DEF ObjTypes, CopyInvoker, Invoker
<1>3. obj' = [obj EXCEPT ![o] = q]
  <2>1. obj' = [obj EXCEPT ![invoker[i].sp] =
                   [obj[invoker[i].sp] EXCEPT
                       !.copied = obj[invoker[i].sp].copied \/ ~invoker[i].postconstructed]]
    BY Zenon DEF CopyInvoker
  <2> QED BY <1>q, <2>1, Zenon
<1>4. obj[o] \in Object /\ c \in BOOLEAN
  BY <1>1, <1>2 DEF ObjTypes
<1>5. Sound(obj[o], TRUE)
  BY <1>1, <1>2 DEF ObjectsSound, Sound, Owned
<1>6. q \in Object /\ q.post = obj[o].post /\ q.copied = c /\ Sound(q, TRUE)
  BY <1>q, <1>4, <1>5, CopiedRecord
<1>7. /\ inv \in [Invokers -> Invoker \cup {None}] /\ inv[j] = invoker[i]
      /\ \A k \in Invokers \ {j} : inv[k] = invoker[k]
  BY <1>1 DEF ObjTypes
<1>8. Owned(o, inv, handle) /\ OthersSame(o, inv, handle)
  BY <1>2, <1>7 DEF Owned, OthersSame
<1>9. Sound(q, Owned(o, inv, handle))
  BY <1>6, <1>8 DEF Sound
<1>10. /\ obj' \in [Objs -> Object] /\ \A x \in Objs : Sound(obj'[x], Owned(x, inv, handle))
       /\ obj'[o] = q /\ \A x \in Objs \ {o} : obj'[x] = obj[x]
  BY <1>1, <1>2, <1>3, <1>6, <1>8, <1>9, OneChanged
<1>11. ObjTypes' /\ ObjectsSound'
  BY <1>1, <1>2, <1>7, <1>10 DEF ObjTypes, ObjectsSound
<1>12. Postconstructed'
  <2>1. \A x \in Objs : obj'[x].post = obj[x].post
    BY <1>6, <1>10
  <2>2. \A g \in Handles : handle[g] # None => obj'[handle[g]].post >= 1
    BY <1>1, <2>1 DEF Postconstructed, ObjTypes
  <2>3. \A x \in watched : Allocated(obj'[x]) /\ obj'[x].post >= 1
    <3>1. Allocated(q)
      BY <1>6 DEF Sound
    <3> QED BY <1>1, <1>10, <2>1, <3>1 DEF Postconstructed, ObjTypes
  <2>4. ASSUME NEW k \in Invokers, inv[k] # None, inv[k].postconstructed
        PROVE  obj'[inv[k].sp].post >= 1
    <3>1. PICK l \in Invokers : inv[k] = invoker[l]
      BY <1>7
    <3>2. invoker[l].sp \in Objs
      BY <1>1, <2>4, <3>1 DEF ObjTypes, Invoker
    <3> QED BY <1>1, <2>1, <2>4, <3>1, <3>2 DEF Postconstructed
  <2> QED BY <1>2, <2>2, <2>3, <2>4 DEF Postconstructed
<1>13. OnceInv'
  <2>1. Once(q, o, inv)
    <3> SUFFICES ASSUME ~q.copied
                 PROVE  /\ q.post <= 1
                        /\ \A k \in Invokers :
                              inv[k] # None /\ inv[k].sp = o => inv[k].postconstructed
      BY Zenon DEF Once
    <3>1. ~obj[o].copied /\ invoker[i].postconstructed
      BY <1>6
    <3>2. Once(obj[o], o, invoker)
      BY <1>1, <1>2 DEF OnceInv
    <3>3. q.post <= 1
      BY <1>6, <3>1, <3>2 DEF Once
    <3>4. ASSUME NEW k \in Invokers, inv[k] # None, inv[k].sp = o PROVE inv[k].postconstructed
      <4>1. PICK l \in Invokers : inv[k] = invoker[l]
        BY <1>7
      <4>2. ~invoker[l].postconstructed => i = l
        BY <1>2, <3>1, <3>2, <3>4, <4>1 DEF Once
      <4> QED BY <3>1, <4>1, <4>2
    <3> QED BY <3>3, <3>4
  <2>2. \A x \in Objs \ {o} : Once(obj[x], x, inv)
    BY <1>1, <1>2, <1>7 DEF OnceInv, Once
  <2> QED BY <1>2, <1>10, <2>1, <2>2 DEF OnceInv
<1> QED BY <1>11, <1>12, <1>13 DEF ObjInv

(* A pointer is given an object that another has.                            *)
LEMMA GainHandle ==
  ASSUME ObjInv, NEW g \in Handles, NEW o \in Objs \cup {None},
         handle' = [handle EXCEPT ![g] = o], obj' = obj, invoker' = invoker, watched' = watched,
         handle[g] = None,
         o # None => obj[o].post >= 1 /\ Owned(o, invoker, handle)
  PROVE  ObjInv'
<1>1. ObjTypes /\ ObjectsSound /\ Postconstructed
  BY DEF ObjInv
<1>2. /\ handle' \in [Handles -> Objs \cup {None}] /\ handle'[g] = o
      /\ \A h \in Handles \ {g} : handle'[h] = handle[h]
  BY <1>1 DEF ObjTypes
<1>3. \A x \in Objs : Owned(x, invoker, handle') <=> Owned(x, invoker, handle)
  BY <1>2, DeconstructAssumption DEF Owned
<1>4. ObjKept(obj, obj, handle', invoker, watched)
  BY <1>1, <1>3, ObjSame
<1> QED BY <1>1, <1>2, <1>4, ObjInvKept DEF Postconstructed, ObjTypes

LEMMA ProgramStep ==
  ASSUME ObjInv, NEW H \in SUBSET Handles, Program(H) PROVE ObjInv'
<1>1. ASSUME NEW o \in Objs, NEW i \in Invokers, deconstruct(o, i) PROVE ObjInv'
  BY <1>1, DeconstructStep
<1>2. ASSUME NEW o \in Objs, NEW h \in H, deconstruct_ptr(o, h) PROVE ObjInv'
  BY <1>2, DeconstructPtrStep
<1>3. ASSUME NEW i \in Invokers, NEW h \in H, postconstruct(i, h) PROVE ObjInv'
  BY <1>3, PostconstructStep
<1>4. ASSUME NEW i \in Invokers, NEW j \in Invokers, CopyInvoker(i, j) PROVE ObjInv'
  BY <1>4, CopyInvokerStep
<1>5. ASSUME NEW h \in H, NEW g \in H, CopyHandle(h, g) PROVE ObjInv'
  <2>1. /\ handle[h] \in Objs /\ obj[handle[h]].post >= 1
        /\ Owned(handle[h], invoker, handle)
    BY <1>5 DEF CopyHandle, ObjInv, ObjTypes, Postconstructed, Owned
  <2> QED BY <1>5, <2>1, GainHandle DEF CopyHandle
<1>6. ASSUME NEW i \in Invokers, DropInvoker(i) PROVE ObjInv'
  BY <1>6, DropInvokerStep
<1>7. ASSUME NEW h \in H, DropHandle(h) PROVE ObjInv'
  <2> DEFINE han == [handle EXCEPT ![h] = None]
  <2>1. han \in [Handles -> Objs \cup {None}]
    BY DEF ObjInv, ObjTypes
  <2>2. \A k \in Handles : han[k] # None => \E g \in Handles : handle[g] = han[k]
    BY DEF ObjInv, ObjTypes
  <2>3. SetHandles(han) /\ invoker' = invoker /\ watched' = watched
    BY <1>7 DEF DropHandle
  <2> HIDE DEF han
  <2> QED BY <2>1, <2>2, <2>3, SetHandlesStep
<1> QED BY <1>1, <1>2, <1>3, <1>4, <1>5, <1>6, <1>7 DEF Program

LEMMA InitObjInv ==
  ASSUME Init PROVE ObjInv
<1> DEFINE r == [made |-> "no", initialized |-> FALSE, built |-> FALSE, alive |-> FALSE,
                 post |-> 0, failed |-> 0, pre |-> 0, copied |-> FALSE]
<1>1. r \in Object /\ r.post = 0 /\ Sound(r, FALSE)
  BY DEF Object, Sound, Allocated
<1>2. /\ obj = [o \in Objs |-> r] /\ invoker = [i \in Invokers |-> None]
      /\ handle = [h \in Handles |-> None] /\ watched = {}
  BY DEF Init
<1> HIDE DEF r
<1>3. ObjTypes
  BY <1>1, <1>2 DEF ObjTypes
<1>4. \A o \in Objs : ~Owned(o, invoker, handle)
  BY <1>2, DeconstructAssumption DEF Owned
<1>5. ObjectsSound
  BY <1>1, <1>2, <1>4 DEF ObjectsSound, Sound
<1>6. Postconstructed /\ OnceInv
  BY <1>1, <1>2 DEF Postconstructed, OnceInv, Once
<1> QED BY <1>3, <1>5, <1>6 DEF ObjInv
-----------------------------------------------------------------------------
(* What slots track.                                                         *)

LEMMA ObjectsOfEntries ==
  ASSUME NEW sl, NEW o
  PROVE  o \in ObjectsOf(sl) <=>
            /\ o # None
            /\ \E s \in Slots : sl[s] # None /\ \E i \in DOMAIN sl[s] :
                  sl[s][i].kind # "trackable" /\ sl[s][i].to = o
BY DEF ObjectsOf, ToSet

LEMMA PairsWith ==
  ASSUME NEW r, NEW n \in Nat
  PROVE  IsFiniteSet({r} \X (1..n)) /\ Cardinality({r} \X (1..n)) = n
<1>1. IsFiniteSet(1..n) /\ Cardinality(1..n) = n
  <2>1. Cardinality(1..n) = IF 1 > n THEN 0 ELSE n - 1 + 1
    BY FS_Interval
  <2> QED BY <2>1, FS_Interval
<1>2. IsFiniteSet({r}) /\ Cardinality({r}) = 1
  BY FS_Singleton
<1>3. /\ IsFiniteSet({r} \X (1..n))
      /\ Cardinality({r} \X (1..n)) = Cardinality({r}) * Cardinality(1..n)
  BY <1>1, <1>2, FS_Product, Zenon
<1>4. PICK k : k = Cardinality({r} \X (1..n))
  OBVIOUS
<1>5. k = 1 * n
  BY <1>1, <1>2, <1>3, <1>4, Zenon
<1>6. k = n
  BY <1>5
<1> QED BY <1>3, <1>4, <1>6, Zenon

(* The bound on all entries together bounds those of each slot.              *)
LEMMA EntriesBounded ==
  ASSUME NEW sl \in [Slots -> Seq(Entry) \cup {None}], NEW s \in Slots, sl[s] # None,
         Cardinality(UNION {{r} \X DOMAIN sl[r] : r \in {u \in Slots : sl[u] # None}})
            <= MaxTracked
  PROVE  Len(sl[s]) <= MaxTracked
<1> DEFINE T == {u \in Slots : sl[u] # None}
           f == [r \in T |-> {r} \X DOMAIN sl[r]]
           I == {{r} \X DOMAIN sl[r] : r \in T}
<1>1. ASSUME NEW r \in T
      PROVE  /\ IsFiniteSet({r} \X DOMAIN sl[r])
             /\ Cardinality({r} \X DOMAIN sl[r]) = Len(sl[r])
  <2>1. sl[r] \in Seq(Entry) /\ Len(sl[r]) \in Nat /\ DOMAIN sl[r] = 1..Len(sl[r])
    OBVIOUS
  <2> QED BY <2>1, PairsWith, Zenon
<1>2. IsFiniteSet(T)
  BY SlotsAssumption, FS_Subset
<1>3. f \in Surjection(T, I)
  BY DEF Surjection
<1>4. IsFiniteSet(I)
  BY <1>2, <1>3, FS_Surjection
<1>5. IsFiniteSet(UNION I)
  BY <1>1, <1>4, FS_UNION
<1>6. {s} \X DOMAIN sl[s] \in SUBSET (UNION I)
  OBVIOUS
<1>7. Cardinality({s} \X DOMAIN sl[s]) <= Cardinality(UNION I)
  BY <1>5, <1>6, FS_Subset
<1>8. Cardinality(UNION I) \in Nat /\ Len(sl[s]) \in Nat
  BY <1>5, FS_CardinalityType
<1>9. Cardinality({s} \X DOMAIN sl[s]) = Len(sl[s]) /\ Cardinality(UNION I) <= MaxTracked
  BY <1>1, Zenon
<1> PICK a, b : a = Cardinality({s} \X DOMAIN sl[s]) /\ b = Cardinality(UNION I)
  OBVIOUS
<1>10. a = Len(sl[s]) /\ a <= b /\ b <= MaxTracked /\ b \in Nat /\ a \in Nat
  BY <1>7, <1>8, <1>9, Zenon
<1>11. a <= MaxTracked
  BY <1>10, SlotsAssumption
<1> QED BY <1>10, <1>11, Zenon

-----------------------------------------------------------------------------
(* Calls that a step of somebody else does not disturb.                      *)

NoneRevived ==
    \A o \in watched : Owned(o, invoker', handle') => Owned(o, invoker, handle)

SameEntries(s) ==
    /\ slot'[s] # None /\ Len(slot'[s]) = Len(slot[s])
    /\ \A i \in 1..Len(slot[s]) :
          slot'[s][i].kind = slot[s][i].kind /\ slot'[s][i].to = slot[s][i].to

LEMMA CallKept ==
  ASSUME SlotTypes, NEW c \in Callers, CallOK(c), call'[c] = call[c], NoneRevived,
         \A k \in CellsOf(c) : handle'[k] = handle[k],
         call[c] # None => SameEntries(call[c].slot)
  PROVE  CallOK(c)'
<1>1. CASE call[c] = None
  BY <1>1 DEF CallOK
<1>2. CASE call[c] # None
  <2> PICK s, n, step : s = call[c].slot /\ n = call[c].at /\ step = call[c].step
    OBVIOUS
  <2>1. /\ s \in Slots /\ n \in Nat \ {0} /\ step \in {"lock", "push", "running"}
        /\ slot[s] # None /\ slot[s] \in Seq(Entry) /\ Len(slot[s]) \in Nat
        /\ Len(slot[s]) <= MaxTracked /\ (step # "running" => n <= Len(slot[s]))
    BY <1>2 DEF SlotTypes, Call, CallOK
  <2>2. SameEntries(s)
    BY <1>2
  <2>3. Done(c)' = Done(c) /\ Done(c) \in 0..Len(slot[s])
    BY <2>1, <2>2 DEF Done, SameEntries
  <2>4. ASSUME NEW i \in 1..Done(c) PROVE Holds(<<c, i>>, slot[s][i])'
    <3>1. <<c, i>> \in CellsOf(c) /\ i \in 1..Len(slot[s])
      BY <2>1, <2>3, SlotsAssumption DEF CellsOf
    <3> QED BY <1>2, <2>2, <3>1 DEF Holds, SameEntries, CallOK
  <2>5. <<c, 0>> \in CellsOf(c)
    BY SlotsAssumption DEF CellsOf
  <2>6. ASSUME step = "push"
        PROVE  \/ Holds(<<c, 0>>, Current(c))'
               \/ Lost(Current(c))' /\ handle'[<<c, 0>>] = None
    <3>1. /\ slot'[s][n].kind = slot[s][n].kind /\ slot'[s][n].to = slot[s][n].to
      BY <2>1, <2>2, <2>6 DEF SameEntries
    <3>2. CASE Holds(<<c, 0>>, slot[s][n])
      BY <2>5, <3>1, <3>2 DEF Holds, Current
    <3>3. CASE Lost(slot[s][n]) /\ handle[<<c, 0>>] = None
      <4>1. CASE slot[s][n].kind = "trackable"
        BY <3>1, <4>1 DEF Holds, Current
      <4>2. CASE slot[s][n].kind # "trackable" /\ slot[s][n].to # None
        <5>1. slot[s][n].to \in watched
          BY <2>1, <2>6, <4>2, ObjectsOfEntries DEF SlotTypes
        <5> QED BY <2>5, <3>1, <3>3, <5>1 DEF NoneRevived, Lost, Current
      <4>3. CASE slot[s][n].to = None
        BY <2>5, <3>1, <3>3, <4>3 DEF Lost, Current
      <4> QED BY <4>1, <4>2, <4>3
    <3> QED BY <1>2, <2>6, <3>2, <3>3 DEF CallOK, Temporary, Current
  <2>7. step = "lock" => handle'[<<c, 0>>] = None
    BY <1>2, <2>5 DEF CallOK, Temporary
  <2> QED BY <1>2, <2>1, <2>2, <2>3, <2>4, <2>6, <2>7 DEF CallOK, Temporary, SameEntries
<1> QED BY <1>1, <1>2
-----------------------------------------------------------------------------
(* What the program does with pointers.                                      *)

LEMMA PointersOfProgram ==
  ASSUME ObjInv, Program(Pointers)
  PROVE  /\ \A k \in Cells : handle'[k] = handle[k]
         /\ watched' = watched
         /\ NoneRevived
<1> DEFINE Goal == /\ \A k \in Cells : handle'[k] = handle[k]
                   /\ watched' = watched
                   /\ NoneRevived
<1>1. ObjTypes /\ Postconstructed /\ \A h \in Pointers : h \in Handles /\ h \notin Cells
  BY DEF ObjInv, Pointers
<1>2. ASSUME NEW o \in Objs, obj[o].made = "no",
             \A p \in Objs \ {o} : Owned(p, invoker', handle') => Owned(p, invoker, handle)
      PROVE  NoneRevived
  BY <1>1, <1>2 DEF NoneRevived, Postconstructed, Allocated, ObjTypes
<1>3. ASSUME NEW o \in Objs, NEW i \in Invokers, deconstruct(o, i) PROVE Goal
  <2>1. /\ obj[o].made = "no" /\ handle' = handle /\ watched' = watched
        /\ \A j \in Invokers \ {i} : invoker'[j] = invoker[j]
        /\ invoker'[i] = invoker[i] \/ invoker'[i].sp = o
    BY <1>1, <1>3 DEF deconstruct, ObjTypes
  <2> QED BY <1>2, <2>1 DEF Owned
<1>4. ASSUME NEW o \in Objs, NEW h \in Pointers, deconstruct_ptr(o, h) PROVE Goal
  <2>1. /\ obj[o].made = "no" /\ invoker' = invoker /\ watched' = watched
        /\ \A g \in Handles \ {h} : handle'[g] = handle[g]
        /\ handle'[h] = handle[h] \/ handle'[h] = o
    BY <1>1, <1>4 DEF deconstruct_ptr, ObjTypes
  <2> QED BY <1>1, <1>2, <2>1, SlotsAssumption DEF Owned
<1>5. ASSUME NEW i \in Invokers, NEW h \in Pointers, postconstruct(i, h) PROVE Goal
  <2>1. /\ watched' = watched /\ invoker[i] # None /\ invoker[i] \in Invoker
        /\ \A g \in Handles \ {h} : handle'[g] = handle[g]
        /\ handle'[h] = handle[h] \/ handle'[h] = invoker[i].sp
        /\ \A j \in Invokers \ {i} : invoker'[j] = invoker[j]
        /\ invoker'[i].sp = invoker[i].sp
    BY <1>1, <1>5 DEF postconstruct, ObjTypes, Invoker
  <2> QED BY <1>1, <2>1, SlotsAssumption DEF Owned, NoneRevived
<1>6. ASSUME NEW i \in Invokers, NEW j \in Invokers, CopyInvoker(i, j) PROVE Goal
  <2>1. /\ handle' = handle /\ watched' = watched /\ invoker[i] # None
        /\ \A k \in Invokers : invoker'[k] \in {invoker[k], invoker[i]}
    BY <1>1, <1>6 DEF CopyInvoker, ObjTypes
  <2> QED BY <2>1 DEF Owned, NoneRevived
<1>7. ASSUME NEW h \in Pointers, NEW g \in Pointers, CopyHandle(h, g) PROVE Goal
  BY <1>1, <1>7, SlotsAssumption DEF CopyHandle, ObjTypes, Owned, NoneRevived
<1>8. ASSUME NEW i \in Invokers, DropInvoker(i) PROVE Goal
  <2>1. /\ handle' = handle /\ watched' = watched
        /\ \A k \in Invokers : invoker'[k] \in {invoker[k], None}
    BY <1>1, <1>8 DEF DropInvoker, ObjTypes
  <2> QED BY <2>1 DEF Owned, NoneRevived
<1>9. ASSUME NEW h \in Pointers, DropHandle(h) PROVE Goal
  <2>1. /\ invoker' = invoker /\ watched' = watched
        /\ handle' = [handle EXCEPT ![h] = None]
    BY <1>9 DEF DropHandle, SetHandles
  <2>2. \A k \in Handles : handle'[k] = IF k = h THEN None ELSE handle[k]
    BY <1>1, <2>1 DEF ObjTypes
  <2> HIDE <2>1
  <2>3. /\ invoker' = invoker /\ watched' = watched
    BY <2>1
  <2>4. NoneRevived
    BY <1>1, <2>2, <2>3, DeconstructAssumption DEF Owned, NoneRevived, ObjTypes
  <2> QED BY <1>1, <2>2, <2>3, <2>4, SlotsAssumption
<1> QED BY <1>3, <1>4, <1>5, <1>6, <1>7, <1>8, <1>9 DEF Program

LEMMA ProgramInv ==
  ASSUME IInv, Program(Pointers), UNCHANGED slotVars PROVE IInv'
<1>1. ObjInv'
  BY ProgramStep DEF IInv, Pointers
<1>2. /\ slot' = slot /\ token' = token /\ call' = call
      /\ \A k \in Cells : handle'[k] = handle[k]
      /\ watched' = watched /\ NoneRevived
  BY PointersOfProgram DEF IInv, slotVars
<1>3. SlotTypes' /\ TokensInv'
  BY <1>2 DEF IInv, SlotTypes, ObjectsOf, TokensInv, TokenOK
<1>4. ASSUME NEW c \in Callers PROVE CallOK(c)'
  <2>1. SlotTypes /\ CallOK(c) /\ \A k \in CellsOf(c) : handle'[k] = handle[k]
    BY <1>2 DEF IInv, CallsInv, CellsOf, Cells
  <2>2. call[c] # None => SameEntries(call[c].slot)
    BY <1>2, <2>1 DEF SameEntries, CallOK
  <2> QED BY <1>2, <2>1, <2>2, CallKept
<1> QED BY <1>1, <1>3, <1>4 DEF IInv, CallsInv

-----------------------------------------------------------------------------
(* Slots change.                                                             *)

(* An entry that may come into a slot.                                       *)
Known(e) ==
    /\ e \in Entry
    /\ e.kind # "trackable" /\ e.to # None =>
          e.to \in watched \/ \E h \in Handles : handle[h] = e.to
    /\ TokenOK(e)

LEMMA EntriesKnown ==
  ASSUME IInv, NEW s \in Slots, slot[s] # None
  PROVE  slot[s] \in Seq(Entry) /\ \A i \in DOMAIN slot[s] : Known(slot[s][i])
<1>1. slot[s] \in Seq(Entry) /\ watched = ObjectsOf(slot)
  BY DEF IInv, SlotTypes
<1>2. ASSUME NEW i \in DOMAIN slot[s] PROVE Known(slot[s][i])
  BY <1>1, ObjectsOfEntries DEF IInv, TokensInv, Known
<1> QED BY <1>1, <1>2

LEMMA SetSlotsStep ==
  ASSUME IInv, NEW sl \in [Slots -> Seq(Entry) \cup {None}], SetSlots(sl),
         \A s \in Slots : sl[s] # None => \A i \in DOMAIN sl[s] : Known(sl[s][i]),
         \A c \in Callers : call[c] # None => sl[call[c].slot] = slot[call[c].slot]
  PROVE  IInv'
<1>1. /\ slot' = sl /\ SetWatched(ObjectsOf(sl)) /\ watched' = ObjectsOf(sl)
      /\ invoker' = invoker /\ handle' = handle /\ token' = token /\ call' = call
  BY DEF SetSlots, SetWatched
<1>2. \A o \in ObjectsOf(sl) : o \in watched \/ (o # None /\ \E h \in Handles : handle[h] = o)
  BY ObjectsOfEntries DEF Known
<1>3. ObjInv'
  BY <1>1, <1>2, SetWatchedStep DEF IInv
<1>4. SlotTypes'
  <2>1. \A s \in Slots : sl[s] # None => Len(sl[s]) <= MaxTracked
    BY EntriesBounded DEF SetSlots
  <2> QED BY <1>1, <2>1 DEF IInv, SlotTypes, ObjectsOf
<1>5. TokensInv'
  BY <1>1 DEF IInv, TokensInv, Known, TokenOK
<1>6. ASSUME NEW c \in Callers PROVE CallOK(c)'
  <2>1. SlotTypes /\ CallOK(c) /\ NoneRevived
    BY <1>1 DEF IInv, CallsInv, NoneRevived
  <2>2. call[c] # None => SameEntries(call[c].slot)
    BY <1>1, <2>1 DEF SameEntries, CallOK
  <2> QED BY <1>1, <2>1, <2>2, CallKept
<1> QED BY <1>3, <1>4, <1>5, <1>6 DEF IInv, CallsInv
LEMMA ArgumentKnown ==
  ASSUME IInv, NEW a \in Arguments
  PROVE  /\ tracked_objects_visitor(a) \in Seq(Entry)
         /\ \A i \in DOMAIN tracked_objects_visitor(a) : Known(tracked_objects_visitor(a)[i])
<1>1. ObjTypes /\ SlotTypes /\ Pointers \subseteq Handles
  BY DEF IInv, ObjInv, Pointers
<1>2. ASSUME NEW e, Known(e) PROVE <<e>> \in Seq(Entry) /\ \A i \in DOMAIN <<e>> : Known(<<e>>[i])
  BY <1>2 DEF Known
<1>3. CASE a.is = "signal"
  <2>1. a.h \in Handles /\ handle[a.h] # None /\ handle[a.h] \in Objs
    BY <1>1, <1>3 DEF Arguments, ObjTypes
  <2>2. Known(Weak(handle[a.h]))
    BY <2>1 DEF Known, Weak, Entry, TokenOK
  <2> QED BY <1>2, <1>3, <2>2 DEF tracked_objects_visitor
<1>4. CASE a.is = "moved_signal"
  <2>1. Known(Weak(None))
    BY DEF Known, Weak, Entry, TokenOK
  <2> QED BY <1>2, <1>4, <2>1 DEF tracked_objects_visitor
<1>5. CASE a.is = "trackable"
  <2> PICK t, k : t = a.t /\ k = token[a.t]
    OBVIOUS
  <2>1. t \in Trackables /\ k \in Tokens /\ k = token[t] /\ t # None
    BY <1>1, <1>5, SlotsAssumption DEF Arguments, SlotTypes
  <2>2. Known([kind |-> "trackable", to |-> k, of |-> t])
    BY <2>1 DEF Known, Entry, TokenOK
  <2> QED BY <1>2, <1>5, <2>2 DEF tracked_objects_visitor
<1>6. CASE a.is = "other"
  BY <1>6 DEF tracked_objects_visitor
<1> QED BY <1>3, <1>4, <1>5, <1>6 DEF Arguments

(* One slot gets the entries of list. *)
LEMMA SetSlotStep ==
  ASSUME IInv, NEW s \in Slots, NEW list \in Seq(Entry) \cup {None},
         SetSlots([slot EXCEPT ![s] = list]), slot[s] = None \/ Quiet(s),
         list # None => \A i \in DOMAIN list : Known(list[i])
  PROVE  IInv'
<1> PICK sl : sl = [slot EXCEPT ![s] = list]
  OBVIOUS
<1>1. /\ sl \in [Slots -> Seq(Entry) \cup {None}] /\ sl[s] = list
      /\ \A r \in Slots \ {s} : sl[r] = slot[r]
  BY DEF IInv, SlotTypes
<1>2. \A r \in Slots : sl[r] # None => \A i \in DOMAIN sl[r] : Known(sl[r][i])
  BY <1>1, EntriesKnown
<1>3. ASSUME NEW c \in Callers, call[c] # None PROVE call[c].slot \in Slots \ {s}
  BY <1>3 DEF IInv, SlotTypes, Call, CallsInv, CallOK, Quiet
<1> QED BY <1>1, <1>2, <1>3, SetSlotsStep

LEMMA TrackEntries ==
  ASSUME IInv, NEW s \in Slots, NEW list \in Seq(Entry),
         \A i \in DOMAIN list : Known(list[i]), track_entries(s, list)
  PROVE  IInv'
<1>1. slot[s] # None /\ Quiet(s) /\ SetSlots([slot EXCEPT ![s] = slot[s] \o list])
  BY DEF track_entries
<1>2. slot[s] \in Seq(Entry) /\ \A i \in DOMAIN slot[s] : Known(slot[s][i])
  BY <1>1, EntriesKnown
<1> PICK old, new : old = slot[s] /\ new = old \o list
  OBVIOUS
<1>3. new \in Seq(Entry) /\ \A i \in DOMAIN new : Known(new[i])
  <2>1. old \in Seq(Entry) /\ \A i \in 1..Len(old) : Known(old[i])
    BY <1>2
  <2>2. \A i \in 1..Len(list) : Known(list[i])
    OBVIOUS
  <2>3. new \in Seq(Entry) /\ Len(new) = Len(old) + Len(list)
    BY <2>1
  <2>4. ASSUME NEW i \in 1..Len(new) PROVE Known(new[i])
    <3>1. CASE i <= Len(old)
      <4>1. new[i] = old[i] /\ i \in 1..Len(old)
        BY <2>1, <2>3, <3>1
      <4> QED BY <2>1, <4>1
    <3>2. CASE i > Len(old)
      <4>1. new[i] = list[i - Len(old)] /\ i - Len(old) \in 1..Len(list)
        BY <2>1, <2>3, <3>2
      <4> QED BY <2>2, <4>1
    <3> QED BY <2>1, <3>1, <3>2
  <2> QED BY <2>3, <2>4
<1> QED BY <1>1, <1>3, SetSlotStep

LEMMA SlotStep ==
  ASSUME IInv, NEW s \in Slots,
         \/ \E a \in Arguments : init_slot_function(s, a)
         \/ \E h \in Pointers : track(s, h) \/ track_foreign(s, h)
         \/ \E r \in Slots : track_slot(s, r) \/ CopySlot(s, r)
         \/ DestroySlot(s)
  PROVE  IInv'
<1>1. CASE \E a \in Arguments : init_slot_function(s, a)
  BY <1>1, ArgumentKnown, SetSlotStep DEF init_slot_function
<1>2. ASSUME NEW h \in Pointers, track(s, h) \/ track_foreign(s, h) PROVE IInv'
  <2>1. h \in Handles /\ handle[h] # None /\ handle[h] \in Objs
    BY <1>2 DEF IInv, ObjInv, ObjTypes, Pointers, track, track_foreign
  <2>2. Known(Weak(handle[h])) /\ Known(Foreign(handle[h]))
    BY <2>1 DEF Known, Weak, Foreign, Entry, TokenOK
  <2>3. ASSUME NEW e, Known(e), track_entries(s, <<e>>) PROVE IInv'
    <3>1. <<e>> \in Seq(Entry) /\ \A i \in DOMAIN <<e>> : Known(<<e>>[i])
      BY <2>3 DEF Known
    <3> QED BY <2>3, <3>1, TrackEntries
  <2> QED BY <1>2, <2>2, <2>3 DEF track, track_foreign
<1>3. ASSUME NEW r \in Slots, track_slot(s, r) PROVE IInv'
  BY <1>3, EntriesKnown, TrackEntries DEF track_slot
<1>4. ASSUME NEW r \in Slots, CopySlot(s, r) PROVE IInv'
  BY <1>4, EntriesKnown, SetSlotStep DEF CopySlot
<1>5. CASE DestroySlot(s)
  BY <1>5, SetSlotStep DEF DestroySlot
<1> QED BY <1>1, <1>2, <1>3, <1>4, <1>5

-----------------------------------------------------------------------------
(* trackable.                                                                *)

LEMMA NewToken ==
  ASSUME IInv, NEW t \in Trackables, trackable(t) PROVE IInv'
<1> PICK k : k = CHOOSE j \in Unused : TRUE
  OBVIOUS
<1>1. /\ token[t] = None /\ k \in Unused /\ token' = [token EXCEPT ![t] = k]
      /\ obj' = obj /\ invoker' = invoker /\ handle' = handle /\ watched' = watched
      /\ slot' = slot /\ call' = call
  BY DEF trackable, SetToken, vars
<1>2. /\ k \in Tokens /\ \A u \in Trackables : token[u] # k
      /\ \A s \in Slots : slot[s] # None => \A i \in DOMAIN slot[s] :
            slot[s][i].kind = "trackable" => slot[s][i].to # k
  BY <1>1 DEF Unused, Entries, ToSet
<1>3. token' \in [Trackables -> Tokens \cup {None}]
  BY <1>1, <1>2 DEF IInv, SlotTypes
<1>4. ObjInv'
  BY <1>1 DEF IInv, ObjInv, ObjTypes, ObjectsSound, Owned, Postconstructed, OnceInv
<1>5. SlotTypes'
  BY <1>1, <1>3 DEF IInv, SlotTypes, ObjectsOf
<1>6. TokensInv'
  <2>1. token \in [Trackables -> Tokens \cup {None}] /\ \A u \in Trackables \ {t} : token'[u] = token[u]
    BY <1>1 DEF IInv, SlotTypes
  <2>2. token'[t] = k
    BY <1>1, <2>1
  <2>3. \A u, v \in Trackables : token'[u] # None /\ token'[u] = token'[v] => u = v
    BY <1>2, <2>1, <2>2 DEF IInv, TokensInv
  <2>4. ASSUME NEW s \in Slots, slot[s] # None, NEW i \in DOMAIN slot[s] PROVE TokenOK(slot[s][i])'
    <3> PICK e : e = slot[s][i]
      OBVIOUS
    <3>1. e \in Entry /\ TokenOK(e) /\ (e.kind = "trackable" => e.to # k)
      BY <1>2, <2>4, EntriesKnown DEF Known
    <3>2. CASE e.kind = "trackable" /\ e.of # None
      <4>1. e.of \in Trackables \ {t} /\ e.to \in Tokens /\ token[e.of] = e.to
        BY <1>1, <3>1, <3>2, SlotsAssumption DEF Entry, TokenOK
      <4> QED BY <1>1, <2>1, <3>2, <4>1 DEF TokenOK
    <3>3. CASE e.kind = "trackable" /\ e.of = None
      BY <1>1, <2>1, <2>2, <3>1, <3>3 DEF TokenOK
    <3>4. CASE e.kind # "trackable"
      BY <1>1, <3>4 DEF TokenOK
    <3> QED BY <3>2, <3>3, <3>4
  <2> QED BY <1>1, <2>3, <2>4 DEF TokensInv
<1>7. ASSUME NEW c \in Callers PROVE CallOK(c)'
  <2>1. SlotTypes /\ CallOK(c) /\ NoneRevived
    BY <1>1 DEF IInv, CallsInv, NoneRevived, Owned
  <2>2. call[c] # None => SameEntries(call[c].slot)
    BY <1>1, <2>1 DEF SameEntries, CallOK
  <2> QED BY <1>1, <2>1, <2>2, CallKept
<1> QED BY <1>4, <1>5, <1>6, <1>7 DEF IInv, CallsInv
LEMMA GoneEntry ==
  ASSUME NEW e \in Entry, NEW t \in Trackables
  PROVE  /\ Gone(e, t) \in Entry
         /\ Gone(e, t).kind = e.kind /\ Gone(e, t).to = e.to
         /\ e.kind = "trackable" => Gone(e, t).of = IF e.of = t THEN None ELSE e.of
<1>1. CASE e.kind = "trackable" /\ e.of = t
  <2>1. e \in [kind : {"trackable"}, to : Tokens, of : Trackables \cup {None}]
    BY <1>1 DEF Entry
  <2> QED BY <1>1, <2>1 DEF Gone, Entry
<1>2. CASE ~(e.kind = "trackable" /\ e.of = t)
  BY <1>2 DEF Gone
<1> QED BY <1>1, <1>2

(* The entries of a slot when trackable t is destroyed.                      *)
LEMMA EntriesGone ==
  ASSUME IInv, NEW t \in Trackables, DestroyTrackable(t), NEW s \in Slots
  PROVE  IF slot[s] = None THEN slot'[s] = None
         ELSE /\ slot'[s] # None /\ slot'[s] \in Seq(Entry) /\ Len(slot'[s]) = Len(slot[s])
              /\ DOMAIN slot'[s] = DOMAIN slot[s]
              /\ \A i \in DOMAIN slot[s] :
                    slot[s][i] \in Entry /\ slot'[s][i] = Gone(slot[s][i], t)
<1>1. slot'[s] = IF slot[s] = None THEN None
                 ELSE [i \in DOMAIN slot[s] |-> Gone(slot[s][i], t)]
  BY DEF DestroyTrackable
<1>2. CASE slot[s] # None
  <2> PICK old, new : old = slot[s] /\ new = [i \in DOMAIN old |-> Gone(old[i], t)]
    OBVIOUS
  <2>1. old \in Seq(Entry) /\ \A i \in DOMAIN old : old[i] \in Entry
    BY <1>2, EntriesKnown
  <2>2. DOMAIN old = 1..Len(old) /\ Len(old) \in Nat
    BY <2>1
  <2>3. \A i \in 1..Len(old) : Gone(old[i], t) \in Entry
    BY <2>1, <2>2, GoneEntry
  <2>4. new \in Seq(Entry) /\ Len(new) = Len(old)
    BY <2>2, <2>3
  <2>5. new # None
    BY <2>4, NoneAssumption
  <2>6. slot'[s] = new
    BY <1>1, <1>2
  <2> QED BY <1>2, <2>1, <2>2, <2>4, <2>5, <2>6
<1> QED BY <1>1, <1>2

LEMMA DestroyTrackableStep ==
  ASSUME IInv, NEW t \in Trackables, DestroyTrackable(t) PROVE IInv'
<1>1. /\ token[t] # None /\ token' = [token EXCEPT ![t] = None]
      /\ obj' = obj /\ invoker' = invoker /\ handle' = handle /\ watched' = watched
      /\ call' = call /\ slot' \in [Slots -> Seq(Entry) \cup {None}]
  <2>1. \A s \in Slots : slot'[s] \in Seq(Entry) \cup {None}
    BY EntriesGone
  <2>2. slot' = [s \in Slots |-> IF slot[s] = None THEN None
                                 ELSE [i \in DOMAIN slot[s] |-> Gone(slot[s][i], t)]]
    BY DEF DestroyTrackable
  <2>3. slot' = [s \in Slots |-> slot'[s]]
    BY <2>2
  <2> QED BY <2>1, <2>3 DEF DestroyTrackable, vars
<1>2. /\ token \in [Trackables -> Tokens \cup {None}] /\ token'[t] = None
      /\ \A u \in Trackables \ {t} : token'[u] = token[u]
  BY <1>1 DEF IInv, SlotTypes
<1>3. ObjInv'
  BY <1>1 DEF IInv, ObjInv, ObjTypes, ObjectsSound, Owned, Postconstructed, OnceInv
<1>4. ObjectsOf(slot') = ObjectsOf(slot)
  <2>1. ASSUME NEW o PROVE o \in ObjectsOf(slot') <=> o \in ObjectsOf(slot)
    <3>1. ASSUME NEW s \in Slots
          PROVE  /\ slot'[s] # None <=> slot[s] # None
                 /\ slot[s] # None => DOMAIN slot'[s] = DOMAIN slot[s]
                 /\ slot[s] # None => \A i \in DOMAIN slot[s] :
                       slot'[s][i].kind = slot[s][i].kind /\ slot'[s][i].to = slot[s][i].to
      BY EntriesGone, GoneEntry
    <3> QED BY <3>1, ObjectsOfEntries
  <2> QED BY <2>1
<1>5. SlotTypes'
  <2>1. \A s \in Slots : slot'[s] # None => Len(slot'[s]) <= MaxTracked
    BY EntriesGone DEF IInv, SlotTypes
  <2>2. token' \in [Trackables -> Tokens \cup {None}]
    BY <1>1, <1>2
  <2>3. watched' = ObjectsOf(slot')
    BY <1>1, <1>4 DEF IInv, SlotTypes
  <2> QED BY <1>1, <2>1, <2>2, <2>3 DEF IInv, SlotTypes, ObjectsOf
<1>6. TokensInv'
  <2>1. \A u, v \in Trackables : token'[u] # None /\ token'[u] = token'[v] => u = v
    BY <1>2 DEF IInv, TokensInv
  <2>2. ASSUME NEW s \in Slots, slot'[s] # None, NEW i \in DOMAIN slot'[s]
        PROVE  TokenOK(slot[s][i])'
    <3>1. slot[s] # None /\ i \in DOMAIN slot[s] /\ slot'[s][i] = Gone(slot[s][i], t)
      BY <2>2, EntriesGone
    <3> PICK e, g : e = slot[s][i] /\ g = Gone(e, t)
      OBVIOUS
    <3>2. e \in Entry /\ TokenOK(e)
      BY <3>1, EntriesKnown DEF Known
    <3>3. /\ g \in Entry /\ g.kind = e.kind /\ g.to = e.to
          /\ e.kind = "trackable" => g.of = IF e.of = t THEN None ELSE e.of
      BY <3>2, GoneEntry
    <3>4. CASE e.kind = "trackable"
      <4>1. e.to \in Tokens /\ e.to # None /\ e.of \in Trackables \cup {None}
        BY <3>2, <3>4, SlotsAssumption DEF Entry
      <4>2. CASE e.of = t
        <5>1. token[t] = e.to /\ g.of = None
          BY <3>2, <3>3, <3>4, <4>1, <4>2, SlotsAssumption DEF TokenOK
        <5>2. \A u \in Trackables : token'[u] # e.to
          BY <1>1, <1>2, <4>1, <5>1 DEF IInv, TokensInv
        <5> QED BY <3>1, <3>3, <5>1, <5>2 DEF TokenOK
      <4>3. CASE e.of # t
        <5>1. g.of = e.of
          BY <3>3, <3>4, <4>3
        <5>2. IF e.of = None THEN \A u \in Trackables : token'[u] # e.to
              ELSE token'[e.of] = e.to
          BY <1>2, <3>2, <3>4, <4>1, <4>3 DEF TokenOK
        <5> QED BY <3>1, <3>3, <5>1, <5>2 DEF TokenOK
      <4> QED BY <4>2, <4>3
    <3>5. CASE e.kind # "trackable"
      BY <3>1, <3>3, <3>5 DEF TokenOK
    <3> QED BY <3>4, <3>5
  <2> QED BY <2>1, <2>2 DEF TokensInv
<1>7. ASSUME NEW c \in Callers PROVE CallOK(c)'
  <2>1. SlotTypes /\ CallOK(c) /\ NoneRevived
    BY <1>1 DEF IInv, CallsInv, NoneRevived, Owned
  <2>2. ASSUME call[c] # None PROVE SameEntries(call[c].slot)
    <3>1. call[c].slot \in Slots /\ slot[call[c].slot] # None
      BY <2>1, <2>2 DEF SlotTypes, Call, CallOK
    <3> PICK s : s = call[c].slot
      OBVIOUS
    <3>2. /\ slot'[s] # None /\ Len(slot'[s]) = Len(slot[s])
          /\ \A i \in DOMAIN slot[s] :
                slot'[s][i].kind = slot[s][i].kind /\ slot'[s][i].to = slot[s][i].to
      BY <3>1, EntriesGone, GoneEntry
    <3>3. DOMAIN slot[s] = 1..Len(slot[s])
      BY <2>1, <3>1 DEF SlotTypes
    <3> QED BY <3>2, <3>3 DEF SameEntries
  <2> QED BY <1>1, <2>1, <2>2, CallKept
<1> QED BY <1>3, <1>5, <1>6, <1>7 DEF IInv, CallsInv
-----------------------------------------------------------------------------
(* Calls of slots.                                                           *)

LEMMA CellsDisjoint ==
  ASSUME NEW c \in Callers
  PROVE  /\ CellsOf(c) \subseteq Cells /\ CellsOf(c) \subseteq Handles
         /\ \A i \in 0..MaxTracked : <<c, i>> \in CellsOf(c)
         /\ \A d \in Callers \ {c} : \A k \in CellsOf(d) : k \notin CellsOf(c)
BY SlotsAssumption DEF CellsOf, Cells

(* What is left to show of a step of a call. *)
LEMMA CallStep ==
  ASSUME IInv, NEW c \in Callers, ObjInv', CallOK(c)', NoneRevived,
         slot' = slot, token' = token, watched' = watched, invoker' = invoker,
         call' \in [Callers -> Call \cup {None}],
         \A d \in Callers \ {c} : call'[d] = call[d],
         \A k \in Handles \ CellsOf(c) : handle'[k] = handle[k]
  PROVE  IInv'
<1>1. SlotTypes' /\ TokensInv'
  BY DEF IInv, SlotTypes, ObjectsOf, TokensInv, TokenOK
<1>2. ASSUME NEW d \in Callers \ {c} PROVE CallOK(d)'
  <2>1. SlotTypes /\ CallOK(d) /\ \A k \in CellsOf(d) : handle'[k] = handle[k]
    BY CellsDisjoint DEF IInv, CallsInv
  <2>2. call[d] # None => SameEntries(call[d].slot)
    BY <2>1 DEF SameEntries, CallOK
  <2> QED BY <2>1, <2>2, CallKept
<1> QED BY <1>1, <1>2 DEF IInv, CallsInv

LEMMA EnterStep ==
  ASSUME IInv, NEW c \in Callers, NEW s \in Slots, Enter(c, s) PROVE IInv'
<1> PICK new : new = [slot |-> s, at |-> 1,
                      step |-> IF slot[s] = << >> THEN "running" ELSE "lock"]
  OBVIOUS
<1>1. /\ call[c] = None /\ slot[s] # None /\ call' = [call EXCEPT ![c] = new]
      /\ obj' = obj /\ invoker' = invoker /\ handle' = handle /\ watched' = watched
      /\ slot' = slot /\ token' = token
  BY DEF Enter, vars
<1>2. new \in Call /\ new # None
  <2>1. new \in Call
    BY DEF Call
  <2> QED BY <2>1, NoneAssumption
<1>3. /\ call' \in [Callers -> Call \cup {None}] /\ call'[c] = new
      /\ \A d \in Callers \ {c} : call'[d] = call[d]
  BY <1>1, <1>2 DEF IInv, SlotTypes
<1>4. ObjInv' /\ NoneRevived
  BY <1>1 DEF IInv, ObjInv, ObjTypes, ObjectsSound, Owned, Postconstructed, OnceInv, NoneRevived
<1>5. CallOK(c)'
  <2>1. slot[s] \in Seq(Entry) /\ \A k \in CellsOf(c) : handle[k] = None
    BY <1>1 DEF IInv, SlotTypes, CallsInv, CallOK
  <2>2. Len(slot[s]) \in Nat /\ (slot[s] = << >> <=> Len(slot[s]) = 0)
    BY <2>1
  <2>3. handle[<<c, 0>>] = None
    BY <2>1, CellsDisjoint, SlotsAssumption
  <2>4. /\ call'[c].slot = s /\ call'[c].at = 1
        /\ call'[c].step = IF slot[s] = << >> THEN "running" ELSE "lock"
    BY <1>3
  <2>5. Done(c)' = 0
    BY <1>1, <2>2, <2>4 DEF Done
  <2>6. call'[c].step # "running" => call'[c].at <= Len(slot'[call'[c].slot])
    BY <1>1, <2>2, <2>4
  <2>7. Temporary(c)'
    BY <1>1, <2>3, <2>4 DEF Temporary
  <2> QED BY <1>1, <1>2, <1>3, <2>4, <2>5, <2>6, <2>7 DEF CallOK
<1> QED BY <1>1, <1>3, <1>4, <1>5, CallStep

LEMMA ReleaseStep ==
  ASSUME IInv, NEW c \in Callers, Release(c), UNCHANGED <<invoker, watched, slot, token>>
  PROVE  IInv'
<1> PICK han : han = [h \in Handles |-> IF h \in CellsOf(c) THEN None ELSE handle[h]]
  OBVIOUS
<1>1. SetHandles(han) /\ handle' = han /\ call' = [call EXCEPT ![c] = None]
  BY DEF Release, SetHandles
<1>2. ObjInv /\ handle \in [Handles -> Objs \cup {None}]
  BY DEF IInv, ObjInv, ObjTypes
<1>3. /\ han \in [Handles -> Objs \cup {None}]
      /\ \A k \in CellsOf(c) : han[k] = None
      /\ \A k \in Handles \ CellsOf(c) : han[k] = handle[k]
  BY <1>2, CellsDisjoint
<1>4. /\ call' \in [Callers -> Call \cup {None}] /\ call'[c] = None
      /\ \A d \in Callers \ {c} : call'[d] = call[d]
  BY <1>1 DEF IInv, SlotTypes
<1>5. \A h \in Handles : han[h] # None => han[h] = handle[h]
  BY <1>3
<1>6. ObjInv'
  BY <1>1, <1>2, <1>3, <1>5, SetHandlesStep
<1>7. NoneRevived
  BY <1>1, <1>2, <1>5, DeconstructAssumption DEF Owned, NoneRevived, ObjInv, ObjTypes
<1>8. CallOK(c)'
  BY <1>1, <1>3, <1>4 DEF CallOK, CellsOf
<1> QED BY <1>1, <1>3, <1>4, <1>6, <1>7, <1>8, CallStep

(* A thread at an entry. *)
LEMMA EntryAt ==
  ASSUME IInv, NEW c \in Callers, At(c, "lock") \/ At(c, "push")
  PROVE  LET s == call[c].slot
             n == call[c].at
         IN  /\ call[c] \in Call /\ s \in Slots /\ slot[s] # None
             /\ slot[s] \in Seq(Entry) /\ Len(slot[s]) \in Nat
             /\ n \in 1..Len(slot[s]) /\ n <= MaxTracked /\ n \in Nat \ {0}
             /\ Current(c) = slot[s][n] /\ Current(c) \in Entry
             /\ \A i \in 1..(n - 1) : Holds(<<c, i>>, slot[s][i])
             /\ Temporary(c)
             /\ Current(c).kind # "trackable" /\ Current(c).to # None =>
                   Current(c).to \in Objs /\ Current(c).to \in watched
<1>1. call[c] # None /\ call[c].step # "running" /\ CallOK(c)
  BY DEF At, IInv, CallsInv
<1>2. call[c] \in Call
  BY <1>1 DEF IInv, SlotTypes
<1> PICK s, n : s = call[c].slot /\ n = call[c].at
  OBVIOUS
<1>3. s \in Slots /\ n \in Nat \ {0} /\ slot[s] # None /\ n <= Len(slot[s])
  BY <1>1, <1>2 DEF Call, CallOK
<1>4. slot[s] \in Seq(Entry) /\ Len(slot[s]) <= MaxTracked
  BY <1>3 DEF IInv, SlotTypes
<1>5. Len(slot[s]) \in Nat /\ n \in 1..Len(slot[s]) /\ n <= MaxTracked
  BY <1>3, <1>4, SlotsAssumption
<1>6. Current(c) = slot[s][n] /\ Current(c) \in Entry
  BY <1>4, <1>5 DEF Current
<1>7. Done(c) = n - 1
  BY <1>1 DEF Done
<1>8. (\A i \in 1..(n - 1) : Holds(<<c, i>>, slot[s][i])) /\ Temporary(c)
  BY <1>1, <1>7 DEF CallOK
<1>9. ASSUME Current(c).kind # "trackable", Current(c).to # None
      PROVE  Current(c).to \in Objs /\ Current(c).to \in watched
  <2>1. Current(c).to \in watched
    BY <1>3, <1>4, <1>5, <1>6, <1>9, ObjectsOfEntries DEF IInv, SlotTypes
  <2> QED BY <2>1 DEF IInv, ObjInv, ObjTypes
<1> QED BY <1>2, <1>3, <1>4, <1>5, <1>6, <1>8, <1>9
(* The temporary is locked. *)
LEMMA LockedStep ==
  ASSUME IInv, NEW c \in Callers, At(c, "lock"), Locked(c),
         UNCHANGED <<invoker, watched, slot, token>>
  PROVE  IInv'
<1> PICK s, n : s = call[c].slot /\ n = call[c].at
  OBVIOUS
<1> PICK e, g, o : e = Current(c) /\ g = <<c, 0>> /\ o = lock_weak_ptr_visitor(e)
  OBVIOUS
<1> PICK new : new = [call[c] EXCEPT !.step = "push"]
  OBVIOUS
<1>1. /\ handle' = [handle EXCEPT ![g] = o] /\ call' = [call EXCEPT ![c] = new]
      /\ obj' = obj
  BY Zenon DEF Locked
<1>2. /\ call[c] \in Call /\ s \in Slots /\ slot[s] # None
      /\ slot[s] \in Seq(Entry) /\ Len(slot[s]) \in Nat
      /\ n \in 1..Len(slot[s]) /\ n <= MaxTracked /\ n \in Nat \ {0}
      /\ e = slot[s][n] /\ e \in Entry
      /\ \A i \in 1..(n - 1) : Holds(<<c, i>>, slot[s][i])
      /\ Temporary(c)
      /\ e.kind # "trackable" /\ e.to # None => e.to \in Objs /\ e.to \in watched
  BY EntryAt, Zenon
<1>3. g \in CellsOf(c) /\ g \in Handles /\ handle[g] = None
  BY <1>2, CellsDisjoint, SlotsAssumption DEF At, Temporary
<1>4. expired(e) <=> IF e.kind = "trackable" THEN \A t \in Trackables : token[t] # e.to
                     ELSE Lost(e)
  BY OwnersOwned DEF expired, Lost
<1>5. /\ o = None \/ (o = e.to /\ e.kind # "trackable" /\ ~Lost(e))
      /\ e.kind # "trackable" /\ o = None => Lost(e)
  BY <1>4 DEF lock_weak_ptr_visitor, Lost
<1>6. o # None => o \in Objs /\ obj[o].post >= 1 /\ Owned(o, invoker, handle)
  BY <1>2, <1>5 DEF Lost, IInv, ObjInv, Postconstructed
<1>7. ObjInv'
  BY <1>1, <1>3, <1>6, GainHandle DEF IInv
<1>8. handle' \in [Handles -> Objs \cup {None}] /\ handle'[g] = o
      /\ \A k \in Handles \ {g} : handle'[k] = handle[k]
  BY <1>1, <1>3, <1>6 DEF IInv, ObjInv, ObjTypes
<1>9. \A x \in Objs : Owned(x, invoker', handle') <=> Owned(x, invoker, handle)
  BY <1>3, <1>6, <1>8, DeconstructAssumption DEF Owned
<1>10. NoneRevived
  BY <1>9 DEF NoneRevived, IInv, ObjInv, ObjTypes
<1>11. new \in Call /\ new.slot = s /\ new.at = n /\ new.step = "push" /\ new # None
  <2>1. new \in Call /\ new.slot = s /\ new.at = n /\ new.step = "push"
    BY <1>2 DEF Call
  <2> QED BY <2>1, NoneAssumption
<1>12. /\ call' \in [Callers -> Call \cup {None}] /\ call'[c] = new
       /\ \A d \in Callers \ {c} : call'[d] = call[d]
  BY <1>1, <1>11 DEF IInv, SlotTypes
<1>13. CallOK(c)'
  <2>1. Done(c)' = n - 1
    BY <1>11, <1>12 DEF Done
  <2>2. ASSUME NEW i \in 1..(n - 1) PROVE Holds(<<c, i>>, slot[s][i])'
    <3>1. <<c, i>> \in Handles \ {g}
      BY <1>2, CellsDisjoint, SlotsAssumption
    <3> QED BY <1>2, <1>8, <3>1 DEF Holds
  <2>3. Holds(<<c, 0>>, Current(c))' \/ (Lost(Current(c))' /\ handle'[<<c, 0>>] = None)
    <3>1. Current(c)' = e
      BY <1>2, <1>11, <1>12 DEF Current
    <3>2. handle'[<<c, 0>>] = o
      BY <1>8
    <3>3. CASE e.kind = "trackable" \/ o # None
      BY <1>5, <3>1, <3>2, <3>3 DEF Holds
    <3>4. CASE e.kind # "trackable" /\ o = None
      <4>1. e.to = None \/ ~Owned(e.to, invoker', handle')
        BY <1>2, <1>5, <1>9, <3>4 DEF Lost
      <4> QED BY <3>1, <3>2, <3>4, <4>1 DEF Lost
    <3> QED BY <3>3, <3>4
  <2>4. Temporary(c)'
    BY <1>11, <1>12, <2>3 DEF Temporary
  <2> QED BY <1>2, <1>11, <1>12, <2>1, <2>2, <2>4 DEF CallOK
<1> QED BY <1>3, <1>7, <1>8, <1>10, <1>12, <1>13, CallStep

(* It is moved to its element of the vector. *)
LEMMA PushedStep ==
  ASSUME IInv, NEW c \in Callers, At(c, "push"), ~expired(Current(c)), Pushed(c),
         UNCHANGED <<invoker, watched, slot, token>>
  PROVE  IInv'
<1> PICK s, n : s = call[c].slot /\ n = call[c].at
  OBVIOUS
<1> PICK e, g, k, o : e = Current(c) /\ g = <<c, 0>> /\ k = <<c, n>> /\ o = handle[g]
  OBVIOUS
<1> PICK han : han = [handle EXCEPT ![g] = None, ![k] = o]
  OBVIOUS
<1>a. PICK new : new = IF call[c].at = Len(slot[call[c].slot])
                      THEN [call[c] EXCEPT !.step = "running"]
                      ELSE [slot |-> call[c].slot, at |-> call[c].at + 1, step |-> "lock"]
  OBVIOUS
<1>1. SetHandles(han) /\ handle' = han /\ call' = [call EXCEPT ![c] = new]
  <2>1. SetHandles([handle EXCEPT ![<<c, 0>>] = None, ![<<c, call[c].at>>] = handle[<<c, 0>>]])
    BY Zenon DEF Pushed, shared_ptr_copy
  <2>2. call' = [call EXCEPT ![c] = IF call[c].at = Len(slot[call[c].slot])
                                    THEN [call[c] EXCEPT !.step = "running"]
                                    ELSE [slot |-> call[c].slot, at |-> call[c].at + 1, step |-> "lock"]]
    BY Zenon DEF Pushed
  <2>3. SetHandles(han)
    BY <2>1, Zenon
  <2> QED BY <1>a, <2>2, <2>3, Zenon DEF SetHandles
<1>2. /\ call[c] \in Call /\ s \in Slots /\ slot[s] # None
      /\ slot[s] \in Seq(Entry) /\ Len(slot[s]) \in Nat
      /\ n \in 1..Len(slot[s]) /\ n <= MaxTracked /\ n \in Nat \ {0}
      /\ e = slot[s][n] /\ e \in Entry
      /\ \A i \in 1..(n - 1) : Holds(<<c, i>>, slot[s][i])
      /\ Temporary(c)
      /\ e.kind # "trackable" /\ e.to # None => e.to \in Objs /\ e.to \in watched
  BY EntryAt, Zenon
<1>3. /\ g \in CellsOf(c) /\ g \in Handles /\ k \in CellsOf(c) /\ k \in Handles /\ g # k
      /\ handle \in [Handles -> Objs \cup {None}]
  BY <1>2, CellsDisjoint, SlotsAssumption DEF IInv, ObjInv, ObjTypes
<1>4. /\ han \in [Handles -> Objs \cup {None}] /\ han[g] = None /\ han[k] = o
      /\ \A h \in Handles \ {g, k} : han[h] = handle[h]
  BY <1>3
<1>5. e.kind # "trackable" => e.to # None /\ o = e.to
  <2>1. ~Lost(e) \/ e.kind = "trackable"
    BY OwnersOwned DEF expired, Lost
  <2>2. Holds(g, e) \/ Lost(e)
    BY <1>2 DEF Temporary, At
  <2> QED BY <2>1, <2>2 DEF Holds
<1>6. \A h \in Handles : han[h] # None => \E h0 \in Handles : handle[h0] = han[h]
  BY <1>3, <1>4
<1>7. ObjInv'
  BY <1>1, <1>4, <1>6, SetHandlesStep DEF IInv
<1>8. NoneRevived
  BY <1>1, <1>6, DeconstructAssumption DEF Owned, NoneRevived, IInv, ObjInv, ObjTypes
<1>9. /\ new \in Call /\ new.slot = s
      /\ \/ n = Len(slot[s]) /\ new.step = "running"
         \/ n < Len(slot[s]) /\ new.step = "lock" /\ new.at = n + 1
  <2>1. CASE n = Len(slot[s])
    <3>1. new = [call[c] EXCEPT !.step = "running"]
      BY <1>a, <2>1, Zenon
    <3> QED BY <1>2, <2>1, <3>1 DEF Call
  <2>2. CASE n # Len(slot[s])
    <3> PICK m : m = n + 1
      OBVIOUS
    <3>1. m \in Nat \ {0} /\ n < Len(slot[s])
      BY <1>2, <2>2
    <3>2. new = [slot |-> s, at |-> m, step |-> "lock"]
      BY <1>a, <2>2, Zenon
    <3> QED BY <1>2, <3>1, <3>2 DEF Call
  <2> QED BY <2>1, <2>2
<1>10. new # None
  BY <1>9, NoneAssumption
<1>11. /\ call' \in [Callers -> Call \cup {None}] /\ call'[c] = new
       /\ \A d \in Callers \ {c} : call'[d] = call[d]
  <2> HIDE <1>9
  <2>1. new \in Call
    BY <1>9
  <2> QED BY <1>1, <2>1 DEF IInv, SlotTypes
<1>12. CallOK(c)'
  <2>1. Done(c)' = n
    BY <1>2, <1>9, <1>11 DEF Done
  <2>2. ASSUME NEW i \in 1..n PROVE Holds(<<c, i>>, slot[s][i])'
    <3>1. CASE i = n
      BY <1>1, <1>2, <1>4, <1>5, <3>1 DEF Holds
    <3>2. CASE i # n
      <4>1. <<c, i>> \in Handles \ {g, k} /\ i \in 1..(n - 1)
        BY <1>2, <3>2, CellsDisjoint, SlotsAssumption
      <4> QED BY <1>1, <1>2, <1>4, <4>1 DEF Holds
    <3> QED BY <3>1, <3>2
  <2>3. Temporary(c)'
    BY <1>1, <1>4, <1>9, <1>11 DEF Temporary
  <2>4. call'[c].step # "running" => call'[c].at <= Len(slot'[call'[c].slot])
    BY <1>2, <1>9, <1>11
  <2> QED BY <1>2, <1>9, <1>10, <1>11, <2>1, <2>2, <2>3, <2>4 DEF CallOK
<1> QED BY <1>1, <1>3, <1>4, <1>7, <1>8, <1>11, <1>12, CallStep
-----------------------------------------------------------------------------
(* The theorems.                                                             *)

LEMMA InitInv ==
  ASSUME SlotsInit PROVE IInv
<1>1. /\ slot = [s \in Slots |-> None] /\ token = [t \in Trackables |-> None]
      /\ call = [c \in Callers |-> None] /\ Init
  BY DEF SlotsInit
<1>2. ObjInv /\ handle = [h \in Handles |-> None] /\ watched = {}
  BY <1>1, InitObjInv DEF Init
<1>3. \A s \in Slots : slot[s] = None
  BY <1>1
<1>4. ObjectsOf(slot) = {}
  BY <1>3, ObjectsOfEntries
<1>5. SlotTypes /\ TokensInv
  BY <1>1, <1>2, <1>3, <1>4 DEF SlotTypes, TokensInv
<1>6. CallsInv
  BY <1>1, <1>2, CellsDisjoint DEF CallsInv, CallOK
<1> QED BY <1>2, <1>5, <1>6 DEF IInv

LEMMA StutterInv ==
  ASSUME IInv, UNCHANGED allVars PROVE IInv'
<1>1. /\ obj' = obj /\ invoker' = invoker /\ handle' = handle /\ watched' = watched
      /\ slot' = slot /\ token' = token /\ call' = call
  BY DEF allVars, vars, slotVars
<1>2. ObjInv'
  BY <1>1 DEF IInv, ObjInv, ObjTypes, ObjectsSound, Owned, Postconstructed, OnceInv
<1>3. SlotTypes' /\ TokensInv'
  BY <1>1 DEF IInv, SlotTypes, ObjectsOf, TokensInv, TokenOK
<1>4. ASSUME NEW c \in Callers PROVE CallOK(c)'
  <2>1. SlotTypes /\ CallOK(c) /\ NoneRevived
    BY <1>1 DEF IInv, CallsInv, NoneRevived, Owned
  <2>2. call[c] # None => SameEntries(call[c].slot)
    BY <1>1, <2>1 DEF SameEntries, CallOK
  <2> QED BY <1>1, <2>1, <2>2, CallKept
<1> QED BY <1>2, <1>3, <1>4 DEF IInv, CallsInv

LEMMA NextInv ==
  ASSUME IInv, SlotsNext PROVE IInv'
<1>1. CASE Program(Pointers) /\ UNCHANGED slotVars
  BY <1>1, ProgramInv
<1>2. ASSUME NEW s \in Slots,
             \/ \E a \in Arguments : init_slot_function(s, a)
             \/ \E h \in Pointers : track(s, h) \/ track_foreign(s, h)
             \/ \E r \in Slots : track_slot(s, r) \/ CopySlot(s, r)
             \/ DestroySlot(s)
      PROVE  IInv'
  BY <1>2, SlotStep
<1>3. ASSUME NEW t \in Trackables, trackable(t) PROVE IInv'
  BY <1>3, NewToken
<1>4. ASSUME NEW t \in Trackables, DestroyTrackable(t) PROVE IInv'
  BY <1>4, DestroyTrackableStep
<1>5. ASSUME NEW t \in Trackables, NEW u \in Trackables, trackable_copy(t, u) PROVE IInv'
  BY <1>5, NewToken DEF trackable_copy
<1>6. ASSUME NEW t \in Trackables, NEW u \in Trackables, assign(t, u) PROVE IInv'
  BY <1>6, StutterInv DEF assign
<1>7. ASSUME NEW c \in Callers, NEW s \in Slots, Enter(c, s) PROVE IInv'
  BY <1>7, EnterStep
<1>8. ASSUME NEW c \in Callers, lock(c) PROVE IInv'
  <2>1. UNCHANGED <<invoker, watched, slot, token>>
    BY <1>8 DEF lock
  <2>2. CASE At(c, "lock") /\ Locked(c)
    BY <2>1, <2>2, LockedStep
  <2>3. CASE At(c, "push") /\ ~expired(Current(c)) /\ Pushed(c)
    BY <2>1, <2>3, PushedStep
  <2>4. CASE At(c, "push") /\ expired(Current(c)) /\ Release(c)
    BY <2>1, <2>4, ReleaseStep
  <2> QED BY <1>8, <2>2, <2>3, <2>4 DEF lock
<1>9. ASSUME NEW c \in Callers, Return(c) PROVE IInv'
  BY <1>9, ReleaseStep DEF Return
<1> QED BY <1>1, <1>2, <1>3, <1>4, <1>5, <1>6, <1>7, <1>8, <1>9 DEF SlotsNext

(* Every reachable state satisfies the inductive invariant.                  *)
THEOREM SlotsInvariant == SlotsSpec => []IInv
<1>1. IInv /\ [SlotsNext]_allVars => IInv'
  BY NextInv, StutterInv
<1> QED BY InitInv, <1>1, PTL DEF SlotsSpec

LEMMA InvImplies ==
  ASSUME IInv
  PROVE  /\ SlotsTypeOK /\ AccessibleIsComplete /\ PredestructedOnce
         /\ PostconstructedOnce /\ TrackedAliveWhileRunning /\ TrackableExpiresWithObject
<1>1. ObjTypes /\ ObjectsSound /\ Postconstructed /\ OnceInv /\ SlotTypes /\ CallsInv /\ TokensInv
  BY DEF IInv, ObjInv
<1>2. SlotsTypeOK
  <2>1. \A o \in Objs : o \in watched \/ Owners(o, invoker, handle) # {} => Allocated(obj[o])
    BY <1>1, OwnersOwned DEF ObjectsSound, Sound, Postconstructed
  <2>2. TypeOK
    BY <1>1, <2>1 DEF ObjTypes, TypeOK, Allocated, Invoker
  <2>3. \A s \in Slots : slot[s] # None => ToSet(slot[s]) \subseteq Entry
    BY <1>1 DEF SlotTypes, ToSet
  <2>4. \A c \in Callers : call[c] = None => \A k \in CellsOf(c) : handle[k] = None
    BY <1>1 DEF CallsInv, CallOK
  <2> QED BY <1>1, <2>2, <2>3, <2>4 DEF SlotsTypeOK, SlotTypes
<1>3. AccessibleIsComplete
  <2>1. \A h \in Handles : handle[h] # None => handle[h] \in Objs /\ Owned(handle[h], invoker, handle)
    BY <1>1 DEF ObjTypes, Owned
  <2> QED BY <1>1, <2>1 DEF AccessibleIsComplete, ObjectsSound, Sound, Postconstructed
<1>4. PredestructedOnce
  BY <1>1 DEF PredestructedOnce, ObjectsSound, Sound, Allocated
<1>5. PostconstructedOnce
  BY <1>1 DEF PostconstructedOnce, OnceInv, Once
<1>6. TrackedAliveWhileRunning
  <2>1. SUFFICES ASSUME NEW c \in Callers, At(c, "running"), NEW e \in ToSet(slot[call[c].slot]),
                        e.kind # "trackable"
                 PROVE  e.to # None /\ obj[e.to].alive
    BY DEF TrackedAliveWhileRunning
  <2> PICK s : s = call[c].slot
    OBVIOUS
  <2>2. /\ call[c] # None /\ call[c].step = "running" /\ CallOK(c) /\ s \in Slots
        /\ slot[s] # None /\ slot[s] \in Seq(Entry)
    BY <1>1, <2>1 DEF At, CallsInv, CallOK, SlotTypes, Call
  <2>3. PICK i \in 1..Len(slot[s]) : e = slot[s][i]
    BY <2>1, <2>2 DEF ToSet
  <2>4. Holds(<<c, i>>, e)
    BY <2>2, <2>3 DEF CallOK, Done
  <2>5. <<c, i>> \in Handles
    BY <1>1, <2>2, <2>3, CellsDisjoint, SlotsAssumption DEF SlotTypes
  <2>6. e.to # None /\ e.to \in Objs /\ Owned(e.to, invoker, handle)
    BY <1>1, <2>1, <2>4, <2>5 DEF Holds, ObjTypes, Owned
  <2> QED BY <1>1, <2>6 DEF ObjectsSound, Sound
<1>7. TrackableExpiresWithObject
  <2> SUFFICES ASSUME NEW e \in Entries, e.kind = "trackable"
               PROVE  expired(e) <=> e.of = None
    BY DEF TrackableExpiresWithObject
  <2>1. PICK s \in Slots : slot[s] # None /\ \E i \in DOMAIN slot[s] : e = slot[s][i]
    BY DEF Entries, ToSet
  <2>2. Known(e)
    BY <2>1, EntriesKnown
  <2>3. e.of \in Trackables \cup {None} /\ TokenOK(e)
    BY <2>2 DEF Known, Entry
  <2> QED BY <2>3 DEF TokenOK, expired
<1> QED BY <1>2, <1>3, <1>4, <1>5, <1>6, <1>7

(* Types; and a call that has ended, also by expired_slot from the middle    *)
(* of lock(), keeps no object locked.                                        *)
THEOREM NothingKeptLocked == SlotsSpec => []SlotsTypeOK
BY SlotsInvariant, InvImplies, PTL

(* deconstruct() and deconstruct_ptr(): what the program has a shared_ptr to *)
(* is alive and postconstructed, whatever threw before.                      *)
THEOREM AccessibleAlways == SlotsSpec => []AccessibleIsComplete
BY SlotsInvariant, InvImplies, PTL

(* deconstruct_deleter: an object that was constructed is predestructed      *)
(* once, and before it is destroyed.                                         *)
THEOREM PredestructedAlways == SlotsSpec => []PredestructedOnce
BY SlotsInvariant, InvImplies, PTL

(* postconstructor_invoker: an object whose invoker was not copied before it *)
(* was converted is postconstructed once.                                    *)
THEOREM PostconstructedAlways == SlotsSpec => []PostconstructedOnce
BY SlotsInvariant, InvImplies, PTL

(* slot::operator(): while the slot function runs, what it tracks by a       *)
(* shared_ptr is alive, whatever other threads drop.                         *)
THEOREM TrackedAlive == SlotsSpec => []TrackedAliveWhileRunning
BY SlotsInvariant, InvImplies, PTL

(* trackable: a slot expires with the very object that was bound to it.      *)
THEOREM TrackableExpires == SlotsSpec => []TrackableExpiresWithObject
BY SlotsInvariant, InvImplies, PTL
=============================================================================
