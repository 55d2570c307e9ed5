---------------------------- MODULE HandlesProofs ----------------------------
(* Proofs about Handles: for any number of connections, blocks and handles,  *)
(* a connection is blocked exactly while a block of it holds its blocker,    *)
(* and a scoped_connection lets go of a connected slot only to another       *)
(* handle.                                                                   *)
EXTENDS Handles, TLAPS

(* What does not exist refers to nothing. *)
GoneRefersToNothing ==
    /\ \A h \in (Handles \cup Blocks) \ live : ref[h] = None
    /\ \A k \in Blocks \ live : blocker[k] = None

(* A body that is destroyed has no blocker. *)
FreeHasNoBlocker == \A b \in Bodies : body[b] = "free" => weakBlocker[b] = None

(* Every block that blocks a body that is there holds the body's blocker...  *)
HoldsItsBlocker ==
    \A k \in Blocks :
        blocker[k] # None /\ ref[k] # None /\ body[ref[k]] # "free"
            => blocker[k] = weakBlocker[ref[k]]

(* ... and nobody else does. *)
OnlyItsBlocks ==
    \A k \in Blocks, b \in Bodies :
        weakBlocker[b] # None /\ blocker[k] = weakBlocker[b] => ref[k] = b

IInv == TypeOK /\ GoneRefersToNothing /\ FreeHasNoBlocker /\ HoldsItsBlocker /\ OnlyItsBlocks

-----------------------------------------------------------------------------
(* No handle, no block and no body exists at first. *)
LEMMA InitIInv == Init => IInv
BY HandlesAssumption DEF Init, IInv, TypeOK, GoneRefersToNothing, FreeHasNoBlocker,
   HoldsItsBlocker, OnlyItsBlocks

(* What the operations on handles leave alone: they neither touch a block or *)
(* a blocker nor destroy or create a body.                                   *)
BlocksUntouched ==
    /\ \A k \in Blocks : ref'[k] = ref[k] /\ (k \in live' <=> k \in live)
    /\ \A b \in Bodies : body'[b] = "free" <=> body[b] = "free"
    /\ UNCHANGED <<weakBlocker, blocker>>

(* Such an operation keeps the invariant if a handle it destroys is cleared. *)
LEMMA UntouchedKeepsIInv ==
  ASSUME IInv, BlocksUntouched, TypeOK',
         \A h \in Handles : h \notin live' => ref'[h] = None
  PROVE  IInv'
<1>1. GoneRefersToNothing'
  BY DEF IInv, BlocksUntouched, GoneRefersToNothing
<1>2. FreeHasNoBlocker'
  BY DEF IInv, BlocksUntouched, FreeHasNoBlocker
<1>3. HoldsItsBlocker'
  BY DEF IInv, TypeOK, BlocksUntouched, HoldsItsBlocker
<1>4. OnlyItsBlocks'
  BY DEF IInv, BlocksUntouched, OnlyItsBlocks
<1> QED
  BY <1>1, <1>2, <1>3, <1>4 DEF IInv

(* disconnect() leaves a body that is there where it is. *)
LEMMA DisconnectKeepsBodies ==
  ASSUME TypeOK, NEW w \in Bodies \cup {None}
  PROVE  /\ disconnect(w) \in [Bodies -> {"connected", "disconnected", "free"}]
         /\ \A b \in Bodies : disconnect(w)[b] = "free" <=> body[b] = "free"
BY HandlesAssumption DEF TypeOK, disconnect, Locked

(* The operations of connection and scoped_connection are of that kind. *)
LEMMA HandleOperation ==
  ASSUME IInv, NEW h \in Handles, NEW g \in Handles,
         \/ DefaultConstruct(h) \/ DisconnectBy(h) \/ Destroy(h)
         \/ CopyConstruct(h, g) \/ CopyAssign(h, g)
         \/ MoveConstruct(h, g) \/ MoveAssign(h, g)
         \/ Release(h, g) \/ Swap(h, g)
  PROVE  IInv'
<1>1. /\ TypeOK /\ ref[h] \in Bodies \cup {None} /\ ref[g] \in Bodies \cup {None}
      /\ h \notin Blocks /\ g \notin Blocks
  BY HandlesAssumption DEF IInv, TypeOK, Handles
<1>2. body' \in {body, disconnect(ref[h])}
  BY DEF DefaultConstruct, DisconnectBy, Destroy, CopyConstruct, CopyAssign,
     MoveConstruct, MoveAssign, Release, Swap
<1>3. /\ body' \in [Bodies -> {"connected", "disconnected", "free"}]
      /\ \A b \in Bodies : body'[b] = "free" <=> body[b] = "free"
  BY <1>1, <1>2, DisconnectKeepsBodies DEF TypeOK
<1>4. UNCHANGED <<weakBlocker, blocker>>
  BY DEF DefaultConstruct, DisconnectBy, Destroy, CopyConstruct, CopyAssign,
     MoveConstruct, MoveAssign, Release, Swap
<1>5. live' \in {live, live \cup {h}, live \ {h}}
  BY DEF DefaultConstruct, DisconnectBy, Destroy, CopyConstruct, CopyAssign,
     MoveConstruct, MoveAssign, Release, Swap
<1> DEFINE HandlesKept ==
              /\ ref' \in [Handles \cup Blocks -> Bodies \cup {None}]
              /\ \A k \in Blocks : ref'[k] = ref[k]
              /\ \A x \in Handles : x \notin live' => ref'[x] = None
<1>6. HandlesKept
  <2>1. ASSUME DefaultConstruct(h) \/ DisconnectBy(h)
        PROVE  HandlesKept
    BY <2>1 DEF IInv, TypeOK, GoneRefersToNothing, DefaultConstruct, DisconnectBy
  <2>2. ASSUME Destroy(h)
        PROVE  HandlesKept
    BY <1>1, <2>2 DEF IInv, TypeOK, GoneRefersToNothing, Destroy
  <2>3. ASSUME CopyConstruct(h, g) \/ CopyAssign(h, g)
        PROVE  HandlesKept
    BY <1>1, <2>3 DEF IInv, TypeOK, GoneRefersToNothing, CopyConstruct, CopyAssign
  <2>4. ASSUME MoveConstruct(h, g) \/ MoveAssign(h, g) \/ Release(h, g)
        PROVE  HandlesKept
    BY <1>1, <2>4 DEF IInv, TypeOK, GoneRefersToNothing, MoveConstruct, MoveAssign, Release,
       MovedRef
  <2>5. ASSUME Swap(h, g)
        PROVE  HandlesKept
    BY <1>1, <2>5 DEF IInv, TypeOK, GoneRefersToNothing, Swap
  <2> QED
    BY <2>1, <2>2, <2>3, <2>4, <2>5
<1>7. TypeOK' /\ BlocksUntouched
  BY <1>1, <1>3, <1>4, <1>5, <1>6 DEF TypeOK, BlocksUntouched
<1> QED
  BY <1>6, <1>7, UntouchedKeepsIInv

(* The steps of the signal and of handles. *)
LEMMA HandleStepIInv ==
  ASSUME IInv, HandleStep
  PROVE  IInv'
<1>1. ASSUME NEW h \in Handles, NEW b \in Bodies, Connect(h, b)
      PROVE  IInv'
  BY <1>1, HandlesAssumption DEF Connect, IInv, TypeOK, GoneRefersToNothing,
     FreeHasNoBlocker, HoldsItsBlocker, OnlyItsBlocks, Handles
<1>2. ASSUME NEW b \in Bodies, Collect(b)
      PROVE  IInv'
  BY <1>2, HandlesAssumption DEF Collect, IInv, TypeOK, GoneRefersToNothing,
     FreeHasNoBlocker, HoldsItsBlocker, OnlyItsBlocks
<1> QED
  BY <1>1, <1>2, HandleOperation DEF HandleStep

(* The blocker that get_blocker() of a body returns refers to that body's    *)
(* blocks only.                                                              *)
LEMMA GetBlocker ==
  ASSUME IInv, NEW b \in Bodies, NEW x \in get_blocker(b)
  PROVE  /\ x \in Blockers
         /\ \A c \in Bodies \ {b} : weakBlocker[c] # x
         /\ \A k \in Blocks : blocker[k] = x => ref[k] = b
         /\ BodyBlocked(b) => x = weakBlocker[b]
         /\ ~BodyBlocked(b) => \A k \in Blocks : blocker[k] # x
<1>1. CASE BodyBlocked(b)
  <2>1. x = weakBlocker[b] /\ x # None /\ x \in Blockers
    BY <1>1 DEF get_blocker, BodyBlocked, IInv, TypeOK
  <2>2. PICK k \in Blocks : blocker[k] = x
    BY <1>1, <2>1 DEF BodyBlocked
  <2>3. \A c \in Bodies : weakBlocker[c] = x => ref[k] = c
    BY <2>1, <2>2 DEF IInv, OnlyItsBlocks
  <2> QED
    BY <1>1, <2>1, <2>3 DEF IInv, OnlyItsBlocks
<1>2. CASE ~BodyBlocked(b)
  BY <1>2 DEF get_blocker, FreshBlockers
<1> QED
  BY <1>1, <1>2

(* block() on a block k that has been constructed, whether before or by the  *)
(* step itself.                                                              *)
LEMMA DoBlockIInv ==
  ASSUME IInv, NEW k \in Blocks, NEW w \in Bodies \cup {None},
         DoBlock(k, w), body' = body,
         live' = live \cup {k}, ref' = [ref EXCEPT ![k] = w],
         k \in live => ref[k] = w
  PROVE  IInv'
<1>1. /\ TypeOK /\ GoneRefersToNothing /\ FreeHasNoBlocker /\ HoldsItsBlocker /\ OnlyItsBlocks
      /\ k \in Handles \cup Blocks /\ ref'[k] = w
      /\ \A j \in (Handles \cup Blocks) \ {k} : ref'[j] = ref[j]
      /\ blocker[k] # None => ref[k] = w
  BY DEF IInv, TypeOK, GoneRefersToNothing
<1>2. CASE blocker[k] # None
  <2>1. UNCHANGED <<body, weakBlocker, blocker>> /\ ref' = ref
    BY <1>1, <1>2 DEF DoBlock, TypeOK
  <2> QED
    BY <1>1, <2>1 DEF IInv, TypeOK, GoneRefersToNothing, FreeHasNoBlocker, HoldsItsBlocker,
       OnlyItsBlocks
<1>3. CASE blocker[k] = None /\ Locked(w) = None
  <2>1. UNCHANGED <<body, weakBlocker>> /\ blocker' = [blocker EXCEPT ![k] = Detached]
    BY <1>3 DEF DoBlock
  <2>2. \A b \in Bodies : b = w => body[b] = "free"
    BY <1>3, HandlesAssumption DEF Locked
  <2> QED
    BY <1>1, <2>1, <2>2, HandlesAssumption DEF IInv, TypeOK, GoneRefersToNothing,
       FreeHasNoBlocker, HoldsItsBlocker, OnlyItsBlocks
<1>4. CASE blocker[k] = None /\ Locked(w) # None
  <2>1. w \in Bodies /\ body[w] # "free"
    BY <1>4 DEF Locked
  <2>2. PICK x \in get_blocker(w) :
            /\ blocker' = [blocker EXCEPT ![k] = x]
            /\ weakBlocker' = [weakBlocker EXCEPT ![w] = x]
    BY <1>4 DEF DoBlock
  <2>3. /\ x \in Blockers /\ x # None
        /\ \A c \in Bodies \ {w} : weakBlocker[c] # x
        /\ \A j \in Blocks : blocker[j] = x => ref[j] = w
        /\ BodyBlocked(w) => x = weakBlocker[w]
    BY <2>1, <2>2, GetBlocker, HandlesAssumption
  <2>4. TypeOK' /\ GoneRefersToNothing' /\ FreeHasNoBlocker'
    BY <1>1, <2>1, <2>2, <2>3 DEF TypeOK, GoneRefersToNothing, FreeHasNoBlocker
  <2>5. \A j \in Blocks : blocker[j] # None /\ ref[j] = w => blocker[j] = x
    <3> SUFFICES ASSUME NEW j \in Blocks, blocker[j] # None, ref[j] = w PROVE blocker[j] = x
      OBVIOUS
    <3>1. blocker[j] = weakBlocker[w]
      BY <1>1, <2>1, HandlesAssumption DEF HoldsItsBlocker
    <3>2. BodyBlocked(w)
      BY <3>1 DEF BodyBlocked
    <3> QED
      BY <2>3, <3>1, <3>2
  <2>6. HoldsItsBlocker'
    BY <1>1, <2>1, <2>2, <2>3, <2>5 DEF HoldsItsBlocker, TypeOK
  <2>7. OnlyItsBlocks'
    BY <1>1, <2>1, <2>2, <2>3, <2>5 DEF OnlyItsBlocks, TypeOK
  <2> QED
    BY <2>4, <2>6, <2>7 DEF IInv
<1> QED
  BY <1>2, <1>3, <1>4

(* connection() of a block constructs a handle and touches no block. *)
LEMMA ConnectionOfIInv ==
  ASSUME IInv, NEW k \in Blocks, NEW h \in Plain, ConnectionOf(h, k)
  PROVE  IInv'
<1>1. h \in Handles /\ h \notin Blocks /\ ref[k] \in Bodies \cup {None}
  BY HandlesAssumption DEF Handles, IInv, TypeOK
<1>2. TypeOK' /\ BlocksUntouched
  BY <1>1 DEF ConnectionOf, BlocksUntouched, IInv, TypeOK
<1>3. \A x \in Handles : x \notin live' => ref'[x] = None
  BY <1>1 DEF ConnectionOf, IInv, TypeOK, GoneRefersToNothing
<1> QED
  BY <1>2, <1>3, UntouchedKeepsIInv

(* The steps of blocks. *)
LEMMA BlockStepIInv ==
  ASSUME IInv, BlockStep
  PROVE  IInv'
<1>1. ASSUME NEW k \in Blocks, NEW w \in Bodies \cup {None}, NEW initially_blocked \in BOOLEAN,
             ConstructBlock(k, w, initially_blocked)
      PROVE  IInv'
  <2>1. CASE initially_blocked
    BY <1>1, <2>1, DoBlockIInv DEF ConstructBlock
  <2>2. CASE ~initially_blocked
    BY <1>1, <2>2 DEF ConstructBlock, IInv, TypeOK, GoneRefersToNothing, FreeHasNoBlocker,
       HoldsItsBlocker, OnlyItsBlocks
  <2> QED
    BY <2>1, <2>2
<1>2. ASSUME NEW k \in Blocks, Block(k)
      PROVE  IInv'
  <2>1. live' = live \cup {k} /\ ref' = [ref EXCEPT ![k] = ref[k]] /\ ref[k] \in Bodies \cup {None}
    BY <1>2 DEF Block, IInv, TypeOK
  <2> QED
    BY <1>2, <2>1, DoBlockIInv DEF Block
<1>3. ASSUME NEW k \in Blocks, Unblock(k)
      PROVE  IInv'
  BY <1>3 DEF Unblock, IInv, TypeOK, GoneRefersToNothing, FreeHasNoBlocker,
     HoldsItsBlocker, OnlyItsBlocks
<1>4. ASSUME NEW k \in Blocks, DestroyBlock(k)
      PROVE  IInv'
  BY <1>4 DEF DestroyBlock, bodyVars, IInv, TypeOK, GoneRefersToNothing, FreeHasNoBlocker,
     HoldsItsBlocker, OnlyItsBlocks
<1>5. ASSUME NEW k \in Blocks, NEW j \in Blocks, CopyBlock(k, j)
      PROVE  IInv'
  <2>1. TypeOK' /\ GoneRefersToNothing' /\ FreeHasNoBlocker'
    BY <1>5 DEF CopyBlock, bodyVars, IInv, TypeOK, GoneRefersToNothing, FreeHasNoBlocker
  <2>2. HoldsItsBlocker'
    BY <1>5 DEF CopyBlock, bodyVars, IInv, TypeOK, HoldsItsBlocker
  <2>3. OnlyItsBlocks'
    BY <1>5 DEF CopyBlock, bodyVars, IInv, TypeOK, OnlyItsBlocks
  <2> QED
    BY <2>1, <2>2, <2>3 DEF IInv
<1>6. ASSUME NEW k \in Blocks, NEW h \in Plain, ConnectionOf(h, k)
      PROVE  IInv'
  BY <1>6, ConnectionOfIInv
<1>7. \A h \in live \cap Handles : ref[h] \in Bodies \cup {None}
  BY DEF IInv, TypeOK
<1> QED
  BY <1>1, <1>2, <1>3, <1>4, <1>5, <1>6, <1>7 DEF BlockStep

-----------------------------------------------------------------------------
(* IInv holds in every state, whatever the program does with its handles.    *)
THEOREM HandlesInvariant == Spec => []IInv
<1>1. IInv /\ [Next]_vars => IInv'
  <2> SUFFICES ASSUME IInv, [Next]_vars PROVE IInv'
    OBVIOUS
  <2>1. CASE Next
    BY <2>1, HandleStepIInv, BlockStepIInv DEF Next
  <2>2. CASE UNCHANGED vars
    BY <2>2 DEF vars, IInv, TypeOK, GoneRefersToNothing, FreeHasNoBlocker, HoldsItsBlocker,
       OnlyItsBlocks
  <2> QED
    BY <2>1, <2>2
<1> QED
  BY <1>1, InitIInv, PTL DEF Spec

(* The pointers of handles and blocks are null or of their kind. *)
THEOREM HandlesTypeCorrect == Spec => []TypeOK
<1>1. IInv => TypeOK
  BY DEF IInv
<1> QED
  BY <1>1, HandlesInvariant, PTL

(* A connection is blocked exactly while a shared_connection_block that      *)
(* refers to it is blocking.                                                 *)
THEOREM BlockedExactly == Spec => []BlockedByBlocks
<1>1. IInv => BlockedByBlocks
  <2> SUFFICES ASSUME IInv, NEW b \in Bodies, body[b] # "free"
               PROVE  BodyBlocked(b) <=> \E k \in Blocks \cap live : ref[k] = b /\ blocker[k] # None
    BY DEF BlockedByBlocks
  <2>1. ASSUME BodyBlocked(b)
        PROVE  \E k \in Blocks \cap live : ref[k] = b /\ blocker[k] # None
    BY <2>1 DEF BodyBlocked, IInv, OnlyItsBlocks, GoneRefersToNothing
  <2>2. ASSUME NEW k \in Blocks \cap live, ref[k] = b, blocker[k] # None
        PROVE  BodyBlocked(b)
    BY <2>2, HandlesAssumption DEF BodyBlocked, IInv, HoldsItsBlocker
  <2> QED
    BY <2>1, <2>2
<1> QED
  BY <1>1, HandlesInvariant, PTL

(* A block that is blocking refers to a connection that is blocked or gone.  *)
THEOREM BlockingBlocks == Spec => []BlockingIsBlocked
<1>1. IInv => BlockingIsBlocked
  <2> SUFFICES ASSUME IInv, NEW k \in Blocks, blocker[k] # None
               PROVE  k \in live /\ blocked(ref[k])
    BY DEF BlockingIsBlocked
  <2>1. k \in live
    BY DEF IInv, GoneRefersToNothing
  <2>2. CASE Locked(ref[k]) = None
    BY <2>1, <2>2 DEF blocked
  <2>3. CASE Locked(ref[k]) # None
    BY <2>1, <2>3, HandlesAssumption DEF blocked, Locked, BodyBlocked, IInv, TypeOK,
       HoldsItsBlocker
  <2> QED
    BY <2>2, <2>3
<1> QED
  BY <1>1, HandlesInvariant, PTL

(* A scoped_connection gives up a connected slot only when another handle    *)
(* then refers to it.                                                        *)
THEOREM ScopedHandsOverAlways == Spec => ScopedHandsOver
<1> DEFINE HandsOver(s, b) ==
      ref[s] = b /\ ref'[s] # b /\ body'[b] = "connected" =>
          \E h \in Handles \ {s} : h \in live' /\ ref'[h] = b
<1>1. ASSUME IInv, [Next]_vars, NEW s \in Scoped, NEW b \in Bodies
      PROVE  HandsOver(s, b)
  <2> SUFFICES ASSUME ref[s] = b, ref'[s] # b, body'[b] = "connected"
               PROVE  \E h \in Handles \ {s} : h \in live' /\ ref'[h] = b
    OBVIOUS
  <2>1. /\ TypeOK /\ s \in Handles /\ s \notin Plain /\ s \notin Blocks /\ b # None
        /\ s \in live
    <3>1. TypeOK /\ s \in Handles /\ s \notin Plain /\ b # None
      BY <1>1, HandlesAssumption DEF IInv, Handles
    <3>2. s \notin Blocks
      BY <3>1, HandlesAssumption
    <3>3. s \in live
      BY <1>1, <3>1 DEF IInv, GoneRefersToNothing
    <3> QED
      BY <3>1, <3>2, <3>3
  <2>2. body[b] # "free" => disconnect(b)[b] = "disconnected"
    BY <2>1 DEF TypeOK, disconnect, Locked
  <2>3. ASSUME NEW h \in Handles, NEW c \in Bodies, Connect(h, c)
        PROVE  FALSE
    BY <2>1, <2>3 DEF Connect, TypeOK
  <2>4. ASSUME NEW h \in Handles, Destroy(h)
        PROVE  FALSE
    BY <2>1, <2>4 DEF Destroy, TypeOK, disconnect, Locked
  <2>5. ASSUME NEW h \in Handles, NEW g \in Handles, CopyAssign(h, g)
        PROVE  FALSE
    BY <2>1, <2>5 DEF CopyAssign, TypeOK, disconnect, Locked
  <2>6. ASSUME NEW h \in Handles, NEW g \in Handles, CopyConstruct(h, g)
        PROVE  FALSE
    BY <2>1, <2>6 DEF CopyConstruct, TypeOK
  <2>7. ASSUME NEW h \in Handles, NEW g \in Handles, MoveConstruct(h, g) \/ Release(h, g)
        PROVE  h # s /\ h \in live' /\ ref'[h] = b
    BY <2>1, <2>7 DEF MoveConstruct, Release, MovedRef, TypeOK
  <2>8. ASSUME NEW h \in Handles, NEW g \in Handles, MoveAssign(h, g)
        PROVE  h # s /\ h \in live' /\ ref'[h] = b
    BY <2>1, <2>8 DEF MoveAssign, MovedRef, TypeOK, disconnect, Locked
  <2>9. ASSUME NEW h \in Handles, NEW g \in Handles, Swap(h, g)
        PROVE  \E x \in {h, g} \ {s} : x \in live' /\ ref'[x] = b
    BY <2>1, <2>9 DEF Swap, TypeOK
  <2>10. ASSUME NEW h \in Handles, DefaultConstruct(h) \/ DisconnectBy(h)
         PROVE  FALSE
    BY <2>10 DEF DefaultConstruct, DisconnectBy
  <2>11. ASSUME NEW c \in Bodies, Collect(c)
         PROVE  FALSE
    BY <2>11 DEF Collect
  <2>12. CASE HandleStep
    <3>1. ASSUME NEW h \in Handles, NEW g \in Handles,
                 \/ CopyConstruct(h, g) \/ CopyAssign(h, g)
                 \/ MoveConstruct(h, g) \/ MoveAssign(h, g)
                 \/ Release(h, g) \/ Swap(h, g)
          PROVE  \E x \in Handles \ {s} : x \in live' /\ ref'[x] = b
      BY <3>1, <2>5, <2>6, <2>7, <2>8, <2>9
    <3>2. ASSUME NEW h \in Handles, DefaultConstruct(h) \/ DisconnectBy(h) \/ Destroy(h)
          PROVE  FALSE
      BY <3>2, <2>4, <2>10
    <3> QED
      BY <2>3, <2>11, <2>12, <3>1, <3>2 DEF HandleStep
  <2>13. CASE BlockStep
    <3>1. s \in live' /\ ref'[s] = ref[s]
      BY <2>1, <2>13 DEF BlockStep, ConstructBlock, Block, Unblock, DestroyBlock, CopyBlock,
         ConnectionOf, TypeOK
    <3> QED
      BY <3>1
  <2>14. CASE UNCHANGED vars
    BY <2>14 DEF vars
  <2> QED
    BY <1>1, <2>12, <2>13, <2>14 DEF Next
<1>2. IInv /\ [Next]_vars => \A s \in Scoped, b \in Bodies : HandsOver(s, b)
  BY <1>1
<1>3. IInv /\ [Next]_vars =>
        [\A s \in Scoped, b \in Bodies :
          ref[s] = b /\ ref'[s] # b /\ body'[b] = "connected" =>
             \E h \in Handles \ {s} : h \in live' /\ ref'[h] = b]_vars
  BY <1>2
<1> QED
  BY <1>3, HandlesInvariant, PTL DEF Spec, ScopedHandsOver
=============================================================================
