------------------------------- MODULE Handles -------------------------------
(* The objects through which a program keeps hold of connections:            *)
(* connection and scoped_connection (connection.hpp), shared_connection_block *)
(* (shared_connection_block.hpp), and the blocker of a connection body.      *)
(* All of them refer to a body by weak_ptr; only the signal's list owns it.  *)
(* Operations on different objects come from any thread: each has at most    *)
(* one critical section, so an operation is one action.                      *)
EXTENDS Naturals, FiniteSets

CONSTANTS
    Bodies,         \* connection bodies
    Plain, Scoped,  \* connection and scoped_connection objects
    Blocks,         \* shared_connection_block objects
    Blockers,       \* memory for what body.get_blocker() makes
    None,           \* a null pointer
    Calls           \* the operations the program makes use of

Handles == Plain \cup Scoped

(* What _blocker.reset(static_cast<int*>(0)) makes: a pointer of its own.    *)
Detached == "detached"

ASSUME HandlesAssumption ==
    /\ Plain \cap Scoped = {} /\ Handles \cap Blocks = {}
    /\ None \notin Bodies \cup Blockers
    /\ Detached \notin Blockers \cup {None}

VARIABLES
    body,       \* "connected", "disconnected", or "free": in no list, destroyed
    weakBlocker,    \* the body's _weak_blocker
    live,       \* the handles and blocks that have been constructed
    ref,        \* _weak_connection_body of a handle or block
    blocker     \* _blocker of a block

bodyVars == <<body, weakBlocker>>
vars == <<body, weakBlocker, live, ref, blocker>>

Init ==
    /\ body = [b \in Bodies |-> "free"]
    /\ weakBlocker = [b \in Bodies |-> None]
    /\ live = {}
    /\ ref = [h \in Handles \cup Blocks |-> None]
    /\ blocker = [k \in Blocks |-> None]

(* _weak_connection_body.lock() *)
Locked(w) == IF w # None /\ body[w] # "free" THEN w ELSE None

(* disconnect() of the weak pointer w. *)
disconnect(w) ==
    IF Locked(w) = None THEN body ELSE [body EXCEPT ![w] = "disconnected"]

(* connected() *)
connected(w) == Locked(w) # None /\ body[w] = "connected"

(* connection_body_base::blocked: the blocker has not expired. *)
BodyBlocked(b) == weakBlocker[b] # None /\ \E k \in Blocks : blocker[k] = weakBlocker[b]

(* Mutant: a connection that is gone is not blocked. *)
blocked_if_there(w) == Locked(w) # None /\ BodyBlocked(w)

(* connection::blocked *)
blocked(w) == Locked(w) = None \/ BodyBlocked(w)

-----------------------------------------------------------------------------
(* The signal. *)

(* signal::connect constructs the handle h. *)
Connect(h, b) ==
    /\ h \notin live
    /\ body[b] = "free"
    /\ \A x \in live : ref[x] # b
    /\ body' = [body EXCEPT ![b] = "connected"]
    /\ live' = live \cup {h}
    /\ ref' = [ref EXCEPT ![h] = b]
    /\ UNCHANGED <<weakBlocker, blocker>>

(* The body leaves the signal's list: it was disconnected and is collected,  *)
(* or the signal is destroyed.                                               *)
Collect(b) ==
    /\ body[b] # "free"
    /\ body[b] = "connected" => "destroy_signal" \in Calls
    /\ body' = [body EXCEPT ![b] = "free"]
    /\ weakBlocker' = [weakBlocker EXCEPT ![b] = None]
    /\ UNCHANGED <<live, ref, blocker>>

-----------------------------------------------------------------------------
(* connection and scoped_connection. *)

DefaultConstruct(h) ==
    /\ h \notin live
    /\ live' = live \cup {h}
    /\ UNCHANGED <<body, weakBlocker, ref, blocker>>

DisconnectBy(h) ==
    /\ "disconnect" \in Calls /\ h \in live
    /\ body' = disconnect(ref[h])
    /\ UNCHANGED <<weakBlocker, live, ref, blocker>>

(* A scoped_connection is copied from a connection only. *)
MayCopy(h, g) == g \in live /\ (h \in Scoped => g \in Plain)

CopyConstruct(h, g) ==
    /\ "copy" \in Calls /\ h \notin live /\ MayCopy(h, g)
    /\ live' = live \cup {h}
    /\ ref' = [ref EXCEPT ![h] = ref[g]]
    /\ UNCHANGED <<body, weakBlocker, blocker>>

CopyAssign(h, g) ==
    /\ "copy" \in Calls /\ h \in live /\ MayCopy(h, g)
    /\ body' = IF h \in Scoped THEN disconnect(ref[h]) ELSE body
    /\ ref' = [ref EXCEPT ![h] = ref[g]]
    /\ UNCHANGED <<weakBlocker, live, blocker>>

(* What a move from g makes of the weak pointers. *)
MovedRef(h, g) == [ref EXCEPT ![h] = ref[g], ![g] = None]

(* Mutant: the moved-from connection keeps its reference. *)
CopiedRef(h, g) == [ref EXCEPT ![h] = ref[g]]

MoveConstruct(h, g) ==
    /\ h \notin live /\ g \in live
    /\ live' = live \cup {h}
    /\ ref' = MovedRef(h, g)
    /\ UNCHANGED <<body, weakBlocker, blocker>>

(* Mutant: a scoped_connection forgets to disconnect what it referred to. *)
MoveAssignKeepingOld(h, g) ==
    /\ h \in live /\ g \in live /\ h # g
    /\ body' = body
    /\ ref' = MovedRef(h, g)
    /\ UNCHANGED <<weakBlocker, live, blocker>>

(* Assigning an object to itself does nothing. *)
MoveAssign(h, g) ==
    /\ h \in live /\ g \in live /\ h # g
    /\ body' = IF h \in Scoped THEN disconnect(ref[h]) ELSE body
    /\ ref' = MovedRef(h, g)
    /\ UNCHANGED <<weakBlocker, live, blocker>>

(* scoped_connection::release, whose result constructs the connection h. *)
Release(h, g) ==
    /\ h \in Plain \ live /\ g \in Scoped \cap live
    /\ live' = live \cup {h}
    /\ ref' = MovedRef(h, g)
    /\ UNCHANGED <<body, weakBlocker, blocker>>

Swap(h, g) ==
    /\ h \in live /\ g \in live
    /\ ref' = [ref EXCEPT ![h] = ref[g], ![g] = ref[h]]
    /\ UNCHANGED <<body, weakBlocker, live, blocker>>

Destroy(h) ==
    /\ h \in live
    /\ body' = IF h \in Scoped THEN disconnect(ref[h]) ELSE body
    /\ live' = live \ {h}
    /\ ref' = [ref EXCEPT ![h] = None]
    /\ UNCHANGED <<weakBlocker, blocker>>

-----------------------------------------------------------------------------
(* shared_connection_block. *)

(* A fresh blocker is one that no pointer, weak or strong, refers to. *)
FreshBlockers(b) ==
    {x \in Blockers : /\ \A k \in Blocks : blocker[k] # x
                      /\ \A c \in Bodies \ {b} : weakBlocker[c] # x}

(* Mutant: get_blocker does not look for a blocker that is in use. *)
get_blocker_always_new(b) == FreshBlockers(b)

(* Mutant: the body itself is the blocker. *)
get_blocker_raw(b) == {b}

(* The blockers get_blocker() may return: the one in use, or else a new one. *)
get_blocker(b) == IF BodyBlocked(b) THEN {weakBlocker[b]} ELSE FreshBlockers(b)

(* block() of the block k, whose weak pointer is w. *)
DoBlock(k, w) ==
    IF blocker[k] # None THEN UNCHANGED <<weakBlocker, blocker>>
    ELSE IF Locked(w) = None
    THEN /\ blocker' = [blocker EXCEPT ![k] = Detached]
         /\ UNCHANGED weakBlocker
    ELSE \E x \in get_blocker(w) :
            /\ blocker' = [blocker EXCEPT ![k] = x]
            /\ weakBlocker' = [weakBlocker EXCEPT ![w] = x]

ConstructBlock(k, w, initially_blocked) ==
    /\ k \notin live
    /\ live' = live \cup {k}
    /\ ref' = [ref EXCEPT ![k] = w]
    /\ IF initially_blocked THEN DoBlock(k, w) ELSE UNCHANGED <<weakBlocker, blocker>>
    /\ UNCHANGED body

Block(k) ==
    /\ k \in live
    /\ DoBlock(k, ref[k])
    /\ UNCHANGED <<body, live, ref>>

Unblock(k) ==
    /\ k \in live
    /\ blocker' = [blocker EXCEPT ![k] = None]
    /\ UNCHANGED <<body, weakBlocker, live, ref>>

(* The copy constructor and the assignment: member by member. *)
CopyBlock(k, j) ==
    /\ j \in live
    /\ live' = live \cup {k}
    /\ ref' = [ref EXCEPT ![k] = ref[j]]
    /\ blocker' = [blocker EXCEPT ![k] = blocker[j]]
    /\ UNCHANGED bodyVars

(* shared_connection_block::connection, whose result constructs h. *)
ConnectionOf(h, k) ==
    /\ h \in Plain \ live /\ k \in live
    /\ live' = live \cup {h}
    /\ ref' = [ref EXCEPT ![h] = ref[k]]
    /\ UNCHANGED <<body, weakBlocker, blocker>>

DestroyBlock(k) ==
    /\ k \in live
    /\ live' = live \ {k}
    /\ ref' = [ref EXCEPT ![k] = None]
    /\ blocker' = [blocker EXCEPT ![k] = None]
    /\ UNCHANGED bodyVars

-----------------------------------------------------------------------------
HandleStep ==
    \/ \E h \in Handles, b \in Bodies : Connect(h, b)
    \/ \E b \in Bodies : Collect(b)
    \/ \E h \in Handles : DefaultConstruct(h) \/ DisconnectBy(h) \/ Destroy(h)
    \/ \E h, g \in Handles :
          \/ CopyConstruct(h, g) \/ CopyAssign(h, g)
          \/ MoveConstruct(h, g) \/ MoveAssign(h, g)
          \/ Release(h, g) \/ Swap(h, g)

BlockStep ==
    \/ \E k \in Blocks, h \in live \cap Handles, initially_blocked \in BOOLEAN :
          ConstructBlock(k, ref[h], initially_blocked)
    \/ \E k \in Blocks : ConstructBlock(k, None, TRUE)
    \/ \E k \in Blocks : Block(k) \/ Unblock(k) \/ DestroyBlock(k)
    \/ \E k, j \in Blocks : CopyBlock(k, j)
    \/ \E k \in Blocks, h \in Plain : ConnectionOf(h, k)

Next == HandleStep \/ BlockStep

Spec == Init /\ [][Next]_vars
-----------------------------------------------------------------------------
(* Properties. *)

(* Pointers point at objects of their kind or are null. *)
TypeOK ==
    /\ body \in [Bodies -> {"connected", "disconnected", "free"}]
    /\ weakBlocker \in [Bodies -> Blockers \cup {None}]
    /\ live \subseteq Handles \cup Blocks
    /\ ref \in [Handles \cup Blocks -> Bodies \cup {None}]
    /\ blocker \in [Blocks -> Blockers \cup {None, Detached}]

(* "The connection will remain blocked until every shared_connection_block   *)
(* that references the connection releases its block", and no longer: the    *)
(* blocks of a body share one blocker, however they were made, copied and    *)
(* assigned, and whoever comes and goes first.                               *)
BlockedByBlocks ==
    \A b \in Bodies : body[b] # "free" =>
        (BodyBlocked(b) <=> \E k \in Blocks \cap live : ref[k] = b /\ blocker[k] # None)

(* "this->blocking() == true implies connection::blocked() == true", also    *)
(* when the connection is gone.                                              *)
BlockingIsBlocked ==
    \A k \in Blocks : blocker[k] # None => k \in live /\ blocked(ref[k])

(* A scoped_connection lets go of a connected slot only to another handle.   *)
ScopedHandsOver ==
    [][\A s \in Scoped, b \in Bodies :
          ref[s] = b /\ ref'[s] # b /\ body'[b] = "connected" =>
             \E h \in Handles \ {s} : h \in live' /\ ref'[h] = b]_vars
=============================================================================
