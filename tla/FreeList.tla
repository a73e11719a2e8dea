------------------------------ MODULE FreeList ------------------------------
(***************************************************************************)
(* The lock-free free list from which the completion queue of the frontend *)
(* takes its blocks (FreeList, service/concurrentqueue.h).  A reader that  *)
(* empties a block adds it; a writer that starts a block tries to get one. *)
(*                                                                         *)
(* freeListRefs of a node counts the list's own reference and the threads  *)
(* that look at the node; its top bit says that the node waits for its     *)
(* last reader to put it back.  Every step is one atomic operation of the  *)
(* code, taken in the order of the program: the memory orders given to the *)
(* operations are not modelled.                                            *)
(***************************************************************************)
EXTENDS Integers, FiniteSets

CONSTANTS
    Threads,                  \* threads that enqueue or dequeue
    Nodes,                    \* blocks
    NoNode,                   \* nullptr
    SHOULD_BE_ON_FREELIST     \* weight of the top bit, above every count

VARIABLES
    freeListHead,
    freeListRefs,             \* node -> count, plus the weight if flagged
    freeListNext,
    out,                      \* nodes that are in use, on no list
    pc,                       \* thread -> its next operation
    my                        \* thread -> [head, node, refs, next]: its locals

flVars == <<freeListHead, freeListRefs, freeListNext, out, pc, my>>

(* A count never reaches the flag, with a reference of every thread and the *)
(* list's own.                                                              *)
Configured ==
    /\ IsFiniteSet(Threads) /\ Cardinality(Threads) + 1 < SHOULD_BE_ON_FREELIST
    /\ SHOULD_BE_ON_FREELIST \in Nat
    /\ NoNode \notin Nodes

NoLocals == [head |-> NoNode, node |-> NoNode, refs |-> 0, next |-> NoNode]

\* Mutant: the flag is not masked out of the count.
RefCountUnmasked(r) == r

\* refs & REFS_MASK
RefCount(r) == r % SHOULD_BE_ON_FREELIST

(* Blocks start in the initial pool or fresh from malloc, never on the list. *)
Init ==
    /\ freeListHead = NoNode
    /\ freeListRefs = [n \in Nodes |-> 0]
    /\ freeListNext = [n \in Nodes |-> NoNode]
    /\ out = Nodes
    /\ pc = [t \in Threads |-> "idle"]
    /\ my = [t \in Threads |-> NoLocals]

Goto(t, label) == pc' = [pc EXCEPT ![t] = label]
Keep(t, locals) == my' = [my EXCEPT ![t] = locals]
Return(t) == Goto(t, "idle") /\ Keep(t, NoLocals)

-----------------------------------------------------------------------------
(* add: the node is flagged, and put back by whoever sees no reference left. *)
Add(t, n) ==
    /\ pc[t] = "idle"
    /\ n \in out
    /\ out' = out \ {n}
    /\ freeListRefs' = [freeListRefs EXCEPT ![n] = @ + SHOULD_BE_ON_FREELIST]
    /\ IF freeListRefs[n] = 0
       THEN Goto(t, "add_load") /\ Keep(t, [NoLocals EXCEPT !.node = n])
       ELSE Return(t)
    /\ UNCHANGED <<freeListHead, freeListNext>>

(* add_knowing_refcount_is_zero: load head, store next, store refs, CAS head.*)
AddLoadHead(t) ==
    /\ pc[t] = "add_load"
    /\ Keep(t, [my[t] EXCEPT !.next = freeListHead])
    /\ Goto(t, "add_next")
    /\ UNCHANGED <<freeListHead, freeListRefs, freeListNext, out>>

AddStoreNext(t) ==
    /\ pc[t] = "add_next"
    /\ freeListNext' = [freeListNext EXCEPT ![my[t].node] = my[t].next]
    /\ Goto(t, "add_refs")
    /\ UNCHANGED <<freeListHead, freeListRefs, out, my>>

AddStoreRefs(t) ==
    /\ pc[t] = "add_refs"
    /\ freeListRefs' = [freeListRefs EXCEPT ![my[t].node] = 1]
    /\ Goto(t, "add_cas")
    /\ UNCHANGED <<freeListHead, freeListNext, out, my>>

(* After the call a getter that came here from try_get goes on with its own *)
(* loop, with the head its failed exchange left it.                          *)
LeaveAdd(t) ==
    IF my[t].head = NoNode
    THEN Return(t)
    ELSE Goto(t, "get_refs") /\ Keep(t, [NoLocals EXCEPT !.head = my[t].head])

AddCasHead(t) ==
    /\ pc[t] = "add_cas"
    /\ \/ /\ freeListHead = my[t].next
          /\ freeListHead' = my[t].node
          /\ LeaveAdd(t)
       \/ /\ freeListHead # my[t].next
          /\ Keep(t, [my[t] EXCEPT !.next = freeListHead])
          /\ Goto(t, "add_giveup")
          /\ UNCHANGED freeListHead
    /\ UNCHANGED <<freeListRefs, freeListNext, out>>

(* The exchange failed: flag the node again and let go of it; the last to   *)
(* let go adds it.                                                           *)
AddGiveUp(t) ==
    /\ pc[t] = "add_giveup"
    /\ LET n == my[t].node IN
       /\ freeListRefs' = [freeListRefs EXCEPT ![n] = @ + SHOULD_BE_ON_FREELIST - 1]
       /\ IF freeListRefs[n] = 1
          THEN Goto(t, "add_next") /\ UNCHANGED my
          ELSE LeaveAdd(t)
    /\ UNCHANGED <<freeListHead, freeListNext, out>>

-----------------------------------------------------------------------------
(* try_get: load the head. *)
Get(t) ==
    /\ pc[t] \in {"idle", "get_head"}
    /\ IF freeListHead = NoNode
       THEN Return(t)
       ELSE Goto(t, "get_refs") /\ Keep(t, [NoLocals EXCEPT !.head = freeListHead])
    /\ UNCHANGED <<freeListHead, freeListRefs, freeListNext, out>>

GetLoadRefs(t) ==
    /\ pc[t] = "get_refs"
    /\ LET refs == freeListRefs[my[t].head] IN
       IF RefCount(refs) = 0
       THEN Goto(t, "get_head") /\ Keep(t, NoLocals)
       ELSE Goto(t, "get_ref") /\ Keep(t, [my[t] EXCEPT !.refs = refs])
    /\ UNCHANGED <<freeListHead, freeListRefs, freeListNext, out>>

GetTakeRef(t) ==
    /\ pc[t] = "get_ref"
    /\ LET n == my[t].head IN
       \/ /\ freeListRefs[n] = my[t].refs
          /\ freeListRefs' = [freeListRefs EXCEPT ![n] = @ + 1]
          /\ Goto(t, "get_next")
          /\ Keep(t, [NoLocals EXCEPT !.head = n])
       \/ /\ freeListRefs[n] # my[t].refs
          /\ Goto(t, "get_head")
          /\ Keep(t, NoLocals)
          /\ UNCHANGED freeListRefs
    /\ UNCHANGED <<freeListHead, freeListNext, out>>

GetLoadNext(t) ==
    /\ pc[t] = "get_next"
    /\ Keep(t, [my[t] EXCEPT !.next = freeListNext[my[t].head]])
    /\ Goto(t, "get_cas")
    /\ UNCHANGED <<freeListHead, freeListRefs, freeListNext, out>>

(* The exchange of the head; on failure head is the head seen, and prevHead *)
(* (node) the one whose reference must be given back.                        *)
GetCasHead(t) ==
    /\ pc[t] = "get_cas"
    /\ \/ /\ freeListHead = my[t].head
          /\ freeListHead' = my[t].next
          /\ Goto(t, "get_own")
          /\ Keep(t, [NoLocals EXCEPT !.node = my[t].head])
       \/ /\ freeListHead # my[t].head
          /\ Goto(t, "get_drop")
          /\ Keep(t, [NoLocals EXCEPT !.node = my[t].head, !.head = freeListHead])
          /\ UNCHANGED freeListHead
    /\ UNCHANGED <<freeListRefs, freeListNext, out>>

(* Two references are given back: the thread's and the list's. *)
GetOwn(t) ==
    /\ pc[t] = "get_own"
    /\ freeListRefs' = [freeListRefs EXCEPT ![my[t].node] = @ - 2]
    /\ out' = out \cup {my[t].node}
    /\ Return(t)
    /\ UNCHANGED <<freeListHead, freeListNext>>

GetDropRef(t) ==
    /\ pc[t] = "get_drop"
    /\ LET n == my[t].node IN
       /\ freeListRefs' = [freeListRefs EXCEPT ![n] = @ - 1]
       /\ IF freeListRefs[n] = SHOULD_BE_ON_FREELIST + 1
          THEN Goto(t, "add_load") /\ UNCHANGED my
          ELSE LeaveAdd(t)
    /\ UNCHANGED <<freeListHead, freeListNext, out>>

Next ==
    \E t \in Threads :
        \/ \E n \in Nodes : Add(t, n)
        \/ AddLoadHead(t) \/ AddStoreNext(t) \/ AddStoreRefs(t) \/ AddCasHead(t)
        \/ AddGiveUp(t)
        \/ Get(t) \/ GetLoadRefs(t) \/ GetTakeRef(t) \/ GetLoadNext(t)
        \/ GetCasHead(t) \/ GetOwn(t) \/ GetDropRef(t)

Spec == Init /\ [][Next]_flVars

-----------------------------------------------------------------------------
Adding == {"add_load", "add_next", "add_refs", "add_cas", "add_giveup"}

\* Nodes reachable from the head: those in every set that has the head and
\* the next node of each of its nodes.
Linked(S) ==
    /\ freeListHead \in S \cup {NoNode}
    /\ \A n \in S : freeListNext[n] \in S \cup {NoNode}
Listed == {n \in Nodes : \A S \in SUBSET Nodes : Linked(S) => n \in S}

Taking(t) == pc[t] = "get_own"

(* A node handed out belongs to one thread: it is not on the list and no    *)
(* other thread has been given it.  Two writers that got the same block     *)
(* would overwrite each other's results.                                    *)
OneOwner ==
    /\ out \cap Listed = {}
    /\ \A t \in Threads : Taking(t) =>
          /\ my[t].node \notin out \cup Listed
          /\ \A u \in Threads \ {t} : Taking(u) => my[u].node # my[t].node

(* The assertion of try_get: a node just taken off the list is not flagged. *)
TakenUnflagged ==
    \A t \in Threads : Taking(t) =>
        freeListRefs[my[t].node] < SHOULD_BE_ON_FREELIST

(* No block leaks and none is added twice: a node that is neither in use    *)
(* nor on the list is about to be handed out, is being added by exactly one *)
(* thread, or is flagged and referenced by a thread that will add it; and   *)
(* no thread adds a node that is on the list or in use.                     *)
NoNodeLost ==
    \A n \in Nodes :
        LET adders == {t \in Threads : pc[t] \in Adding /\ my[t].node = n}
            before == {t \in adders : ~(pc[t] = "add_giveup")}
        IN /\ Cardinality(before) <= 1
           /\ n \notin out \cup Listed =>
                 \/ \E t \in Threads : Taking(t) /\ my[t].node = n
                 \/ adders # {}
                 \/ /\ freeListRefs[n] > SHOULD_BE_ON_FREELIST
                    /\ \E t \in Threads :
                          \/ pc[t] \in {"get_next", "get_cas"} /\ my[t].head = n
                          \/ pc[t] = "get_drop" /\ my[t].node = n
           /\ n \in out \cup Listed => before = {}

(* The free list neither loses a block nor gives one away twice. *)
FreeListSound == OneOwner /\ TakenUnflagged /\ NoNodeLost
=============================================================================
