-------------------------- MODULE FreeList_proofs --------------------------
(***************************************************************************)
(* A block of the free list is in one place and has one owner at any time, *)
(* and none is lost, for every number of blocks and of threads.            *)
(*                                                                         *)
(* freeListRefs of a node is the number of threads that hold a reference   *)
(* to it, plus what its place adds: the list's own reference, which is     *)
(* stored before the node is on the list and given back after it is off,   *)
(* or the flag.  Nobody writes the next pointer of a node that somebody    *)
(* holds a reference to, which is why the exchange of the head in try_get  *)
(* installs the right node however often the head has changed meanwhile.   *)
(***************************************************************************)
EXTENDS FreeList, FiniteSetTheorems, NaturalsInduction, TLAPS

Link == Nodes \cup {NoNode}
Labels == Adding \cup {"idle", "get_head", "get_refs", "get_ref", "get_next", "get_cas",
                       "get_own", "get_drop"}

(* What kind of a place the owner at this label keeps its node in: the     *)
(* node is flagged until its adder stores the list's reference.            *)
ClassOf(label) ==
    IF label \in {"add_load", "add_next", "add_refs"} THEN "flagging"
    ELSE IF label \in {"add_cas", "add_giveup"} THEN "storing"
    ELSE IF label = "get_own" THEN "taken" ELSE "none"
Class(t) == ClassOf(pc[t])
Owned == {"flagging", "storing", "taken"}

(* The node that t holds a reference to. *)
Ref(t) ==
    IF pc[t] \in {"get_next", "get_cas"} THEN my[t].head
    ELSE IF pc[t] \in {"get_own", "get_drop"} THEN my[t].node ELSE NoNode
Refs(n) == Cardinality({t \in Threads : Ref(t) = n})

Types ==
    /\ freeListHead \in Link
    /\ freeListRefs \in [Nodes -> Nat]
    /\ freeListNext \in [Nodes -> Link]
    /\ out \subseteq Nodes
    /\ pc \in [Threads -> Labels]
    /\ my \in [Threads -> [head : Link, node : Link, refs : Nat, next : Link]]

(* The locals a thread uses are nodes, and the next pointers it has read   *)
(* or written are still what they were.                                    *)
LocalsOf(t) ==
    /\ pc[t] \in {"get_refs", "get_ref", "get_next", "get_cas"} => my[t].head \in Nodes
    /\ pc[t] \in Adding \cup {"get_own", "get_drop"} => my[t].node \in Nodes
    /\ pc[t] = "get_ref" => RefCount(my[t].refs) # 0
    /\ pc[t] = "get_cas" => my[t].next = freeListNext[my[t].head]
    /\ pc[t] \in {"add_refs", "add_cas"} => my[t].next = freeListNext[my[t].node]
Locals == \A t \in Threads : LocalsOf(t)

(* The list has k nodes; at[k] is its head. *)
Chain(k, at) ==
    /\ k \in Nat /\ at \in [1 .. k -> Nodes]
    /\ \A i, j \in 1 .. k : at[i] = at[j] => i = j
    /\ freeListHead = IF k = 0 THEN NoNode ELSE at[k]
    /\ \A i \in 1 .. k : freeListNext[at[i]] = IF i = 1 THEN NoNode ELSE at[i - 1]

Places == Owned \cup {"out", "listed", "flagged"}

(* Every node is in one place. *)
Placed(place, k, at) ==
    /\ place \in [Nodes -> Places]
    /\ \A n \in Nodes : n \in out <=> place[n] = "out"
    /\ \A n \in Nodes : (\E i \in 1 .. k : at[i] = n) <=> place[n] = "listed"

(* A node that is taken or added has the one thread that does it. *)
Ownership(place) ==
    /\ \A t \in Threads : Class(t) # "none" => place[my[t].node] = Class(t)
    /\ \A t, u \in Threads :
          Class(t) # "none" /\ Class(u) # "none" /\ my[t].node = my[u].node => t = u
    /\ \A n \in Nodes : place[n] \in Owned =>
          \E t \in Threads : Class(t) # "none" /\ my[t].node = n

(* What freeListRefs counts. *)
Extra(p) ==
    IF p = "out" THEN 0
    ELSE IF p \in {"listed", "taken", "storing"} THEN 1 ELSE SHOULD_BE_ON_FREELIST
Counted(place) ==
    \A n \in Nodes :
        /\ freeListRefs[n] = Refs(n) + Extra(place[n])
        /\ place[n] = "flagging" => Refs(n) = 0
        /\ place[n] = "flagged" => Refs(n) # 0

IInv ==
    /\ Types /\ Locals
    /\ \E place, k, at :
          Chain(k, at) /\ Placed(place, k, at) /\ Ownership(place) /\ Counted(place)

-----------------------------------------------------------------------------
(* Counting the threads that hold a reference. *)

\* A count is a number below the flag, the list's own reference included.
LEMMA RefsBound ==
    ASSUME Configured, NEW n
    PROVE  Refs(n) \in Nat /\ Refs(n) + 1 < SHOULD_BE_ON_FREELIST
<1>1. {t \in Threads : Ref(t) = n} \in SUBSET Threads
  OBVIOUS
<1> QED
  BY <1>1, FS_Subset, FS_CardinalityType DEF Configured, Refs

\* A thread whose reference stays what it was.
LEMMA RefsSame ==
    ASSUME NEW t \in Threads, Ref(t)' = Ref(t),
           \A u \in Threads \ {t} : pc'[u] = pc[u] /\ my'[u] = my[u]
    PROVE  \A n : Refs(n)' = Refs(n)
<1>1. \A u \in Threads : Ref(u)' = Ref(u)
  BY DEF Ref
<1>2. \A n : {u \in Threads : Ref(u)' = n} = {u \in Threads : Ref(u) = n}
  BY <1>1
<1> QED
  BY <1>2 DEF Refs

\* A thread takes a reference.
LEMMA RefsMore ==
    ASSUME Configured, NEW t \in Threads, NEW m, Ref(t) = NoNode, Ref(t)' = m, m # NoNode,
           \A u \in Threads \ {t} : pc'[u] = pc[u] /\ my'[u] = my[u]
    PROVE  \A n \in Nodes : Refs(n)' = IF n = m THEN Refs(n) + 1 ELSE Refs(n)
<1>1. \A u \in Threads \ {t} : Ref(u)' = Ref(u)
  BY DEF Ref
<1> TAKE n \in Nodes
<1> DEFINE S == {u \in Threads : Ref(u) = n}
<1>2. IsFiniteSet(S)
  BY FS_Subset DEF Configured
<1>3. n # NoNode
  BY DEF Configured
<1>4. CASE n = m
  <2>1. {u \in Threads : Ref(u)' = n} = S \cup {t}
    BY <1>1, <1>4
  <2>2. t \notin S
    BY <1>3
  <2> QED
    BY <1>2, <1>4, <2>1, <2>2, FS_AddElement DEF Refs
<1>5. CASE n # m
  <2>1. {u \in Threads : Ref(u)' = n} = S
    BY <1>1, <1>3, <1>5
  <2> QED
    BY <1>5, <2>1 DEF Refs
<1> QED
  BY <1>4, <1>5

\* A thread gives its reference back.
LEMMA RefsLess ==
    ASSUME Configured, NEW t \in Threads, NEW m, Ref(t) = m, Ref(t)' = NoNode, m \in Nodes,
           \A u \in Threads \ {t} : pc'[u] = pc[u] /\ my'[u] = my[u]
    PROVE  /\ \A n \in Nodes : Refs(n)' = IF n = m THEN Refs(n) - 1 ELSE Refs(n)
           /\ Refs(m) # 0
<1>1. \A u \in Threads \ {t} : Ref(u)' = Ref(u)
  BY DEF Ref
<1>2. ASSUME NEW n \in Nodes
      PROVE  Refs(n)' = IF n = m THEN Refs(n) - 1 ELSE Refs(n)
  <2> DEFINE S == {u \in Threads : Ref(u) = n}
  <2>1. IsFiniteSet(S)
    BY FS_Subset DEF Configured
  <2>2. n # NoNode
    BY DEF Configured
  <2>3. CASE n = m
    <3>1. {u \in Threads : Ref(u)' = n} = S \ {t}
      BY <1>1, <2>2, <2>3
    <3>2. t \in S
      BY <2>3
    <3> QED
      BY <2>1, <2>3, <3>1, <3>2, FS_RemoveElement DEF Refs
  <2>4. CASE n # m
    <3>1. {u \in Threads : Ref(u)' = n} = S
      BY <1>1, <2>2, <2>4
    <3> QED
      BY <2>4, <3>1 DEF Refs
  <2> QED
    BY <2>3, <2>4
<1>3. Refs(m) # 0
  <2> DEFINE S == {u \in Threads : Ref(u) = m}
  <2>1. IsFiniteSet(S) /\ t \in S
    BY FS_Subset DEF Configured
  <2> QED
    BY <2>1, FS_EmptySet DEF Refs
<1> QED
  BY <1>2, <1>3

\* Nobody holds a reference to a node whose count is 0.
LEMMA RefsNone ==
    ASSUME Configured, NEW n, Refs(n) = 0
    PROVE  \A t \in Threads : Ref(t) # n
<1> DEFINE S == {u \in Threads : Ref(u) = n}
<1>1. IsFiniteSet(S)
  BY FS_Subset DEF Configured
<1>2. S = {}
  BY <1>1, FS_EmptySet DEF Refs
<1> QED
  BY <1>2

\* Somebody holds one to a node whose count is not.
LEMMA RefsSome ==
    ASSUME Configured, NEW n, Refs(n) # 0
    PROVE  \E t \in Threads : Ref(t) = n
<1> DEFINE S == {u \in Threads : Ref(u) = n}
<1>1. IsFiniteSet(S)
  BY FS_Subset DEF Configured
<1>2. S # {}
  BY <1>1, FS_EmptySet DEF Refs
<1> QED
  BY <1>2

\* A count is never mistaken for a flag: the weight alone counts nobody.
LEMMA RefCountOfFlag ==
    ASSUME Configured
    PROVE  RefCount(SHOULD_BE_ON_FREELIST) = 0
  BY FS_CardinalityType DEF Configured, RefCount

-----------------------------------------------------------------------------
(* What a step of one thread does to the parts of the invariant. *)

\* A step that leaves the class and the node of t as they were.
LEMMA OwnershipKept ==
    ASSUME NEW t \in Threads, NEW place, Ownership(place),
           Class(t)' = Class(t), Class(t) # "none" => my'[t].node = my[t].node,
           \A u \in Threads \ {t} : pc'[u] = pc[u] /\ my'[u] = my[u]
    PROVE  Ownership(place)'
<1>1. \A u \in Threads :
         Class(u)' = Class(u) /\ (Class(u) # "none" => my'[u].node = my[u].node)
  BY DEF Class
<1>2. \A u \in Threads : Class(u)' # "none" => place[my'[u].node] = Class(u)'
  BY <1>1 DEF Ownership
<1>3. \A u, v \in Threads :
         Class(u)' # "none" /\ Class(v)' # "none" /\ my'[u].node = my'[v].node => u = v
  BY <1>1 DEF Ownership
<1>4. \A n \in Nodes : place[n] \in Owned =>
         \E u \in Threads : Class(u)' # "none" /\ my'[u].node = n
  BY <1>1 DEF Ownership
<1> QED
  BY <1>2, <1>3, <1>4 DEF Ownership

\* A step of t that moves node m, which is t's own or nobody's, to place c,
\* where it is t's own or nobody's.
LEMMA OwnershipMoves ==
    ASSUME NEW t \in Threads, NEW place, place \in [Nodes -> Places], Ownership(place),
           NEW m \in Nodes, NEW c \in Places,
           \/ Class(t) # "none" /\ my[t].node = m
           \/ Class(t) = "none" /\ place[m] \notin Owned,
           \/ Class(t)' = c /\ my'[t].node = m /\ c \in Owned
           \/ Class(t)' = "none" /\ c \notin Owned,
           \A u \in Threads \ {t} : pc'[u] = pc[u] /\ my'[u] = my[u]
    PROVE  Ownership([place EXCEPT ![m] = c])'
<1> DEFINE new == [place EXCEPT ![m] = c]
<1>1. \A n \in Nodes : new[n] = IF n = m THEN c ELSE place[n]
  OBVIOUS
<1>2. \A u \in Threads \ {t} : Class(u)' = Class(u) /\ my'[u].node = my[u].node
  BY DEF Class
<1>3. \A u \in Threads : Class(u) \in Owned \cup {"none"} /\ Class(u)' \in Owned \cup {"none"}
  BY DEF Class, ClassOf, Owned
<1>4. \A u \in Threads \ {t} : Class(u) # "none" => my[u].node # m
  BY <1>3 DEF Ownership
<1>5. \A u \in Threads : Class(u)' # "none" => new[my'[u].node] = Class(u)'
  <2> SUFFICES ASSUME NEW u \in Threads, Class(u)' # "none"
               PROVE  new[my'[u].node] = Class(u)'
    OBVIOUS
  <2>1. CASE u = t
    BY <1>1, <2>1
  <2>2. CASE u # t
    <3>1. place[my[u].node] = Class(u) /\ my[u].node # m
      BY <1>2, <1>4, <2>2 DEF Ownership
    <3> QED
      BY <1>2, <2>2, <3>1
  <2> QED
    BY <2>1, <2>2
<1>6. \A u, v \in Threads :
         Class(u)' # "none" /\ Class(v)' # "none" /\ my'[u].node = my'[v].node => u = v
  <2> SUFFICES ASSUME NEW u \in Threads, NEW v \in Threads, Class(u)' # "none",
                      Class(v)' # "none", my'[u].node = my'[v].node
               PROVE  u = v
    OBVIOUS
  <2>1. CASE u # t /\ v # t
    BY <1>2, <2>1 DEF Ownership
  <2>2. CASE u = t
    BY <1>2, <1>4, <2>2
  <2>3. CASE v = t
    BY <1>2, <1>4, <2>3
  <2> QED
    BY <2>1, <2>2, <2>3
<1>7. \A n \in Nodes : new[n] \in Owned =>
         \E u \in Threads : Class(u)' # "none" /\ my'[u].node = n
  <2> SUFFICES ASSUME NEW n \in Nodes, new[n] \in Owned
               PROVE  \E u \in Threads : Class(u)' # "none" /\ my'[u].node = n
    OBVIOUS
  <2>1. CASE n = m
    BY <1>1, <2>1 DEF Owned
  <2>2. CASE n # m
    <3>1. PICK u \in Threads : Class(u) # "none" /\ my[u].node = n
      BY <1>1, <2>2 DEF Ownership
    <3>2. u # t
      BY <2>2, <3>1, <1>1 DEF Ownership
    <3> QED
      BY <1>2, <3>1, <3>2
  <2> QED
    BY <2>1, <2>2
<1> QED
  BY <1>5, <1>6, <1>7 DEF Ownership

\* The list is disturbed only by its head and the next pointers of its nodes.
LEMMA ChainKept ==
    ASSUME NEW k, NEW at, Chain(k, at), freeListHead' = freeListHead,
           \A i \in 1 .. k : freeListNext'[at[i]] = freeListNext[at[i]]
    PROVE  Chain(k, at)'
  BY DEF Chain

\* The locals of the threads that do not move, where next pointers do not.
LEMMA LocalsKept ==
    ASSUME Locals, NEW t \in Threads, LocalsOf(t)', freeListNext' = freeListNext,
           \A u \in Threads \ {t} : pc'[u] = pc[u] /\ my'[u] = my[u]
    PROVE  Locals'
<1> SUFFICES ASSUME NEW u \in Threads, u # t PROVE LocalsOf(u)'
  BY DEF Locals
<1>1. LocalsOf(u) /\ pc'[u] = pc[u] /\ my'[u] = my[u]
  BY DEF Locals
<1> QED
  BY <1>1 DEF LocalsOf

\* A step by which one thread changes its locals, and neither the reference
\* it holds nor the node it owns.
LEMMA QuietKeeps ==
    ASSUME IInv, NEW t \in Threads, Types', LocalsOf(t)', Ref(t)' = Ref(t),
           Class(t)' = Class(t), Class(t) # "none" => my'[t].node = my[t].node,
           UNCHANGED <<freeListHead, freeListRefs, freeListNext, out>>,
           \A u \in Threads \ {t} : pc'[u] = pc[u] /\ my'[u] = my[u]
    PROVE  IInv'
<1>1. PICK place, k, at :
         Chain(k, at) /\ Placed(place, k, at) /\ Ownership(place) /\ Counted(place)
  BY DEF IInv
<1>2. Locals'
  BY LocalsKept DEF IInv
<1>3. Chain(k, at)'
  BY <1>1, ChainKept
<1>4. Placed(place, k, at)'
  BY <1>1 DEF Placed
<1>5. Ownership(place)'
  BY <1>1, OwnershipKept
<1>6. \A n : Refs(n)' = Refs(n)
  BY RefsSame
<1>7. Counted(place)'
  BY <1>1, <1>6 DEF Counted, Extra
<1> QED
  BY <1>2, <1>3, <1>4, <1>5, <1>7 DEF IInv

-----------------------------------------------------------------------------
(* One thread moves. *)
LocalVars == [head : Link, node : Link, refs : Nat, next : Link]
Others(t) ==
    /\ pc' \in [Threads -> Labels] /\ my' \in [Threads -> LocalVars]
    /\ \A u \in Threads \ {t} : pc'[u] = pc[u] /\ my'[u] = my[u]

\* A thread goes to a label with new locals.
LEMMA Moved ==
    ASSUME Types, NEW t \in Threads, NEW label \in Labels, NEW locals \in LocalVars,
           Goto(t, label), Keep(t, locals)
    PROVE  Others(t) /\ pc'[t] = label /\ my'[t] = locals
  BY DEF Goto, Keep, Types, Others, LocalVars

\* A thread goes to a label and keeps its locals.
LEMMA MovedOnly ==
    ASSUME Types, NEW t \in Threads, NEW label \in Labels, Goto(t, label), my' = my
    PROVE  Others(t) /\ pc'[t] = label /\ my'[t] = my[t]
  BY DEF Goto, Types, Others, LocalVars

\* What a thread's locals may be.
LEMMA LocalTypes ==
    /\ NoLocals \in LocalVars /\ NoLocals.head = NoNode /\ NoLocals.node = NoNode
    /\ \A n \in Link : /\ [NoLocals EXCEPT !.node = n] \in LocalVars
                       /\ [NoLocals EXCEPT !.node = n].node = n
                       /\ [NoLocals EXCEPT !.head = n] \in LocalVars
                       /\ [NoLocals EXCEPT !.head = n].head = n
    /\ \A l \in LocalVars, n \in Link : /\ [l EXCEPT !.next = n] \in LocalVars
                                        /\ [l EXCEPT !.next = n].next = n
                                        /\ [l EXCEPT !.next = n].node = l.node
                                        /\ [l EXCEPT !.next = n].head = l.head
    /\ \A l \in LocalVars, r \in Nat : /\ [l EXCEPT !.refs = r] \in LocalVars
                                       /\ [l EXCEPT !.refs = r].refs = r
                                       /\ [l EXCEPT !.refs = r].head = l.head
  BY DEF NoLocals, LocalVars, Link

\* A thread that returns owns nothing and holds nothing.
LEMMA Returned ==
    ASSUME Types, NEW t \in Threads, Return(t)
    PROVE  Others(t) /\ Class(t)' = "none" /\ Ref(t)' = NoNode /\ LocalsOf(t)'
<1>1. "idle" \in Labels /\ NoLocals \in LocalVars
  BY LocalTypes DEF Labels
<1>2. Others(t) /\ pc'[t] = "idle" /\ my'[t] = NoLocals
  BY <1>1, Moved DEF Return
<1> QED
  BY <1>2 DEF Class, ClassOf, Ref, LocalsOf, Adding

\* So does one that goes back to the loop of try_get.
LEMMA Left ==
    ASSUME Types, NEW t \in Threads, LeaveAdd(t)
    PROVE  Others(t) /\ Class(t)' = "none" /\ Ref(t)' = NoNode /\ LocalsOf(t)'
<1>1. CASE my[t].head = NoNode
  BY <1>1, Returned DEF LeaveAdd
<1>2. CASE my[t].head # NoNode
  <2>1. my[t].head \in Nodes /\ my[t].head \in Link
    BY <1>2 DEF Types, Link
  <2>2. PICK l : l = [NoLocals EXCEPT !.head = my[t].head]
    OBVIOUS
  <2>3. "get_refs" \in Labels /\ l \in LocalVars /\ l.head = my[t].head
    BY <2>1, <2>2, LocalTypes DEF Labels
  <2>4. Goto(t, "get_refs") /\ Keep(t, l)
    BY <1>2, <2>2 DEF LeaveAdd
  <2>5. Others(t) /\ pc'[t] = "get_refs" /\ my'[t] = l
    BY <2>3, <2>4, Moved
  <2> QED
    BY <2>1, <2>3, <2>5 DEF Class, ClassOf, Ref, LocalsOf, Adding
<1> QED
  BY <1>1, <1>2

-----------------------------------------------------------------------------
(* The steps that only look. *)

\* The adder loads the head.
LEMMA AddLoadHeadKeeps ==
    ASSUME IInv, NEW t \in Threads, AddLoadHead(t)
    PROVE  IInv'
<1>1. PICK l : l = [my[t] EXCEPT !.next = freeListHead]
  OBVIOUS
<1>2. my[t] \in LocalVars /\ freeListHead \in Link /\ "add_next" \in Labels
  BY DEF IInv, Types, LocalVars, Labels, Adding
<1>3. l \in LocalVars /\ l.node = my[t].node
  BY <1>1, <1>2, LocalTypes
<1>4. Others(t) /\ pc'[t] = "add_next" /\ my'[t] = l /\ pc[t] = "add_load"
  BY <1>1, <1>2, <1>3, Moved DEF AddLoadHead, IInv
<1>5. UNCHANGED <<freeListHead, freeListRefs, freeListNext, out>>
  BY DEF AddLoadHead
<1>6. Types'
  BY <1>4, <1>5 DEF IInv, Types, Others, LocalVars
<1>7. my[t].node \in Nodes
  BY <1>4 DEF IInv, Locals, LocalsOf, Adding
<1>8. LocalsOf(t)' /\ Ref(t)' = Ref(t) /\ Class(t)' = Class(t)
  BY <1>3, <1>4, <1>7 DEF LocalsOf, Ref, Class, ClassOf, Adding
<1> QED
  BY <1>3, <1>4, <1>5, <1>6, <1>8, QuietKeeps DEF Others

\* try_get loads the head.
LEMMA GetKeeps ==
    ASSUME IInv, NEW t \in Threads, Get(t)
    PROVE  IInv'
<1>1. Types /\ UNCHANGED <<freeListHead, freeListRefs, freeListNext, out>>
  BY DEF Get, IInv
<1>2. Class(t) = "none" /\ Ref(t) = NoNode
  BY DEF Get, Class, ClassOf, Ref
<1>3. Others(t) /\ Class(t)' = "none" /\ Ref(t)' = NoNode /\ LocalsOf(t)'
  <2>1. CASE freeListHead = NoNode
    BY <1>1, <2>1, Returned DEF Get
  <2>2. CASE freeListHead # NoNode
    <3>1. freeListHead \in Nodes /\ freeListHead \in Link
      BY <1>1, <2>2 DEF Types, Link
    <3>2. PICK l : l = [NoLocals EXCEPT !.head = freeListHead]
      OBVIOUS
    <3>3. "get_refs" \in Labels /\ l \in LocalVars /\ l.head = freeListHead
      BY <3>1, <3>2, LocalTypes DEF Labels
    <3>4. Goto(t, "get_refs") /\ Keep(t, l)
      BY <2>2, <3>2 DEF Get
    <3>5. Others(t) /\ pc'[t] = "get_refs" /\ my'[t] = l
      BY <1>1, <3>3, <3>4, Moved
    <3> QED
      BY <3>1, <3>3, <3>5 DEF Class, ClassOf, Ref, LocalsOf, Adding
  <2> QED
    BY <2>1, <2>2
<1>4. Types'
  BY <1>1, <1>3 DEF Types, Others, LocalVars
<1> QED
  BY <1>1, <1>2, <1>3, <1>4, QuietKeeps DEF Others

\* try_get starts over.
LEMMA StartOverKeeps ==
    ASSUME IInv, NEW t \in Threads, pc[t] \in {"get_refs", "get_ref"},
           Goto(t, "get_head"), Keep(t, NoLocals),
           UNCHANGED <<freeListHead, freeListRefs, freeListNext, out>>
    PROVE  IInv'
<1>1. "get_head" \in Labels /\ NoLocals \in LocalVars
  BY LocalTypes DEF Labels
<1>2. Others(t) /\ pc'[t] = "get_head" /\ my'[t] = NoLocals
  BY <1>1, Moved DEF IInv
<1>3. Types'
  BY <1>2 DEF IInv, Types, Others, LocalVars
<1>4. /\ LocalsOf(t)' /\ Ref(t)' = Ref(t) /\ Class(t)' = Class(t) /\ Class(t) = "none"
  BY <1>2 DEF LocalsOf, Ref, Class, ClassOf, Adding
<1> QED
  BY <1>2, <1>3, <1>4, QuietKeeps DEF Others

\* try_get loads the count of the head it saw.
LEMMA GetLoadRefsKeeps ==
    ASSUME IInv, NEW t \in Threads, GetLoadRefs(t)
    PROVE  IInv'
<1>1. /\ Types /\ pc[t] = "get_refs" /\ my[t].head \in Nodes /\ my[t] \in LocalVars
      /\ UNCHANGED <<freeListHead, freeListRefs, freeListNext, out>>
  BY DEF GetLoadRefs, IInv, Types, LocalVars, Locals, LocalsOf
<1>2. CASE RefCount(freeListRefs[my[t].head]) = 0
  BY <1>1, <1>2, StartOverKeeps DEF GetLoadRefs
<1>3. CASE RefCount(freeListRefs[my[t].head]) # 0
  <2>1. PICK r \in Nat : r = freeListRefs[my[t].head]
    BY <1>1 DEF Types
  <2>2. PICK l : l = [my[t] EXCEPT !.refs = r]
    OBVIOUS
  <2>3. "get_ref" \in Labels /\ l \in LocalVars /\ l.head = my[t].head /\ l.refs = r
    BY <1>1, <2>2, LocalTypes DEF Labels
  <2>4. Goto(t, "get_ref") /\ Keep(t, l)
    BY <1>3, <2>1, <2>2 DEF GetLoadRefs
  <2>5. Others(t) /\ pc'[t] = "get_ref" /\ my'[t] = l
    BY <1>1, <2>3, <2>4, Moved
  <2>6. Types'
    BY <1>1, <2>5 DEF Types, Others, LocalVars
  <2>7. RefCount(my'[t].refs) # 0
    BY <1>3, <2>1, <2>3, <2>5
  <2>8. LocalsOf(t)'
    BY <1>1, <2>3, <2>5, <2>7 DEF LocalsOf, Adding, RefCount
  <2>9. Ref(t)' = Ref(t) /\ Class(t)' = Class(t) /\ Class(t) = "none"
    BY <1>1, <2>5 DEF Ref, Class, ClassOf
  <2> QED
    BY <1>1, <2>5, <2>6, <2>8, <2>9, QuietKeeps DEF Others
<1> QED
  BY <1>2, <1>3

\* try_get loads the next pointer of the node it has a reference to.
LEMMA GetLoadNextKeeps ==
    ASSUME IInv, NEW t \in Threads, GetLoadNext(t)
    PROVE  IInv'
<1>1. /\ Types /\ pc[t] = "get_next" /\ my[t].head \in Nodes /\ my[t] \in LocalVars
      /\ UNCHANGED <<freeListHead, freeListRefs, freeListNext, out>>
  BY DEF GetLoadNext, IInv, Types, LocalVars, Locals, LocalsOf
<1>2. PICK x \in Link : x = freeListNext[my[t].head]
  BY <1>1 DEF Types
<1>3. PICK l : l = [my[t] EXCEPT !.next = x]
  OBVIOUS
<1>4. "get_cas" \in Labels /\ l \in LocalVars /\ l.head = my[t].head /\ l.next = x
  BY <1>1, <1>3, LocalTypes DEF Labels
<1>5. Goto(t, "get_cas") /\ Keep(t, l)
  BY <1>2, <1>3 DEF GetLoadNext
<1>6. Others(t) /\ pc'[t] = "get_cas" /\ my'[t] = l
  BY <1>1, <1>4, <1>5, Moved
<1>7. Types'
  BY <1>1, <1>6 DEF Types, Others, LocalVars
<1>8. LocalsOf(t)'
  BY <1>1, <1>2, <1>4, <1>6 DEF LocalsOf, Adding
<1>9. Ref(t)' = Ref(t) /\ Class(t)' = Class(t) /\ Class(t) = "none"
  BY <1>1, <1>4, <1>6 DEF Ref, Class, ClassOf
<1> QED
  BY <1>1, <1>6, <1>7, <1>8, <1>9, QuietKeeps DEF Others

-----------------------------------------------------------------------------
(* The steps that move a node. *)

\* The count of the node that moves is that of its new place.
LEMMA CountedMoves ==
    ASSUME NEW place, place \in [Nodes -> Places], Counted(place), NEW m \in Nodes,
           NEW c \in Places,
           \A n \in Nodes \ {m} : freeListRefs'[n] = freeListRefs[n] /\ Refs(n)' = Refs(n),
           freeListRefs'[m] = Refs(m)' + Extra(c),
           c = "flagging" => Refs(m)' = 0,
           c = "flagged" => Refs(m)' # 0
    PROVE  Counted([place EXCEPT ![m] = c])'
<1> DEFINE new == [place EXCEPT ![m] = c]
<1> SUFFICES ASSUME NEW n \in Nodes
             PROVE  /\ freeListRefs'[n] = Refs(n)' + Extra(new[n])
                    /\ new[n] = "flagging" => Refs(n)' = 0
                    /\ new[n] = "flagged" => Refs(n)' # 0
  BY DEF Counted, Extra
<1>1. CASE n = m
  <2>1. new[n] = c
    BY <1>1
  <2> QED
    BY <1>1, <2>1
<1>2. CASE n # m
  <2>1. new[n] = place[n]
    BY <1>2
  <2>2. freeListRefs'[n] = freeListRefs[n] /\ Refs(n)' = Refs(n)
    BY <1>2
  <2>3. /\ freeListRefs[n] = Refs(n) + Extra(place[n])
        /\ place[n] = "flagging" => Refs(n) = 0
        /\ place[n] = "flagged" => Refs(n) # 0
    BY DEF Counted
  <2> QED
    BY <2>1, <2>2, <2>3
<1> QED
  BY <1>1, <1>2

\* A node that was not listed and will not be.
LEMMA PlacedMoves ==
    ASSUME NEW place, NEW k, NEW at, Placed(place, k, at), NEW m \in Nodes, NEW c \in Places,
           place[m] # "listed", c # "listed", m \in out' <=> c = "out",
           \A n \in Nodes \ {m} : n \in out' <=> n \in out
    PROVE  Placed([place EXCEPT ![m] = c], k, at)'
  BY DEF Placed

\* A node in one of these places is not on the list.
LEMMA OffList ==
    ASSUME NEW place, NEW k, NEW at, Placed(place, k, at), Chain(k, at), NEW m \in Nodes,
           place[m] # "listed"
    PROVE  \A i \in 1 .. k : at[i] # m
  BY DEF Placed, Chain

\* add flags a block that is in use no more.
LEMMA AddKeeps ==
    ASSUME Configured, IInv, NEW t \in Threads, NEW n \in Nodes, Add(t, n)
    PROVE  IInv'
<1>1. PICK place, k, at :
         Chain(k, at) /\ Placed(place, k, at) /\ Ownership(place) /\ Counted(place)
  BY DEF IInv
<1>2. /\ Types /\ Locals /\ pc[t] = "idle" /\ n \in out /\ out' = out \ {n}
      /\ freeListRefs' = [freeListRefs EXCEPT ![n] = @ + SHOULD_BE_ON_FREELIST]
      /\ UNCHANGED <<freeListHead, freeListNext>>
      /\ place \in [Nodes -> Places]
  BY <1>1 DEF Add, IInv, Placed
<1>3. place[n] = "out" /\ freeListRefs[n] = Refs(n) /\ Refs(n) \in Nat
  <2>1. place[n] = "out"
    BY <1>1, <1>2 DEF Placed
  <2> QED
    BY <1>1, <2>1, RefsBound DEF Counted, Extra
<1>4. Class(t) = "none" /\ Ref(t) = NoNode
  BY <1>2 DEF Class, ClassOf, Ref
<1>5. SHOULD_BE_ON_FREELIST \in Nat
  BY DEF Configured
<1>6. /\ freeListRefs' \in [Nodes -> Nat]
      /\ freeListRefs'[n] = Refs(n) + SHOULD_BE_ON_FREELIST
      /\ \A m \in Nodes \ {n} : freeListRefs'[m] = freeListRefs[m]
  BY <1>2, <1>3, <1>5 DEF Types
<1>7. PICK c \in {"flagging", "flagged"} :
         /\ Others(t) /\ LocalsOf(t)' /\ Ref(t)' = NoNode
         /\ c = "flagging" => Refs(n) = 0 /\ Class(t)' = c /\ my'[t].node = n
         /\ c = "flagged" => Refs(n) # 0 /\ Class(t)' = "none"
  <2>1. CASE freeListRefs[n] = 0
    <3>1. PICK l : l = [NoLocals EXCEPT !.node = n]
      OBVIOUS
    <3>2. "add_load" \in Labels /\ l \in LocalVars /\ l.node = n
      BY <3>1, LocalTypes DEF Labels, Adding, Link
    <3>3. Goto(t, "add_load") /\ Keep(t, l)
      BY <2>1, <3>1 DEF Add
    <3>4. Others(t) /\ pc'[t] = "add_load" /\ my'[t] = l
      BY <1>2, <3>2, <3>3, Moved
    <3>5. LocalsOf(t)' /\ Ref(t)' = NoNode /\ Class(t)' = "flagging" /\ my'[t].node = n
      BY <3>2, <3>4 DEF LocalsOf, Ref, Class, ClassOf, Adding
    <3> QED
      BY <1>3, <2>1, <3>4, <3>5
  <2>2. CASE freeListRefs[n] # 0
    <3>1. Others(t) /\ Class(t)' = "none" /\ Ref(t)' = NoNode /\ LocalsOf(t)'
      BY <1>2, <2>2, Returned DEF Add
    <3> QED
      BY <1>3, <2>2, <3>1
  <2> QED
    BY <2>1, <2>2
<1>8. c \in Places /\ c # "listed" /\ c # "out" /\ Extra(c) = SHOULD_BE_ON_FREELIST
  BY DEF Places, Owned, Extra
<1>9. \A m : Refs(m)' = Refs(m)
  BY <1>4, <1>7, RefsSame DEF Others
<1>10. Types'
  BY <1>2, <1>6, <1>7 DEF Types, Others, LocalVars
<1>11. Locals'
  BY <1>2, <1>7, LocalsKept DEF Others
<1>12. Chain(k, at)'
  BY <1>1, <1>2, ChainKept
<1>13. Placed([place EXCEPT ![n] = c], k, at)'
  BY <1>1, <1>2, <1>3, <1>8, PlacedMoves
<1>14. Ownership([place EXCEPT ![n] = c])'
  <2>1. \/ Class(t)' = c /\ my'[t].node = n /\ c \in Owned
        \/ Class(t)' = "none" /\ c \notin Owned
    BY <1>7 DEF Owned
  <2>2. place[n] \notin Owned
    BY <1>3 DEF Owned
  <2>3. \A u \in Threads \ {t} : pc'[u] = pc[u] /\ my'[u] = my[u]
    BY <1>7 DEF Others
  <2> QED
    BY <1>1, <1>2, <1>4, <1>8, <2>1, <2>2, <2>3, OwnershipMoves
<1>15. Counted([place EXCEPT ![n] = c])'
  <2>1. freeListRefs'[n] = Refs(n)' + Extra(c)
    BY <1>6, <1>8, <1>9
  <2>2. (c = "flagging" => Refs(n)' = 0) /\ (c = "flagged" => Refs(n)' # 0)
    BY <1>7, <1>9
  <2>3. \A m \in Nodes \ {n} : freeListRefs'[m] = freeListRefs[m] /\ Refs(m)' = Refs(m)
    BY <1>6, <1>9
  <2> QED
    BY <1>1, <1>2, <1>8, <2>1, <2>2, <2>3, CountedMoves
<1> QED
  BY <1>10, <1>11, <1>12, <1>13, <1>14, <1>15 DEF IInv

\* The owner of a node, by what its label says of the node's place.
LEMMA OwnPlace ==
    ASSUME Locals, Types, NEW place, Ownership(place), NEW t \in Threads,
           pc[t] \in Adding \cup {"get_own"}
    PROVE  my[t].node \in Nodes /\ Class(t) # "none" /\ place[my[t].node] = Class(t)
  BY DEF Locals, LocalsOf, Ownership, Class, ClassOf, Adding

\* The adder stores the next pointer: nobody looks at the node.
LEMMA AddStoreNextKeeps ==
    ASSUME Configured, IInv, NEW t \in Threads, AddStoreNext(t)
    PROVE  IInv'
<1>1. PICK place, k, at :
         Chain(k, at) /\ Placed(place, k, at) /\ Ownership(place) /\ Counted(place)
  BY DEF IInv
<1>2. PICK n : n = my[t].node
  OBVIOUS
<1>3. /\ Types /\ Locals /\ pc[t] = "add_next" /\ my' = my /\ Goto(t, "add_refs")
      /\ freeListNext' = [freeListNext EXCEPT ![n] = my[t].next]
      /\ UNCHANGED <<freeListHead, freeListRefs, out>>
  BY <1>2 DEF AddStoreNext, IInv
<1>4. n \in Nodes /\ Class(t) = "flagging" /\ place[n] = "flagging" /\ Ref(t) = NoNode
  BY <1>1, <1>2, <1>3, OwnPlace DEF Class, ClassOf, Adding, Ref
<1>5. \A u \in Threads : Ref(u) # n
  BY <1>1, <1>4, RefsNone DEF Counted
<1>6. Others(t) /\ pc'[t] = "add_refs" /\ my'[t] = my[t]
  BY <1>3, MovedOnly DEF Labels, Adding
<1>7. Class(t)' = Class(t) /\ Ref(t)' = Ref(t)
  BY <1>3, <1>6 DEF Class, ClassOf, Ref
<1>8. /\ freeListNext' \in [Nodes -> Link] /\ freeListNext'[n] = my[t].next
      /\ \A m \in Nodes \ {n} : freeListNext'[m] = freeListNext[m]
  BY <1>3, <1>4 DEF Types
<1>9. Types'
  BY <1>3, <1>6, <1>8 DEF Types, Others, LocalVars
<1>10. Locals'
  <2> SUFFICES ASSUME NEW u \in Threads PROVE LocalsOf(u)'
    BY DEF Locals
  <2>1. CASE u = t
    BY <1>2, <1>4, <1>6, <1>8, <2>1 DEF LocalsOf, Adding
  <2>2. CASE u # t
    <3>1. LocalsOf(u) /\ pc'[u] = pc[u] /\ my'[u] = my[u]
      BY <1>3, <1>6, <2>2 DEF Locals, Others
    <3>2. pc[u] = "get_cas" => my[u].head \in Nodes \ {n}
      BY <1>5, <3>1 DEF LocalsOf, Ref
    <3>3. pc[u] \in {"add_refs", "add_cas"} => my[u].node \in Nodes \ {n}
      <4>1. ASSUME pc[u] \in {"add_refs", "add_cas"} PROVE my[u].node # n
        BY <1>1, <1>2, <1>4, <2>2, <4>1 DEF Ownership, Class, ClassOf
      <4> QED
        BY <3>1, <4>1 DEF LocalsOf, Adding
    <3> QED
      BY <1>8, <3>1, <3>2, <3>3 DEF LocalsOf
  <2> QED
    BY <2>1, <2>2
<1>11. Chain(k, at)'
  <2>1. \A i \in 1 .. k : at[i] \in Nodes \ {n}
    BY <1>1, <1>4, OffList DEF Chain
  <2>2. \A i \in 1 .. k : freeListNext'[at[i]] = freeListNext[at[i]]
    BY <1>8, <2>1
  <2> QED
    BY <1>1, <1>3, <2>2, ChainKept
<1>12. Placed(place, k, at)'
  BY <1>1, <1>3 DEF Placed
<1>13. Ownership(place)'
  BY <1>1, <1>6, <1>7, OwnershipKept DEF Others
<1>14. \A m : Refs(m)' = Refs(m)
  BY <1>6, <1>7, RefsSame DEF Others
<1>15. Counted(place)'
  BY <1>1, <1>3, <1>14 DEF Counted, Extra
<1> QED
  BY <1>9, <1>10, <1>11, <1>12, <1>13, <1>15 DEF IInv

\* The adder stores the list's reference.
LEMMA AddStoreRefsKeeps ==
    ASSUME Configured, IInv, NEW t \in Threads, AddStoreRefs(t)
    PROVE  IInv'
<1>1. PICK place, k, at :
         Chain(k, at) /\ Placed(place, k, at) /\ Ownership(place) /\ Counted(place)
  BY DEF IInv
<1>2. PICK n : n = my[t].node
  OBVIOUS
<1>3. /\ Types /\ Locals /\ pc[t] = "add_refs" /\ my' = my /\ Goto(t, "add_cas")
      /\ freeListRefs' = [freeListRefs EXCEPT ![n] = 1]
      /\ UNCHANGED <<freeListHead, freeListNext, out>>
      /\ place \in [Nodes -> Places]
  BY <1>1, <1>2 DEF AddStoreRefs, IInv, Placed
<1>4. n \in Nodes /\ Class(t) = "flagging" /\ place[n] = "flagging" /\ Ref(t) = NoNode
  BY <1>1, <1>2, <1>3, OwnPlace DEF Class, ClassOf, Adding, Ref
<1>5. Others(t) /\ pc'[t] = "add_cas" /\ my'[t] = my[t]
  BY <1>3, MovedOnly DEF Labels, Adding
<1>6. Class(t)' = "storing" /\ Ref(t)' = Ref(t)
  BY <1>3, <1>5 DEF Class, ClassOf, Ref
<1>7. /\ freeListRefs' \in [Nodes -> Nat] /\ freeListRefs'[n] = 1
      /\ \A m \in Nodes \ {n} : freeListRefs'[m] = freeListRefs[m]
  BY <1>3, <1>4 DEF Types
<1>8. Types'
  BY <1>3, <1>5, <1>7 DEF Types, Others, LocalVars
<1>9. LocalsOf(t)'
  BY <1>3, <1>5 DEF Locals, LocalsOf, Adding
<1>10. Locals'
  BY <1>3, <1>5, <1>9, LocalsKept DEF Others
<1>11. Chain(k, at)'
  BY <1>1, <1>3, ChainKept
<1>12. Placed([place EXCEPT ![n] = "storing"], k, at)'
  <2>1. n \notin out /\ "storing" \in Places
    BY <1>1, <1>4 DEF Placed, Places, Owned
  <2> QED
    BY <1>1, <1>3, <1>4, <2>1, PlacedMoves
<1>13. Ownership([place EXCEPT ![n] = "storing"])'
  <2>1. "storing" \in Places /\ "storing" \in Owned /\ my'[t].node = n
    BY <1>2, <1>5 DEF Places, Owned
  <2>2. \A u \in Threads \ {t} : pc'[u] = pc[u] /\ my'[u] = my[u]
    BY <1>5 DEF Others
  <2> QED
    BY <1>1, <1>2, <1>3, <1>4, <1>6, <2>1, <2>2, OwnershipMoves
<1>14. \A m : Refs(m)' = Refs(m)
  BY <1>5, <1>6, RefsSame DEF Others
<1>15. Counted([place EXCEPT ![n] = "storing"])'
  <2>1. Refs(n)' = 0
    BY <1>1, <1>4, <1>14 DEF Counted
  <2>2. freeListRefs'[n] = Refs(n)' + Extra("storing") /\ "storing" \in Places
    BY <1>7, <2>1 DEF Extra, Places, Owned
  <2>3. \A m \in Nodes \ {n} : freeListRefs'[m] = freeListRefs[m] /\ Refs(m)' = Refs(m)
    BY <1>7, <1>14
  <2> QED
    BY <1>1, <1>3, <1>4, <2>2, <2>3, CountedMoves
<1> QED
  BY <1>8, <1>10, <1>11, <1>12, <1>13, <1>15 DEF IInv

\* The adder puts the node on the list, or finds that the head has changed.
LEMMA AddCasHeadKeeps ==
    ASSUME Configured, IInv, NEW t \in Threads, AddCasHead(t)
    PROVE  IInv'
<1>1. PICK place, k, at :
         Chain(k, at) /\ Placed(place, k, at) /\ Ownership(place) /\ Counted(place)
  BY DEF IInv
<1>2. PICK n : n = my[t].node
  OBVIOUS
<1>3. /\ Types /\ Locals /\ pc[t] = "add_cas" /\ UNCHANGED <<freeListRefs, freeListNext, out>>
      /\ my[t].next = freeListNext[n] /\ my[t] \in LocalVars
      /\ place \in [Nodes -> Places]
  BY <1>1, <1>2 DEF AddCasHead, IInv, Placed, Locals, LocalsOf, Types, LocalVars
<1>4. n \in Nodes /\ Class(t) = "storing" /\ place[n] = "storing" /\ Ref(t) = NoNode
  BY <1>1, <1>2, <1>3, OwnPlace DEF Class, ClassOf, Adding, Ref
<1>5. CASE freeListHead = my[t].next /\ freeListHead' = n /\ LeaveAdd(t)
  <2>1. Others(t) /\ Class(t)' = "none" /\ Ref(t)' = Ref(t) /\ LocalsOf(t)'
    BY <1>3, <1>4, <1>5, Left
  <2>2. Types'
    BY <1>3, <1>4, <1>5, <2>1 DEF Types, Others, LocalVars, Link
  <2>3. Locals'
    BY <1>3, <2>1, LocalsKept DEF Others
  <2>4. PICK new : new = [i \in 1 .. k + 1 |-> IF i = k + 1 THEN n ELSE at[i]]
    OBVIOUS
  <2>5. k \in Nat /\ at \in [1 .. k -> Nodes] /\ \A i \in 1 .. k : at[i] # n
    BY <1>1, <1>4, OffList, SMTT(40) DEF Chain
  <2>6. /\ new \in [1 .. k + 1 -> Nodes] /\ new[k + 1] = n
        /\ \A i \in 1 .. k : new[i] = at[i]
    BY <1>4, <2>4, <2>5
  <2>7. Chain(k + 1, new)'
    <3>1. \A i, j \in 1 .. k + 1 : new[i] = new[j] => i = j
      <4> SUFFICES ASSUME NEW i \in 1 .. k + 1, NEW j \in 1 .. k + 1, new[i] = new[j]
                   PROVE  i = j
        OBVIOUS
      <4>1. CASE i = k + 1 /\ j # k + 1
        <5>1. j \in 1 .. k
          BY <2>5, <4>1
        <5> QED
          BY <2>5, <2>6, <4>1, <5>1
      <4>2. CASE j = k + 1 /\ i # k + 1
        <5>1. i \in 1 .. k
          BY <2>5, <4>2
        <5> QED
          BY <2>5, <2>6, <4>2, <5>1
      <4>3. CASE i # k + 1 /\ j # k + 1
        <5>1. i \in 1 .. k /\ j \in 1 .. k
          BY <2>5, <4>3
        <5> QED
          BY <1>1, <2>6, <5>1 DEF Chain
      <4> QED
        BY <4>1, <4>2, <4>3
    <3>2. \A i \in 1 .. k + 1 : freeListNext'[new[i]] = IF i = 1 THEN NoNode ELSE new[i - 1]
      <4> SUFFICES ASSUME NEW i \in 1 .. k + 1
                   PROVE  freeListNext[new[i]] = IF i = 1 THEN NoNode ELSE new[i - 1]
        BY <1>3
      <4>1. CASE i = k + 1
        <5>1. freeListNext[new[i]] = freeListHead
          BY <1>3, <1>5, <2>6, <4>1
        <5>2. CASE k = 0
          BY <1>1, <4>1, <5>1, <5>2 DEF Chain
        <5>3. CASE k # 0
          <6>1. k \in 1 .. k /\ i - 1 = k /\ i # 1
            BY <2>5, <4>1, <5>3
          <6>2. freeListHead = at[k]
            BY <1>1, <5>3 DEF Chain
          <6> QED
            BY <2>6, <5>1, <6>1, <6>2
        <5> QED
          BY <5>2, <5>3
      <4>2. CASE i # k + 1
        <5>1. i \in 1 .. k
          BY <2>5, <4>2
        <5>2. freeListNext[at[i]] = IF i = 1 THEN NoNode ELSE at[i - 1]
          BY <1>1, <5>1 DEF Chain
        <5>3. i # 1 => i - 1 \in 1 .. k
          BY <2>5, <5>1
        <5> QED
          BY <2>6, <5>1, <5>2, <5>3
      <4> QED
        BY <4>1, <4>2
    <3>3. k + 1 \in Nat /\ k + 1 # 0 /\ freeListHead' = new[k + 1]
      BY <1>5, <2>5, <2>6
    <3> QED
      BY <2>6, <3>1, <3>2, <3>3 DEF Chain
  <2> DEFINE moved == [place EXCEPT ![n] = "listed"]
  <2>8. \A m \in Nodes : moved[m] = IF m = n THEN "listed" ELSE place[m]
    BY <1>3
  <2>9. Placed(moved, k + 1, new)'
    <3>1. moved \in [Nodes -> Places]
      BY <1>3 DEF Places, Owned
    <3>2. \A m \in Nodes : m \in out' <=> moved[m] = "out"
      BY <1>1, <1>3, <1>4, <2>8 DEF Placed
    <3>3. \A m \in Nodes : (\E i \in 1 .. k + 1 : new[i] = m) <=> moved[m] = "listed"
      <4> TAKE m \in Nodes
      <4>1. CASE m = n
        BY <2>5, <2>6, <2>8, <4>1
      <4>2. CASE m # n
        <5>1. (\E i \in 1 .. k + 1 : new[i] = m) <=> (\E i \in 1 .. k : at[i] = m)
          BY <2>5, <2>6, <4>2
        <5> QED
          BY <1>1, <2>8, <4>2, <5>1 DEF Placed
      <4> QED
        BY <4>1, <4>2
    <3> QED
      BY <3>1, <3>2, <3>3 DEF Placed
  <2>10. Ownership(moved)'
    <3>1. "listed" \in Places /\ "listed" \notin Owned
      BY DEF Places, Owned
    <3>2. \A u \in Threads \ {t} : pc'[u] = pc[u] /\ my'[u] = my[u]
      BY <2>1 DEF Others
    <3> QED
      BY <1>1, <1>2, <1>3, <1>4, <2>1, <3>1, <3>2, OwnershipMoves
  <2>11. \A m : Refs(m)' = Refs(m)
    BY <2>1, RefsSame DEF Others
  <2>12. Counted(moved)'
    <3>1. freeListRefs[n] = Refs(n) + 1
      BY <1>1, <1>4 DEF Counted, Extra
    <3>2. freeListRefs'[n] = Refs(n)' + Extra("listed") /\ "listed" \in Places
      BY <1>3, <2>11, <3>1 DEF Extra, Places, Owned
    <3>3. \A m \in Nodes \ {n} : freeListRefs'[m] = freeListRefs[m] /\ Refs(m)' = Refs(m)
      BY <1>3, <2>11
    <3> QED
      BY <1>1, <1>3, <1>4, <3>2, <3>3, CountedMoves
  <2> QED
    BY <2>2, <2>3, <2>7, <2>9, <2>10, <2>12 DEF IInv
<1>6. CASE /\ freeListHead # my[t].next /\ Keep(t, [my[t] EXCEPT !.next = freeListHead])
           /\ Goto(t, "add_giveup") /\ UNCHANGED freeListHead
  <2>1. PICK l : l = [my[t] EXCEPT !.next = freeListHead]
    OBVIOUS
  <2>2. freeListHead \in Link /\ "add_giveup" \in Labels
    BY <1>3 DEF Types, Labels, Adding
  <2>3. l \in LocalVars /\ l.node = n
    BY <1>2, <1>3, <2>1, <2>2, LocalTypes
  <2>4. Others(t) /\ pc'[t] = "add_giveup" /\ my'[t] = l
    BY <1>3, <1>6, <2>1, <2>2, <2>3, Moved
  <2>5. Types'
    BY <1>3, <1>6, <2>4 DEF Types, Others, LocalVars
  <2>6. LocalsOf(t)' /\ Ref(t)' = Ref(t) /\ Class(t)' = Class(t)
    BY <1>3, <1>4, <2>3, <2>4 DEF LocalsOf, Ref, Class, ClassOf, Adding
  <2> QED
    BY <1>2, <1>3, <1>6, <2>3, <2>4, <2>5, <2>6, QuietKeeps DEF Others
<1> QED
  BY <1>2, <1>5, <1>6 DEF AddCasHead

\* The adder gives up: it flags the node again, and adds it once more if nobody
\* looks at it.
LEMMA AddGiveUpKeeps ==
    ASSUME Configured, IInv, NEW t \in Threads, AddGiveUp(t)
    PROVE  IInv'
<1>1. PICK place, k, at :
         Chain(k, at) /\ Placed(place, k, at) /\ Ownership(place) /\ Counted(place)
  BY DEF IInv
<1>2. PICK n : n = my[t].node
  OBVIOUS
<1>3. /\ Types /\ Locals /\ pc[t] = "add_giveup"
      /\ freeListRefs' = [freeListRefs EXCEPT ![n] = @ + SHOULD_BE_ON_FREELIST - 1]
      /\ UNCHANGED <<freeListHead, freeListNext, out>>
      /\ place \in [Nodes -> Places] /\ SHOULD_BE_ON_FREELIST \in Nat
  BY <1>1, <1>2 DEF AddGiveUp, IInv, Placed, Configured
<1>4. n \in Nodes /\ Class(t) = "storing" /\ place[n] = "storing" /\ Ref(t) = NoNode
  BY <1>1, <1>2, <1>3, OwnPlace DEF Class, ClassOf, Adding, Ref
<1>5. freeListRefs[n] = Refs(n) + 1 /\ Refs(n) \in Nat
  BY <1>1, <1>4, RefsBound DEF Counted, Extra
<1>6. /\ freeListRefs' \in [Nodes -> Nat]
      /\ freeListRefs'[n] = Refs(n) + SHOULD_BE_ON_FREELIST
      /\ \A m \in Nodes \ {n} : freeListRefs'[m] = freeListRefs[m]
  BY <1>3, <1>4, <1>5 DEF Types
<1>7. PICK c \in {"flagging", "flagged"} :
         /\ Others(t) /\ LocalsOf(t)' /\ Ref(t)' = NoNode
         /\ c = "flagging" => Refs(n) = 0 /\ Class(t)' = c /\ my'[t].node = n
         /\ c = "flagged" => Refs(n) # 0 /\ Class(t)' = "none"
  <2>1. CASE freeListRefs[n] = 1
    <3>1. Goto(t, "add_next") /\ my' = my /\ "add_next" \in Labels
      BY <1>2, <2>1 DEF AddGiveUp, Labels, Adding
    <3>2. Others(t) /\ pc'[t] = "add_next" /\ my'[t] = my[t]
      BY <1>3, <3>1, MovedOnly
    <3>3. LocalsOf(t)' /\ Ref(t)' = NoNode /\ Class(t)' = "flagging" /\ my'[t].node = n
      BY <1>2, <1>4, <3>2 DEF LocalsOf, Ref, Class, ClassOf, Adding
    <3> QED
      BY <1>5, <2>1, <3>2, <3>3
  <2>2. CASE freeListRefs[n] # 1
    <3>1. Others(t) /\ Class(t)' = "none" /\ Ref(t)' = NoNode /\ LocalsOf(t)'
      BY <1>2, <1>3, <2>2, Left DEF AddGiveUp
    <3> QED
      BY <1>5, <2>2, <3>1
  <2> QED
    BY <2>1, <2>2
<1>8. c \in Places /\ c # "listed" /\ c # "out" /\ Extra(c) = SHOULD_BE_ON_FREELIST
  BY DEF Places, Owned, Extra
<1>9. \A m : Refs(m)' = Refs(m)
  BY <1>4, <1>7, RefsSame DEF Others
<1>10. Types'
  BY <1>3, <1>6, <1>7 DEF Types, Others, LocalVars
<1>11. Locals'
  BY <1>3, <1>7, LocalsKept DEF Others
<1>12. Chain(k, at)'
  BY <1>1, <1>3, ChainKept
<1>13. Placed([place EXCEPT ![n] = c], k, at)'
  <2>1. n \notin out'
    BY <1>1, <1>3, <1>4 DEF Placed
  <2> QED
    BY <1>1, <1>3, <1>4, <1>8, <2>1, PlacedMoves
<1>14. Ownership([place EXCEPT ![n] = c])'
  <2>1. \/ Class(t)' = c /\ my'[t].node = n /\ c \in Owned
        \/ Class(t)' = "none" /\ c \notin Owned
    BY <1>7 DEF Owned
  <2>2. Class(t) # "none" /\ my[t].node = n
    BY <1>2, <1>4
  <2>3. \A u \in Threads \ {t} : pc'[u] = pc[u] /\ my'[u] = my[u]
    BY <1>7 DEF Others
  <2> QED
    BY <1>1, <1>3, <1>4, <1>8, <2>1, <2>2, <2>3, OwnershipMoves
<1>15. Counted([place EXCEPT ![n] = c])'
  <2>1. freeListRefs'[n] = Refs(n)' + Extra(c)
    BY <1>6, <1>8, <1>9
  <2>2. (c = "flagging" => Refs(n)' = 0) /\ (c = "flagged" => Refs(n)' # 0)
    BY <1>7, <1>9
  <2>3. \A m \in Nodes \ {n} : freeListRefs'[m] = freeListRefs[m] /\ Refs(m)' = Refs(m)
    BY <1>6, <1>9
  <2> QED
    BY <1>1, <1>3, <1>4, <1>8, <2>1, <2>2, <2>3, CountedMoves
<1> QED
  BY <1>10, <1>11, <1>12, <1>13, <1>14, <1>15 DEF IInv

\* try_get takes a reference, or starts over because the count has changed.
LEMMA GetTakeRefKeeps ==
    ASSUME Configured, IInv, NEW t \in Threads, GetTakeRef(t)
    PROVE  IInv'
<1>1. PICK place, k, at :
         Chain(k, at) /\ Placed(place, k, at) /\ Ownership(place) /\ Counted(place)
  BY DEF IInv
<1>2. PICK n : n = my[t].head
  OBVIOUS
<1>3. /\ Types /\ Locals /\ pc[t] = "get_ref" /\ UNCHANGED <<freeListHead, freeListNext, out>>
      /\ n \in Nodes /\ RefCount(my[t].refs) # 0 /\ place \in [Nodes -> Places]
  BY <1>1, <1>2 DEF GetTakeRef, IInv, Placed, Locals, LocalsOf
<1>4. CASE /\ freeListRefs[n] = my[t].refs
           /\ freeListRefs' = [freeListRefs EXCEPT ![n] = @ + 1]
           /\ Goto(t, "get_next") /\ Keep(t, [NoLocals EXCEPT !.head = n])
  <2>1. PICK l : l = [NoLocals EXCEPT !.head = n]
    OBVIOUS
  <2>2. "get_next" \in Labels /\ l \in LocalVars /\ l.head = n
    BY <1>3, <2>1, LocalTypes DEF Labels, Link
  <2>3. Others(t) /\ pc'[t] = "get_next" /\ my'[t] = l
    BY <1>3, <1>4, <2>1, <2>2, Moved
  <2>4. Class(t)' = Class(t) /\ Class(t) = "none" /\ Ref(t) = NoNode /\ Ref(t)' = n
    BY <1>3, <2>2, <2>3 DEF Class, ClassOf, Ref
  <2>5. LocalsOf(t)'
    BY <1>3, <2>2, <2>3 DEF LocalsOf, Adding
  <2>6. /\ freeListRefs' \in [Nodes -> Nat] /\ freeListRefs'[n] = freeListRefs[n] + 1
        /\ \A m \in Nodes \ {n} : freeListRefs'[m] = freeListRefs[m]
    BY <1>3, <1>4 DEF Types
  <2>7. Types'
    BY <1>3, <2>3, <2>6 DEF Types, Others, LocalVars
  <2>8. Locals'
    BY <1>3, <2>3, <2>5, LocalsKept DEF Others
  <2>9. Chain(k, at)'
    BY <1>1, <1>3, ChainKept
  <2>10. Placed(place, k, at)'
    BY <1>1, <1>3 DEF Placed
  <2>11. Ownership(place)'
    BY <1>1, <2>3, <2>4, OwnershipKept DEF Others
  <2>12. \A m \in Nodes : Refs(m)' = IF m = n THEN Refs(m) + 1 ELSE Refs(m)
    <3>1. n # NoNode
      BY <1>3 DEF Configured
    <3> QED
      BY <2>3, <2>4, <3>1, RefsMore DEF Others
  <2>13. \A m \in Nodes : Refs(m) \in Nat
    BY RefsBound
  <2>14. place[n] # "flagging"
    <3>1. ASSUME place[n] = "flagging" PROVE FALSE
      <4>1. freeListRefs[n] = SHOULD_BE_ON_FREELIST
        BY <1>1, <1>3, <3>1 DEF Counted, Extra, Configured
      <4> QED
        BY <1>3, <1>4, <4>1, RefCountOfFlag
    <3> QED
      BY <3>1
  <2>15. Counted(place)'
    <3> SUFFICES ASSUME NEW m \in Nodes
                 PROVE  /\ freeListRefs'[m] = Refs(m)' + Extra(place[m])
                        /\ place[m] = "flagging" => Refs(m)' = 0
                        /\ place[m] = "flagged" => Refs(m)' # 0
      BY DEF Counted, Extra
    <3>1. /\ freeListRefs[m] = Refs(m) + Extra(place[m])
          /\ place[m] = "flagging" => Refs(m) = 0
          /\ place[m] = "flagged" => Refs(m) # 0
          /\ Extra(place[m]) \in Nat
      BY <1>1 DEF Counted, Extra, Configured
    <3>2. CASE m = n
      BY <2>6, <2>12, <2>13, <2>14, <3>1, <3>2
    <3>3. CASE m # n
      BY <2>6, <2>12, <3>1, <3>3
    <3> QED
      BY <3>2, <3>3
  <2> QED
    BY <2>7, <2>8, <2>9, <2>10, <2>11, <2>15 DEF IInv
<1>5. CASE Goto(t, "get_head") /\ Keep(t, NoLocals) /\ UNCHANGED freeListRefs
  BY <1>3, <1>5, StartOverKeeps
<1> QED
  BY <1>2, <1>4, <1>5 DEF GetTakeRef

\* try_get takes the node off the list, or finds that the head has changed.
LEMMA GetCasHeadKeeps ==
    ASSUME Configured, IInv, NEW t \in Threads, GetCasHead(t)
    PROVE  IInv'
<1>1. PICK place, k, at :
         Chain(k, at) /\ Placed(place, k, at) /\ Ownership(place) /\ Counted(place)
  BY DEF IInv
<1>2. PICK n : n = my[t].head
  OBVIOUS
<1>3. /\ Types /\ Locals /\ pc[t] = "get_cas" /\ UNCHANGED <<freeListRefs, freeListNext, out>>
      /\ n \in Nodes /\ my[t].next = freeListNext[n] /\ place \in [Nodes -> Places]
      /\ n # NoNode /\ n \in Link
  BY <1>1, <1>2 DEF GetCasHead, IInv, Placed, Locals, LocalsOf, Configured, Link
<1>4. Class(t) = "none" /\ Ref(t) = n
  BY <1>2, <1>3 DEF Class, ClassOf, Ref
<1>5. CASE /\ freeListHead = n /\ freeListHead' = my[t].next
           /\ Goto(t, "get_own") /\ Keep(t, [NoLocals EXCEPT !.node = n])
  <2>1. PICK l : l = [NoLocals EXCEPT !.node = n]
    OBVIOUS
  <2>2. "get_own" \in Labels /\ l \in LocalVars /\ l.node = n
    BY <1>3, <2>1, LocalTypes DEF Labels
  <2>3. Others(t) /\ pc'[t] = "get_own" /\ my'[t] = l
    BY <1>3, <1>5, <2>1, <2>2, Moved
  <2>4. Class(t)' = "taken" /\ Ref(t)' = Ref(t) /\ my'[t].node = n
    BY <1>4, <2>2, <2>3 DEF Class, ClassOf, Ref
  <2>5. LocalsOf(t)'
    BY <1>3, <2>2, <2>3 DEF LocalsOf, Adding
  <2>6. Types'
    BY <1>3, <1>5, <2>3 DEF Types, Others, LocalVars
  <2>7. Locals'
    BY <1>3, <2>3, <2>5, LocalsKept DEF Others
  <2>8. /\ k \in Nat /\ at \in [1 .. k -> Nodes] /\ k # 0 /\ k \in 1 .. k /\ at[k] = n
        /\ k - 1 \in Nat /\ \A i \in 1 .. k - 1 : i \in 1 .. k /\ i # k
    BY <1>1, <1>3, <1>5 DEF Chain
  <2>9. PICK new : new = [i \in 1 .. k - 1 |-> at[i]]
    OBVIOUS
  <2>10. new \in [1 .. k - 1 -> Nodes] /\ \A i \in 1 .. k - 1 : new[i] = at[i] /\ at[i] # n
    <3>1. \A i \in 1 .. k - 1 : at[i] \in Nodes /\ at[i] # n
      BY <1>1, <2>8 DEF Chain
    <3> QED
      BY <2>9, <3>1
  <2>11. Chain(k - 1, new)'
    <3>1. \A i, j \in 1 .. k - 1 : new[i] = new[j] => i = j
      BY <1>1, <2>8, <2>10 DEF Chain
    <3>2. freeListHead' = IF k - 1 = 0 THEN NoNode ELSE new[k - 1]
      <4>1. freeListHead' = IF k = 1 THEN NoNode ELSE at[k - 1]
        BY <1>1, <1>3, <1>5, <2>8 DEF Chain
      <4>2. k # 1 => k - 1 \in 1 .. k - 1
        BY <2>8
      <4>3. k - 1 = 0 <=> k = 1
        BY <2>8
      <4> QED
        BY <2>10, <4>1, <4>2, <4>3
    <3>3. \A i \in 1 .. k - 1 : freeListNext'[new[i]] = IF i = 1 THEN NoNode ELSE new[i - 1]
      <4> TAKE i \in 1 .. k - 1
      <4>1. freeListNext[at[i]] = IF i = 1 THEN NoNode ELSE at[i - 1]
        BY <1>1, <2>8 DEF Chain
      <4>2. i # 1 => i - 1 \in 1 .. k - 1
        BY <2>8
      <4> QED
        BY <1>3, <2>10, <4>1, <4>2
    <3> QED
      BY <2>8, <2>10, <3>1, <3>2, <3>3 DEF Chain
  <2> DEFINE moved == [place EXCEPT ![n] = "taken"]
  <2>12. \A m \in Nodes : moved[m] = IF m = n THEN "taken" ELSE place[m]
    BY <1>3
  <2>13. place[n] = "listed"
    BY <1>1, <1>3, <2>8 DEF Placed
  <2>14. Placed(moved, k - 1, new)'
    <3>1. moved \in [Nodes -> Places]
      BY <1>3 DEF Places, Owned
    <3>2. \A m \in Nodes : m \in out' <=> moved[m] = "out"
      BY <1>1, <1>3, <2>12, <2>13 DEF Placed
    <3>3. \A m \in Nodes : (\E i \in 1 .. k - 1 : new[i] = m) <=> moved[m] = "listed"
      <4> TAKE m \in Nodes
      <4>1. CASE m = n
        BY <2>10, <2>12, <4>1
      <4>2. CASE m # n
        <5>1. \A i \in 1 .. k : i # k => i \in 1 .. k - 1
          BY <2>8
        <5>2. (\E i \in 1 .. k - 1 : new[i] = m) <=> (\E i \in 1 .. k : at[i] = m)
          BY <2>8, <2>10, <4>2, <5>1
        <5> QED
          BY <1>1, <2>12, <4>2, <5>2 DEF Placed
      <4> QED
        BY <4>1, <4>2
    <3> QED
      BY <3>1, <3>2, <3>3 DEF Placed
  <2>15. Ownership(moved)'
    <3>1. "taken" \in Places /\ "taken" \in Owned /\ place[n] \notin Owned
      BY <2>13 DEF Places, Owned
    <3>2. \A u \in Threads \ {t} : pc'[u] = pc[u] /\ my'[u] = my[u]
      BY <2>3 DEF Others
    <3> QED
      BY <1>1, <1>3, <1>4, <2>4, <3>1, <3>2, OwnershipMoves
  <2>16. \A m : Refs(m)' = Refs(m)
    BY <2>3, <2>4, RefsSame DEF Others
  <2>17. Counted(moved)'
    <3>1. freeListRefs[n] = Refs(n) + 1
      BY <1>1, <1>3, <2>13 DEF Counted, Extra
    <3>2. freeListRefs'[n] = Refs(n)' + Extra("taken") /\ "taken" \in Places
      BY <1>3, <2>16, <3>1 DEF Extra, Places, Owned
    <3>3. \A m \in Nodes \ {n} : freeListRefs'[m] = freeListRefs[m] /\ Refs(m)' = Refs(m)
      BY <1>3, <2>16
    <3> QED
      BY <1>1, <1>3, <3>2, <3>3, CountedMoves
  <2> QED
    BY <2>6, <2>7, <2>11, <2>14, <2>15, <2>17 DEF IInv
<1>6. CASE /\ Goto(t, "get_drop") /\ UNCHANGED freeListHead
           /\ Keep(t, [NoLocals EXCEPT !.node = n, !.head = freeListHead])
  <2>1. PICK l : l = [NoLocals EXCEPT !.node = n, !.head = freeListHead]
    OBVIOUS
  <2>2. l \in LocalVars /\ l.node = n /\ "get_drop" \in Labels
    BY <1>3, <2>1 DEF Types, NoLocals, LocalVars, Link, Labels
  <2>3. Others(t) /\ pc'[t] = "get_drop" /\ my'[t] = l
    BY <1>3, <1>6, <2>1, <2>2, Moved
  <2>4. Types'
    BY <1>3, <1>6, <2>3 DEF Types, Others, LocalVars
  <2>5. LocalsOf(t)' /\ Ref(t)' = Ref(t) /\ Class(t)' = Class(t)
    BY <1>3, <1>4, <2>2, <2>3 DEF LocalsOf, Ref, Class, ClassOf, Adding
  <2> QED
    BY <1>3, <1>4, <1>6, <2>3, <2>4, <2>5, QuietKeeps DEF Others
<1> QED
  BY <1>2, <1>5, <1>6 DEF GetCasHead

\* try_get gives back its reference and the list's, and has the block.
LEMMA GetOwnKeeps ==
    ASSUME Configured, IInv, NEW t \in Threads, GetOwn(t)
    PROVE  IInv'
<1>1. PICK place, k, at :
         Chain(k, at) /\ Placed(place, k, at) /\ Ownership(place) /\ Counted(place)
  BY DEF IInv
<1>2. PICK n : n = my[t].node
  OBVIOUS
<1>3. /\ Types /\ Locals /\ pc[t] = "get_own" /\ Return(t)
      /\ freeListRefs' = [freeListRefs EXCEPT ![n] = @ - 2] /\ out' = out \cup {n}
      /\ UNCHANGED <<freeListHead, freeListNext>>
      /\ place \in [Nodes -> Places]
  BY <1>1, <1>2 DEF GetOwn, IInv, Placed
<1>4. n \in Nodes /\ Class(t) = "taken" /\ place[n] = "taken" /\ Ref(t) = n
  BY <1>1, <1>2, <1>3, OwnPlace DEF Class, ClassOf, Adding, Ref
<1>5. Others(t) /\ Class(t)' = "none" /\ Ref(t)' = NoNode /\ LocalsOf(t)'
  BY <1>3, Returned
<1>6. /\ \A m \in Nodes : Refs(m)' = IF m = n THEN Refs(m) - 1 ELSE Refs(m)
      /\ Refs(n) # 0
  BY <1>4, <1>5, RefsLess DEF Others
<1>7. freeListRefs[n] = Refs(n) + 1 /\ Refs(n) \in Nat
  BY <1>1, <1>4, RefsBound DEF Counted, Extra
<1>8. /\ freeListRefs' \in [Nodes -> Nat] /\ freeListRefs'[n] = Refs(n) - 1
      /\ \A m \in Nodes \ {n} : freeListRefs'[m] = freeListRefs[m]
  BY <1>3, <1>4, <1>6, <1>7 DEF Types
<1>9. Types'
  BY <1>3, <1>4, <1>5, <1>8 DEF Types, Others, LocalVars
<1>10. Locals'
  BY <1>3, <1>5, LocalsKept DEF Others
<1>11. Chain(k, at)'
  BY <1>1, <1>3, ChainKept
<1>12. "out" \in Places /\ "out" \notin Owned /\ Extra("out") = 0
  BY DEF Places, Owned, Extra
<1>13. Placed([place EXCEPT ![n] = "out"], k, at)'
  BY <1>1, <1>3, <1>4, <1>12, PlacedMoves
<1>14. Ownership([place EXCEPT ![n] = "out"])'
  <2>1. Class(t) # "none" /\ my[t].node = n
    BY <1>2, <1>4
  <2>2. \A u \in Threads \ {t} : pc'[u] = pc[u] /\ my'[u] = my[u]
    BY <1>5 DEF Others
  <2> QED
    BY <1>1, <1>3, <1>4, <1>5, <1>12, <2>1, <2>2, OwnershipMoves
<1>15. Counted([place EXCEPT ![n] = "out"])'
  <2>1. Refs(n)' = Refs(n) - 1
    BY <1>4, <1>6
  <2>2. freeListRefs'[n] = Refs(n)' + Extra("out")
    BY <1>7, <1>8, <1>12, <2>1
  <2>3. \A m \in Nodes \ {n} : freeListRefs'[m] = freeListRefs[m] /\ Refs(m)' = Refs(m)
    BY <1>6, <1>8
  <2> QED
    BY <1>1, <1>3, <1>4, <1>12, <2>2, <2>3, CountedMoves
<1> QED
  BY <1>9, <1>10, <1>11, <1>13, <1>14, <1>15 DEF IInv

\* try_get gives its reference back; the last to do so of a flagged node adds it.
LEMMA GetDropRefKeeps ==
    ASSUME Configured, IInv, NEW t \in Threads, GetDropRef(t)
    PROVE  IInv'
<1>1. PICK place, k, at :
         Chain(k, at) /\ Placed(place, k, at) /\ Ownership(place) /\ Counted(place)
  BY DEF IInv
<1>2. PICK n : n = my[t].node
  OBVIOUS
<1>3. /\ Types /\ Locals /\ pc[t] = "get_drop" /\ n \in Nodes
      /\ freeListRefs' = [freeListRefs EXCEPT ![n] = @ - 1]
      /\ UNCHANGED <<freeListHead, freeListNext, out>>
      /\ place \in [Nodes -> Places] /\ SHOULD_BE_ON_FREELIST \in Nat
  BY <1>1, <1>2 DEF GetDropRef, IInv, Placed, Locals, LocalsOf, Configured
<1>4. Class(t) = "none" /\ Ref(t) = n
  BY <1>2, <1>3 DEF Class, ClassOf, Ref
<1>5. Refs(n) \in Nat /\ Refs(n) + 1 < SHOULD_BE_ON_FREELIST
  BY RefsBound
<1>6. /\ freeListRefs[n] = Refs(n) + Extra(place[n]) /\ Extra(place[n]) \in Nat
      /\ place[n] = "flagging" => Refs(n) = 0
  BY <1>1, <1>3 DEF Counted, Extra
<1>7. /\ Others(t) /\ Ref(t)' = NoNode /\ LocalsOf(t)'
      /\ IF freeListRefs[n] = SHOULD_BE_ON_FREELIST + 1
         THEN Class(t)' = "flagging" /\ my'[t].node = n
         ELSE Class(t)' = "none"
  <2>1. CASE freeListRefs[n] = SHOULD_BE_ON_FREELIST + 1
    <3>1. Goto(t, "add_load") /\ my' = my /\ "add_load" \in Labels
      BY <1>2, <2>1 DEF GetDropRef, Labels, Adding
    <3>2. Others(t) /\ pc'[t] = "add_load" /\ my'[t] = my[t]
      BY <1>3, <3>1, MovedOnly
    <3>3. LocalsOf(t)' /\ Ref(t)' = NoNode /\ Class(t)' = "flagging" /\ my'[t].node = n
      BY <1>2, <1>3, <3>2 DEF LocalsOf, Ref, Class, ClassOf, Adding
    <3> QED
      BY <2>1, <3>2, <3>3
  <2>2. CASE freeListRefs[n] # SHOULD_BE_ON_FREELIST + 1
    <3>1. Others(t) /\ Class(t)' = "none" /\ Ref(t)' = NoNode /\ LocalsOf(t)'
      BY <1>2, <1>3, <2>2, Left DEF GetDropRef
    <3> QED
      BY <2>2, <3>1
  <2> QED
    BY <2>1, <2>2
<1>8. /\ \A m \in Nodes : Refs(m)' = IF m = n THEN Refs(m) - 1 ELSE Refs(m)
      /\ Refs(n) # 0
  BY <1>3, <1>4, <1>7, RefsLess DEF Others
<1>9. /\ freeListRefs' \in [Nodes -> Nat] /\ freeListRefs'[n] = freeListRefs[n] - 1
      /\ \A m \in Nodes \ {n} : freeListRefs'[m] = freeListRefs[m]
  <2>1. freeListRefs[n] - 1 \in Nat
    BY <1>5, <1>6, <1>8
  <2> QED
    BY <1>3, <2>1 DEF Types
<1>10. Types'
  BY <1>3, <1>7, <1>9 DEF Types, Others, LocalVars
<1>11. Locals'
  BY <1>3, <1>7, LocalsKept DEF Others
<1>12. Chain(k, at)'
  BY <1>1, <1>3, ChainKept
<1>13. place[n] # "flagging"
  BY <1>6, <1>8
<1>14. PICK c : c = IF freeListRefs[n] = SHOULD_BE_ON_FREELIST + 1 THEN "flagging" ELSE place[n]
  OBVIOUS
<1>15. freeListRefs[n] = SHOULD_BE_ON_FREELIST + 1 => place[n] = "flagged" /\ Refs(n) = 1
  <2>1. place[n] \in {"listed", "taken", "storing"} => Extra(place[n]) = 1
    BY DEF Extra
  <2>2. place[n] = "out" => Extra(place[n]) = 0
    BY DEF Extra
  <2>3. place[n] = "flagged" => Extra(place[n]) = SHOULD_BE_ON_FREELIST
    BY DEF Extra
  <2>4. place[n] \in {"out", "listed", "taken", "storing", "flagged"}
    BY <1>3, <1>13 DEF Places, Owned
  <2>5. CASE place[n] = "flagged"
    BY <1>3, <1>5, <1>6, <2>3, <2>5
  <2>6. CASE place[n] = "out"
    BY <1>3, <1>5, <1>6, <2>2, <2>6
  <2>7. CASE place[n] \in {"listed", "taken", "storing"}
    BY <1>3, <1>5, <1>6, <2>1, <2>7
  <2> QED
    BY <2>4, <2>5, <2>6, <2>7
<1>16. Ownership([place EXCEPT ![n] = c])'
  <2>1. \A u \in Threads \ {t} : pc'[u] = pc[u] /\ my'[u] = my[u]
    BY <1>7 DEF Others
  <2>2. CASE freeListRefs[n] = SHOULD_BE_ON_FREELIST + 1
    <3>1. /\ Class(t)' = c /\ my'[t].node = n /\ c \in Owned /\ c \in Places
          /\ place[n] \notin Owned
      BY <1>7, <1>14, <1>15, <2>2 DEF Owned, Places
    <3> QED
      BY <1>1, <1>3, <1>4, <2>1, <3>1, OwnershipMoves
  <2>3. CASE freeListRefs[n] # SHOULD_BE_ON_FREELIST + 1
    <3>1. [place EXCEPT ![n] = c] = place
      BY <1>3, <1>14, <2>3
    <3>2. Ownership(place)'
      BY <1>1, <1>4, <1>7, <2>1, <2>3, OwnershipKept
    <3> QED
      BY <3>1, <3>2
  <2> QED
    BY <2>2, <2>3
<1>17. Placed([place EXCEPT ![n] = c], k, at)'
  <2>1. CASE freeListRefs[n] = SHOULD_BE_ON_FREELIST + 1
    <3>1. c \in Places /\ c # "listed" /\ c # "out" /\ place[n] # "listed" /\ n \notin out'
      BY <1>1, <1>3, <1>14, <1>15, <2>1 DEF Places, Owned, Placed
    <3> QED
      BY <1>1, <1>3, <3>1, PlacedMoves
  <2>2. CASE freeListRefs[n] # SHOULD_BE_ON_FREELIST + 1
    <3>1. [place EXCEPT ![n] = c] = place
      BY <1>3, <1>14, <2>2
    <3>2. Placed(place, k, at)'
      BY <1>1, <1>3 DEF Placed
    <3> QED
      BY <3>1, <3>2
  <2> QED
    BY <2>1, <2>2
<1>18. Counted([place EXCEPT ![n] = c])'
  <2>1. \A m \in Nodes \ {n} : freeListRefs'[m] = freeListRefs[m] /\ Refs(m)' = Refs(m)
    BY <1>8, <1>9
  <2>2. Refs(n)' = Refs(n) - 1
    BY <1>3, <1>8
  <2>3. CASE freeListRefs[n] = SHOULD_BE_ON_FREELIST + 1
    <3>1. c = "flagging" /\ c \in Places /\ Refs(n)' = 0 /\ Extra(c) = SHOULD_BE_ON_FREELIST
      BY <1>14, <1>15, <2>2, <2>3 DEF Places, Owned, Extra
    <3>2. freeListRefs'[n] = Refs(n)' + Extra(c)
      BY <1>3, <1>9, <2>3, <3>1
    <3> QED
      BY <1>1, <1>3, <2>1, <3>1, <3>2, CountedMoves
  <2>4. CASE freeListRefs[n] # SHOULD_BE_ON_FREELIST + 1
    <3>1. c = place[n] /\ c \in Places /\ c # "flagging"
      BY <1>3, <1>13, <1>14, <2>4
    <3>2. freeListRefs'[n] = Refs(n)' + Extra(c)
      BY <1>5, <1>6, <1>9, <2>2, <3>1
    <3>3. c = "flagged" => Refs(n)' # 0
      <4>1. c = "flagged" => freeListRefs[n] = Refs(n) + SHOULD_BE_ON_FREELIST
        BY <1>6, <3>1 DEF Extra
      <4> QED
        BY <1>3, <1>5, <2>2, <2>4, <4>1
    <3> QED
      BY <1>1, <1>3, <2>1, <3>1, <3>2, <3>3, CountedMoves
  <2> QED
    BY <2>3, <2>4
<1> QED
  BY <1>10, <1>11, <1>12, <1>16, <1>17, <1>18 DEF IInv

-----------------------------------------------------------------------------
(* The invariant. *)

\* At first every block is in use and no thread looks at one.
LEMMA InitIInv ==
    ASSUME Configured, Init
    PROVE  IInv
<1>1. Types
  BY DEF Init, Types, NoLocals, Link, Labels
<1>2. Locals
  BY DEF Init, Locals, LocalsOf, Adding
<1>3. Chain(0, [i \in 1 .. 0 |-> NoNode])
  BY DEF Init, Chain
<1> DEFINE place == [n \in Nodes |-> "out"]
<1>4. Placed(place, 0, [i \in 1 .. 0 |-> NoNode])
  BY DEF Init, Placed, Places
<1>5. Ownership(place)
  BY DEF Init, Ownership, Class, ClassOf, Owned
<1>6. Counted(place)
  <2> SUFFICES ASSUME NEW n \in Nodes PROVE freeListRefs[n] = Refs(n) /\ Refs(n) = 0
    BY DEF Counted, Extra
  <2>1. \A t \in Threads : Ref(t) # n
    BY DEF Init, Ref, Configured
  <2>2. {t \in Threads : Ref(t) = n} = {}
    BY <2>1
  <2> QED
    BY <2>2, FS_EmptySet DEF Init, Refs
<1> QED
  BY <1>1, <1>2, <1>3, <1>4, <1>5, <1>6 DEF IInv

\* Every step keeps the invariant.
LEMMA NextIInv ==
    ASSUME Configured, IInv, [Next]_flVars
    PROVE  IInv'
<1>1. CASE UNCHANGED flVars
  <2>1. /\ freeListHead' = freeListHead /\ freeListRefs' = freeListRefs
        /\ freeListNext' = freeListNext /\ out' = out /\ pc' = pc /\ my' = my
    BY <1>1 DEF flVars
  <2>2. PICK place, k, at :
           Chain(k, at) /\ Placed(place, k, at) /\ Ownership(place) /\ Counted(place)
    BY DEF IInv
  <2>3. Types'
    BY <2>1 DEF IInv, Types
  <2>4. Locals'
    BY <2>1 DEF IInv, Locals, LocalsOf, RefCount
  <2>5. Chain(k, at)' /\ Placed(place, k, at)'
    BY <2>1, <2>2 DEF Chain, Placed
  <2>6. Ownership(place)'
    BY <2>1, <2>2 DEF Ownership, Class
  <2>7. \A n : Refs(n)' = Refs(n)
    BY <2>1 DEF Refs, Ref
  <2>8. Counted(place)'
    BY <2>1, <2>2, <2>7 DEF Counted, Extra
  <2> QED
    BY <2>3, <2>4, <2>5, <2>6, <2>8 DEF IInv
<1>2. CASE Next
  <2>1. PICK t \in Threads :
          \/ \E n \in Nodes : Add(t, n)
          \/ AddLoadHead(t) \/ AddStoreNext(t) \/ AddStoreRefs(t) \/ AddCasHead(t)
          \/ AddGiveUp(t)
          \/ Get(t) \/ GetLoadRefs(t) \/ GetTakeRef(t) \/ GetLoadNext(t)
          \/ GetCasHead(t) \/ GetOwn(t) \/ GetDropRef(t)
    BY <1>2 DEF Next
  <2>2. CASE \E n \in Nodes : Add(t, n)
    BY <2>2, AddKeeps
  <2>3. CASE AddLoadHead(t) \/ AddStoreNext(t) \/ AddStoreRefs(t)
    BY <2>3, AddLoadHeadKeeps, AddStoreNextKeeps, AddStoreRefsKeeps
  <2>4. CASE AddCasHead(t) \/ AddGiveUp(t)
    BY <2>4, AddCasHeadKeeps, AddGiveUpKeeps
  <2>5. CASE Get(t) \/ GetLoadRefs(t) \/ GetTakeRef(t) \/ GetLoadNext(t)
    BY <2>5, GetKeeps, GetLoadRefsKeeps, GetTakeRefKeeps, GetLoadNextKeeps
  <2>6. CASE GetCasHead(t) \/ GetOwn(t) \/ GetDropRef(t)
    BY <2>6, GetCasHeadKeeps, GetOwnKeeps, GetDropRefKeeps
  <2> QED
    BY <2>1, <2>2, <2>3, <2>4, <2>5, <2>6
<1> QED
  BY <1>1, <1>2

\* Every set of naturals that is not empty has a least element.
LEMMA LeastNat ==
    ASSUME NEW T, T \subseteq Nat, T # {}
    PROVE  \E x \in T : \A y \in T : x <= y
<1> DEFINE R == OpToRel(<, Nat)
<1>1. IsWellFoundedOn(R, Nat)
  BY NatLessThanWellFounded
<1>2. \A x, y \in Nat : y < x => <<y, x>> \in R
  BY DEF OpToRel
<1> HIDE DEF R
<1>3. PICK x \in T : \A y \in T : ~ (<<y, x>> \in R)
  BY <1>1, WFMin
<1>4. \A y \in T : ~(y < x)
  BY <1>2, <1>3, Zenon
<1> QED
  BY <1>4

\* The nodes that can be reached from the head are those of the list.
LEMMA ListedNodes ==
    ASSUME Configured, NEW k, NEW at, Chain(k, at)
    PROVE  \A n : n \in Listed <=> \E i \in 1 .. k : at[i] = n
<1>1. k \in Nat /\ at \in [1 .. k -> Nodes]
  BY DEF Chain
<1>2. ASSUME NEW n \in Listed PROVE \E i \in 1 .. k : at[i] = n
  <2> DEFINE S == {at[i] : i \in 1 .. k}
  <2>1. S \in SUBSET Nodes
    BY <1>1
  <2>2. freeListHead \in S \cup {NoNode}
    <3>1. k # 0 => k \in 1 .. k
      BY <1>1
    <3> QED
      BY <3>1 DEF Chain
  <2>3. \A m \in S : freeListNext[m] \in S \cup {NoNode}
    <3> SUFFICES ASSUME NEW i \in 1 .. k PROVE freeListNext[at[i]] \in S \cup {NoNode}
      OBVIOUS
    <3>1. i # 1 => i - 1 \in 1 .. k
      BY <1>1
    <3> QED
      BY <3>1 DEF Chain
  <2>4. n \in S
    BY <2>1, <2>2, <2>3 DEF Listed, Linked
  <2> QED
    BY <2>4
<1>3. ASSUME NEW i \in 1 .. k PROVE at[i] \in Listed
  <2> SUFFICES ASSUME NEW S \in SUBSET Nodes, Linked(S), at[i] \notin S PROVE FALSE
    BY <1>1 DEF Listed
  <2> DEFINE T == {j \in 0 .. k - 1 : at[k - j] \notin S}
  <2>1. k - i \in T /\ T \subseteq Nat
    <3>1. k - i \in 0 .. k - 1 /\ k - (k - i) = i
      BY <1>1
    <3> QED
      BY <3>1
  <2>2. PICK j \in T : \A x \in T : j <= x
    BY <2>1, LeastNat
  <2>3. j \in 0 .. k - 1 /\ at[k - j] \notin S
    BY <2>2
  <2>4. CASE j = 0
    <3>1. k # 0 /\ k - j = k /\ k \in 1 .. k
      BY <1>1, <2>3, <2>4
    <3>2. freeListHead = at[k] /\ at[k] \in Nodes
      BY <1>1, <3>1 DEF Chain
    <3> QED
      BY <2>3, <3>1, <3>2 DEF Linked, Configured
  <2>5. CASE j # 0
    <3>1. /\ j - 1 \in 0 .. k - 1 /\ ~(j <= j - 1) /\ k - (j - 1) \in 1 .. k /\ k - j \in 1 .. k
          /\ k - (j - 1) # 1 /\ (k - (j - 1)) - 1 = k - j
      BY <1>1, <2>3, <2>5
    <3>2. at[k - (j - 1)] \in S
      BY <2>2, <3>1
    <3>3. freeListNext[at[k - (j - 1)]] = at[k - j] /\ at[k - j] \in Nodes
      BY <1>1, <3>1 DEF Chain
    <3> QED
      BY <2>3, <3>2, <3>3 DEF Linked, Configured
  <2> QED
    BY <2>4, <2>5
<1> QED
  BY <1>2, <1>3

\* The invariant implies that a block has one owner.
LEMMA SafeOwner ==
    ASSUME Configured, IInv
    PROVE  OneOwner
<1>1. PICK place, k, at :
         Chain(k, at) /\ Placed(place, k, at) /\ Ownership(place) /\ Counted(place)
  BY DEF IInv
<1>2. \A n \in Nodes : (n \in Listed <=> place[n] = "listed") /\ (n \in out <=> place[n] = "out")
  BY <1>1, ListedNodes DEF Placed
<1>3. Listed \subseteq Nodes /\ out \subseteq Nodes
  BY DEF Listed, IInv, Types
<1>4. out \cap Listed = {}
  BY <1>2, <1>3
<1>5. ASSUME NEW t \in Threads, Taking(t)
      PROVE  /\ my[t].node \notin out \cup Listed
             /\ \A u \in Threads \ {t} : Taking(u) => my[u].node # my[t].node
  <2>1. my[t].node \in Nodes /\ place[my[t].node] = "taken"
    BY <1>1, <1>5, OwnPlace DEF IInv, Taking, Class, ClassOf
  <2>2. \A u \in Threads : Taking(u) => Class(u) # "none"
    BY DEF Taking, Class, ClassOf
  <2> QED
    BY <1>1, <1>2, <1>5, <2>1, <2>2 DEF Ownership
<1> QED
  BY <1>4, <1>5 DEF OneOwner

\* The invariant implies the assertion of try_get.
LEMMA SafeTaken ==
    ASSUME Configured, IInv
    PROVE  TakenUnflagged
<1>1. PICK place, k, at :
         Chain(k, at) /\ Placed(place, k, at) /\ Ownership(place) /\ Counted(place)
  BY DEF IInv
<1> SUFFICES ASSUME NEW t \in Threads, Taking(t)
             PROVE  freeListRefs[my[t].node] < SHOULD_BE_ON_FREELIST
  BY DEF TakenUnflagged
<1>2. my[t].node \in Nodes /\ place[my[t].node] = "taken"
  BY <1>1, OwnPlace DEF IInv, Taking, Class, ClassOf
<1>3. freeListRefs[my[t].node] = Refs(my[t].node) + 1
  BY <1>1, <1>2 DEF Counted, Extra
<1> QED
  BY <1>3, RefsBound

\* The invariant implies that no block leaks and none is added twice.
LEMMA SafeNodes ==
    ASSUME Configured, IInv
    PROVE  NoNodeLost
<1>1. PICK place, k, at :
         Chain(k, at) /\ Placed(place, k, at) /\ Ownership(place) /\ Counted(place)
  BY DEF IInv
<1> SUFFICES ASSUME NEW n \in Nodes
             PROVE  LET adders == {t \in Threads : pc[t] \in Adding /\ my[t].node = n}
                        before == {t \in adders : ~(pc[t] = "add_giveup")}
                    IN /\ Cardinality(before) <= 1
                       /\ n \notin out \cup Listed =>
                             \/ \E t \in Threads : Taking(t) /\ my[t].node = n
                             \/ adders # {}
                             \/ /\ freeListRefs[n] > SHOULD_BE_ON_FREELIST
                                /\ \E t \in Threads :
                                      \/ pc[t] \in {"get_next", "get_cas"} /\ my[t].head = n
                                      \/ pc[t] = "get_drop" /\ my[t].node = n
                       /\ n \in out \cup Listed => before = {}
  BY DEF NoNodeLost
<1> DEFINE adders == {t \in Threads : pc[t] \in Adding /\ my[t].node = n}
           before == {t \in adders : ~(pc[t] = "add_giveup")}
<1>2. /\ n \in Listed <=> place[n] = "listed"
      /\ n \in out <=> place[n] = "out"
      /\ place[n] \in Places
  BY <1>1, ListedNodes DEF Placed
<1>3. \A t \in adders : Class(t) \in Owned /\ place[n] = Class(t)
  BY <1>1 DEF Ownership, Class, ClassOf, Adding, Owned
<1>4. \A t, u \in adders : t = u
  BY <1>1, <1>3 DEF Ownership, Owned
<1>5. Cardinality(before) <= 1
  <2>1. CASE before = {}
    BY <2>1, FS_EmptySet
  <2>2. CASE before # {}
    <3>1. PICK t : before = {t}
      BY <1>4, <2>2
    <3>2. Cardinality({t}) = 1
      BY FS_Singleton
    <3> HIDE DEF before
    <3>3. Cardinality(before) = 1
      BY <3>1, <3>2
    <3> QED
      BY <3>3
  <2> QED
    BY <2>1, <2>2
<1>6. n \in out \cup Listed => before = {}
  BY <1>2, <1>3 DEF Owned
<1>7. ASSUME n \notin out \cup Listed
      PROVE  \/ \E t \in Threads : Taking(t) /\ my[t].node = n
             \/ adders # {}
             \/ /\ freeListRefs[n] > SHOULD_BE_ON_FREELIST
                /\ \E t \in Threads :
                      \/ pc[t] \in {"get_next", "get_cas"} /\ my[t].head = n
                      \/ pc[t] = "get_drop" /\ my[t].node = n
  <2>1. place[n] \in Owned \cup {"flagged"}
    BY <1>2, <1>7 DEF Places
  <2>2. CASE place[n] \in Owned
    <3>1. PICK t \in Threads : Class(t) # "none" /\ my[t].node = n
      BY <1>1, <2>2 DEF Ownership
    <3>2. Taking(t) \/ pc[t] \in Adding
      BY <3>1 DEF Class, ClassOf, Taking, Adding
    <3> QED
      BY <3>1, <3>2
  <2>3. CASE place[n] = "flagged"
    <3>1. Refs(n) # 0 /\ freeListRefs[n] = Refs(n) + SHOULD_BE_ON_FREELIST
      BY <1>1, <2>3 DEF Counted, Extra
    <3>2. freeListRefs[n] > SHOULD_BE_ON_FREELIST
      BY <3>1, RefsBound DEF Configured
    <3>3. PICK t \in Threads : Ref(t) = n
      BY <3>1, RefsSome
    <3>4. n # NoNode
      BY DEF Configured
    <3>5. pc[t] # "get_own" \/ my[t].node # n
      BY <1>1, <2>3 DEF Ownership, Class, ClassOf
    <3>6. \/ pc[t] \in {"get_next", "get_cas"} /\ my[t].head = n
          \/ pc[t] = "get_drop" /\ my[t].node = n
      BY <3>3, <3>4, <3>5 DEF Ref
    <3> QED
      BY <3>2, <3>6
  <2> QED
    BY <2>1, <2>2, <2>3
<1> QED
  BY <1>5, <1>6, <1>7

-----------------------------------------------------------------------------
(* Whatever the threads do with the free list, and in whatever order their *)
(* atomic operations come, a block handed out belongs to one thread, the   *)
(* assertion of try_get holds, and every block is in use, on the list or   *)
(* in the hands of a thread that will put it there (add, try_get,          *)
(* add_knowing_refcount_is_zero).                                          *)
THEOREM FreeListAlwaysSound == ASSUME Configured PROVE Spec => []FreeListSound
<1>1. Init => IInv
  BY InitIInv
<1>2. IInv /\ [Next]_flVars => IInv'
  BY NextIInv
<1>3. IInv => FreeListSound
  BY SafeOwner, SafeTaken, SafeNodes DEF FreeListSound
<1> QED
  BY <1>1, <1>2, <1>3, PTL DEF Spec
=============================================================================
