--------------------------- MODULE CompletionQueue ---------------------------
(***************************************************************************)
(* The completion queue between the threads that finish requests (output   *)
(* threads and the drop thread) and the reply threads that poll it         *)
(* (ServerState.getCompQueue, service/concurrentqueue.h).  The frontend    *)
(* uses only implicit producers, enqueue and try_dequeue.                  *)
(*                                                                         *)
(* Each producing thread has a sub-queue of its own: an endless array of   *)
(* slots cut into blocks, with a circular index of entries that finds the  *)
(* block of a slot.  Every step below is one atomic operation of the code; *)
(* operations whose memory is private to the thread are joined with the    *)
(* next shared one.  The memory orders of the operations are not modelled, *)
(* index_t is 64 bits wide and does not wrap in the bounds.  The blocks'   *)
(* free list is the set it implements (module FreeList).                   *)
(***************************************************************************)
EXTENDS Integers, Sequences, FiniteSets

CONSTANTS
    Producers,                     \* a sequence: the list of producers
    Consumers,
    Goals,                         \* workloads: how often each producer calls enqueue
    BLOCK_SIZE,
    IMPLICIT_INITIAL_INDEX_SIZE,
    InitialPool,                   \* blocks allocated with the queue
    MaxBlocks,                     \* bound: blocks malloc can give in all
    MaxFailures,                   \* bound: calls of malloc that fail
    MaxFailedClaims,               \* bound: claims that come too late, see LoadOvercommit
    Nobody

VARIABLES
    work,                          \* the workload: calls of enqueue in all
    goal,                          \* calls of enqueue left
    tailIndex, headIndex, dequeueOptimisticCount, dequeueOvercommit,
    tailBlock,
    headers,                       \* producer -> its block indexes, newest last
    key, value,                    \* producer -> entry -> base slot / block
    elements,                      \* block -> slot -> request or Nobody
    elementsCompletelyDequeued,    \* block -> count
    initialBlockPoolIndex,
    freeList,                      \* free blocks
    blocks,                        \* number of blocks that exist
    failures,                      \* calls of malloc that failed
    pp,                            \* producer -> [pc, entry, tail, block]
    cc,                            \* consumer -> its pc and locals
    delivered                      \* requests handed to reply threads

indexVars == <<headers, key, value>>
blockVars == <<elements, elementsCompletelyDequeued>>
poolVars == <<initialBlockPoolIndex, freeList, blocks, failures>>
countVars == <<dequeueOptimisticCount, dequeueOvercommit>>
cqVars == <<work, goal, tailIndex, headIndex, countVars, tailBlock, indexVars,
            blockVars, poolVars, pp, cc, delivered>>

ProducerSet == {Producers[i] : i \in DOMAIN Producers}
INVALID_BLOCK_BASE == 1
NoBlock == 0        \* nullptr; reading through it finds no request
Slots == 0 .. BLOCK_SIZE - 1

\* An index a & (capacity - 1), for a capacity that is a power of two.
Wrap(a, capacity) == a % capacity

(* new_block_index: the entries of the old index come first, oldest first,  *)
(* then as many new ones; the tail is the last of the old entries.  Entries *)
(* are numbered in the order of their creation.                              *)
NewIndex(old, capacity) ==
    LET was == IF old = << >> THEN 0 ELSE old[Len(old)].capacity
        prev(i) == LET h == old[Len(old)] IN h.index[Wrap(h.tail + 1 + i, was)]
    IN [capacity |-> capacity,
        tail     |-> Wrap(was - 1, capacity),
        index    |-> [i \in 0 .. capacity - 1 |->
                         IF i < was THEN prev(i) ELSE i]]

Current(p) == headers[p][Len(headers[p])]
Entries(hs) == 0 .. hs[Len(hs)].capacity - 1

IdleProducer == [pc |-> "idle", entry |-> 0, tail |-> 0, block |-> NoBlock]
IdleConsumer == [pc |-> "scan", at |-> 1, best |-> Nobody, size |-> 0, some |-> 0,
                 todo |-> << >>, tail |-> 0, over |-> 0, index |-> 0,
                 header |-> 0, entry |-> 0, block |-> NoBlock, el |-> Nobody]

FirstIndex == NewIndex(<< >>, IMPLICIT_INITIAL_INDEX_SIZE)

Init ==
    /\ work \in Goals
    /\ goal = work
    /\ tailIndex = [p \in ProducerSet |-> 0]
    /\ headIndex = [p \in ProducerSet |-> 0]
    /\ dequeueOptimisticCount = [p \in ProducerSet |-> 0]
    /\ dequeueOvercommit = [p \in ProducerSet |-> 0]
    /\ tailBlock = [p \in ProducerSet |-> NoBlock]
    /\ headers = [p \in ProducerSet |-> <<FirstIndex>>]
    /\ key = [p \in ProducerSet |-> [e \in Entries(<<FirstIndex>>) |-> INVALID_BLOCK_BASE]]
    /\ value = [p \in ProducerSet |-> [e \in Entries(<<FirstIndex>>) |-> NoBlock]]
    /\ elements = [b \in NoBlock .. MaxBlocks |-> [s \in Slots |-> Nobody]]
    /\ elementsCompletelyDequeued = [b \in NoBlock .. MaxBlocks |-> 0]
    /\ initialBlockPoolIndex = 0
    /\ freeList = {}
    /\ blocks = InitialPool
    /\ failures = 0
    /\ pp = [p \in ProducerSet |-> IdleProducer]
    /\ cc = [c \in Consumers |-> IdleConsumer]
    /\ delivered = {}

-----------------------------------------------------------------------------
(* enqueue, by the thread that owns the sub-queue p.                        *)

At(p, label) == pp[p].pc = label
Step(p, label) == pp' = [pp EXCEPT ![p].pc = label]

(* A slot in the middle of a block is written at once; at the end of a      *)
(* block a new one is started.                                              *)
Enqueue(p) ==
    /\ At(p, "idle")
    /\ goal[p] > 0
    /\ goal' = [goal EXCEPT ![p] = @ - 1]
    /\ Step(p, IF tailIndex[p] % BLOCK_SIZE = 0 THEN "insert" ELSE "write")
    /\ UNCHANGED <<work, tailIndex, headIndex, countVars, tailBlock, indexVars,
                   blockVars, poolVars, cc, delivered>>

\* Mutant: the oldest entry is taken over although its block is in use.
EntryFreeUnchecked(p, e) == TRUE

EntryFree(p, e) == key[p][e] = INVALID_BLOCK_BASE \/ value[p][e] = NoBlock

(* insert_block_index_entry: take the entry after the tail if its block was *)
(* released, else publish an index of twice the size first.                 *)
InsertEntry(p) ==
    /\ At(p, "insert")
    /\ LET h == Current(p)
           t == Wrap(h.tail + 1, h.capacity)
           e == h.index[t]
       IN /\ EntryFree(p, e)
          /\ pp' = [pp EXCEPT ![p].pc = "key", ![p].entry = e, ![p].tail = t]
    /\ UNCHANGED <<work, goal, tailIndex, headIndex, countVars, tailBlock, indexVars,
                   blockVars, poolVars, cc, delivered>>

GrowIndex(p) ==
    /\ At(p, "insert")
    /\ LET h == Current(p)
           g == NewIndex(headers[p], 2 * h.capacity)
           t == Wrap(g.tail + 1, g.capacity)
           new == h.capacity .. 2 * h.capacity - 1
       IN /\ ~EntryFree(p, h.index[Wrap(h.tail + 1, h.capacity)])
          /\ headers' = [headers EXCEPT ![p] = Append(@, g)]
          /\ key' = [key EXCEPT ![p] =
                [e \in Entries(<<g>>) |-> IF e \in new THEN INVALID_BLOCK_BASE ELSE @[e]]]
          /\ value' = [value EXCEPT ![p] =
                [e \in Entries(<<g>>) |-> IF e \in new THEN NoBlock ELSE @[e]]]
          /\ pp' = [pp EXCEPT ![p].pc = "key", ![p].entry = g.index[t], ![p].tail = t]
    /\ UNCHANGED <<work, goal, tailIndex, headIndex, countVars, tailBlock,
                   blockVars, poolVars, cc, delivered>>

(* enqueue returns false, and its callers do not look: the request is gone. *)
GrowFails(p) ==
    /\ At(p, "insert")
    /\ failures < MaxFailures
    /\ LET h == Current(p) IN ~EntryFree(p, h.index[Wrap(h.tail + 1, h.capacity)])
    /\ failures' = failures + 1
    /\ Step(p, "idle")
    /\ UNCHANGED <<work, goal, tailIndex, headIndex, countVars, tailBlock, indexVars,
                   blockVars, initialBlockPoolIndex, freeList, blocks, cc, delivered>>

StoreKey(p) ==
    /\ At(p, "key")
    /\ key' = [key EXCEPT ![p][pp[p].entry] = tailIndex[p]]
    /\ Step(p, "tail")
    /\ UNCHANGED <<work, goal, tailIndex, headIndex, countVars, tailBlock, headers, value,
                   blockVars, poolVars, cc, delivered>>

StoreTail(p) ==
    /\ At(p, "tail")
    /\ headers' = [headers EXCEPT ![p][Len(headers[p])].tail = pp[p].tail]
    /\ Step(p, "pool")
    /\ UNCHANGED <<work, goal, tailIndex, headIndex, countVars, tailBlock, key, value,
                   blockVars, poolVars, cc, delivered>>

(* requisition_block: from the initial pool, else from the free list, else  *)
(* from malloc.                                                             *)
GotBlock(p, b) == pp' = [pp EXCEPT ![p].pc = "reset", ![p].block = b]

TryInitialPool(p) ==
    /\ At(p, "pool")
    /\ \/ /\ initialBlockPoolIndex < InitialPool
          /\ initialBlockPoolIndex' = initialBlockPoolIndex + 1
          /\ GotBlock(p, initialBlockPoolIndex + 1)
       \/ /\ initialBlockPoolIndex >= InitialPool
          /\ Step(p, "free")
          /\ UNCHANGED initialBlockPoolIndex
    /\ UNCHANGED <<work, goal, tailIndex, headIndex, countVars, tailBlock, indexVars,
                   blockVars, freeList, blocks, failures, cc, delivered>>

TryFreeList(p) ==
    /\ At(p, "free")
    /\ \/ \E b \in freeList : freeList' = freeList \ {b} /\ GotBlock(p, b)
       \/ freeList = {} /\ Step(p, "create") /\ UNCHANGED freeList
    /\ UNCHANGED <<work, goal, tailIndex, headIndex, countVars, tailBlock, indexVars,
                   blockVars, initialBlockPoolIndex, blocks, failures, cc, delivered>>

CreateBlock(p) ==
    /\ At(p, "create")
    /\ blocks < MaxBlocks
    /\ blocks' = blocks + 1
    /\ GotBlock(p, blocks + 1)
    /\ UNCHANGED <<work, goal, tailIndex, headIndex, countVars, tailBlock, indexVars, blockVars,
                   initialBlockPoolIndex, freeList, failures, cc, delivered>>

(* rewind_block_index_tail and a null entry: enqueue returns false, unseen. *)
CreateFails(p) ==
    /\ At(p, "create")
    /\ failures < MaxFailures
    /\ failures' = failures + 1
    /\ LET h == Current(p) IN
       headers' = [headers EXCEPT ![p][Len(headers[p])].tail =
                      Wrap(h.tail - 1, h.capacity)]
    /\ value' = [value EXCEPT ![p][pp[p].entry] = NoBlock]
    /\ pp' = [pp EXCEPT ![p] = IdleProducer]
    /\ UNCHANGED <<work, goal, tailIndex, headIndex, countVars, tailBlock, key, blockVars,
                   initialBlockPoolIndex, freeList, blocks, cc, delivered>>

ResetEmpty(p) ==
    /\ At(p, "reset")
    /\ elementsCompletelyDequeued' =
          [elementsCompletelyDequeued EXCEPT ![pp[p].block] = 0]
    /\ Step(p, "value")
    /\ UNCHANGED <<work, goal, tailIndex, headIndex, countVars, tailBlock, indexVars, elements,
                   poolVars, cc, delivered>>

StoreValue(p) ==
    /\ At(p, "value")
    /\ value' = [value EXCEPT ![p][pp[p].entry] = pp[p].block]
    /\ tailBlock' = [tailBlock EXCEPT ![p] = pp[p].block]
    /\ Step(p, "write")
    /\ UNCHANGED <<work, goal, tailIndex, headIndex, countVars, headers, key, blockVars,
                   poolVars, cc, delivered>>

WriteElement(p) ==
    /\ At(p, "write")
    /\ elements' = [elements EXCEPT
          ![tailBlock[p]][tailIndex[p] % BLOCK_SIZE] = <<p, tailIndex[p]>>]
    /\ Step(p, "publish")
    /\ UNCHANGED <<work, goal, tailIndex, headIndex, countVars, tailBlock, indexVars,
                   elementsCompletelyDequeued, poolVars, cc, delivered>>

Publish(p) ==
    /\ At(p, "publish")
    /\ tailIndex' = [tailIndex EXCEPT ![p] = @ + 1]
    /\ pp' = [pp EXCEPT ![p] = IdleProducer]
    /\ UNCHANGED <<work, goal, headIndex, countVars, tailBlock, indexVars, blockVars,
                   poolVars, cc, delivered>>

Produce(p) ==
    \/ Enqueue(p) \/ InsertEntry(p) \/ GrowIndex(p) \/ GrowFails(p)
    \/ StoreKey(p) \/ StoreTail(p) \/ TryInitialPool(p) \/ TryFreeList(p)
    \/ CreateBlock(p) \/ CreateFails(p) \/ ResetEmpty(p) \/ StoreValue(p)
    \/ WriteElement(p) \/ Publish(p)

-----------------------------------------------------------------------------
(* try_dequeue, by a reply thread that polls for ever (initSend).           *)

On(c, label) == cc[c].pc = label
Move(c, locals) == cc' = [cc EXCEPT ![c] = locals]
unusedByConsumer == <<work, goal, tailBlock, headers, key, initialBlockPoolIndex,
                      blocks, failures, pp>>
sharedVars == <<tailIndex, headIndex, countVars, value, blockVars, freeList, delivered,
                unusedByConsumer>>

\* Mutant: off by one, a sub-queue with one request looks empty.
SizeOfLess(tail, head) == IF head + 1 < tail THEN tail - head ELSE 0

\* producerListTail: threads that enqueue have registered (module ProducerHash).
List == SelectSeq(Producers, LAMBDA p : work[p] > 0)

SizeOf(tail, head) == IF head < tail THEN tail - head ELSE 0

(* The call returns false when it has seen every producer empty; the thread *)
(* sleeps and calls again.  Otherwise the largest is tried first, then all  *)
(* the others in list order.                                                *)
ScanEnd(l) ==
    IF l.some = 0 THEN IdleConsumer
    ELSE [IdleConsumer EXCEPT !.pc = "tail",
             !.todo = <<l.best>> \o SelectSeq(List, LAMBDA p : p # l.best)]

(* One producer is scored by the two loads of size_approx. *)
ScanTail(c) ==
    /\ On(c, "scan")
    /\ Move(c, [cc[c] EXCEPT !.pc = "scan_head", !.tail = tailIndex[List[cc[c].at]]])
    /\ UNCHANGED sharedVars

ScanHead(c) ==
    /\ On(c, "scan_head")
    /\ LET l == cc[c]
           size == SizeOf(l.tail, headIndex[List[l.at]])
           seen == [l EXCEPT !.pc = "scan", !.tail = 0, !.at = @ + 1,
                       !.some = IF size > 0 THEN @ + 1 ELSE @,
                       !.best = IF size > l.size THEN List[l.at] ELSE @,
                       !.size = IF size > @ THEN size ELSE @]
       IN Move(c, IF seen.some < 3 /\ seen.at <= Len(List) THEN seen ELSE ScanEnd(seen))
    /\ UNCHANGED sharedVars

\* dequeue of the first producer in todo returned false: the next one.
Fail(l) ==
    IF Len(l.todo) = 1 THEN IdleConsumer
    ELSE [IdleConsumer EXCEPT !.pc = "tail", !.todo = Tail(l.todo)]

Prod(c) == Head(cc[c].todo)

LoadTail(c) ==
    /\ On(c, "tail")
    /\ Move(c, [cc[c] EXCEPT !.pc = "over", !.tail = tailIndex[Prod(c)]])
    /\ UNCHANGED sharedVars

(* Nothing stops readers from failing each other for ever: each raises the  *)
(* count while the other holds an old overcommit.  The bound ends that:     *)
(* after MaxFailedClaims a reader enters the window only when it is empty.  *)
Window == {"count", "claim", "recheck", "overcommit"}

LoadOvercommit(c) ==
    /\ On(c, "over")
    /\ \/ dequeueOvercommit[Prod(c)] < MaxFailedClaims
       \/ \A d \in Consumers \ {c} : cc[d].pc \in Window => Prod(d) # Prod(c)
    /\ Move(c, [cc[c] EXCEPT !.pc = "count", !.over = dequeueOvercommit[Prod(c)]])
    /\ UNCHANGED sharedVars

LoadCount(c) ==
    /\ On(c, "count")
    /\ LET l == cc[c] IN
       Move(c, IF dequeueOptimisticCount[Prod(c)] - l.over < l.tail
               THEN [l EXCEPT !.pc = "claim", !.tail = 0]
               ELSE Fail(l))
    /\ UNCHANGED sharedVars

(* The optimistic count is raised first; index holds the count it had. *)
ClaimCount(c) ==
    /\ On(c, "claim")
    /\ dequeueOptimisticCount' = [dequeueOptimisticCount EXCEPT ![Prod(c)] = @ + 1]
    /\ Move(c, [cc[c] EXCEPT !.pc = "recheck", !.index = dequeueOptimisticCount[Prod(c)]])
    /\ UNCHANGED <<tailIndex, headIndex, dequeueOvercommit, value, blockVars, freeList,
                   delivered, unusedByConsumer>>

Recheck(c) ==
    /\ On(c, "recheck")
    /\ LET l == cc[c] IN
       Move(c, [l EXCEPT !.pc = IF l.index - l.over < tailIndex[Prod(c)]
                                THEN "head" ELSE "overcommit",
                         !.index = 0, !.over = 0])
    /\ UNCHANGED sharedVars

(* The count was raised for nothing: the overcommit makes up for it. *)
Overcommit(c) ==
    /\ On(c, "overcommit")
    /\ dequeueOvercommit' = [dequeueOvercommit EXCEPT ![Prod(c)] = @ + 1]
    /\ Move(c, Fail(cc[c]))
    /\ UNCHANGED <<tailIndex, headIndex, dequeueOptimisticCount, value, blockVars, freeList,
                   delivered, unusedByConsumer>>

TakeIndex(c) ==
    /\ On(c, "head")
    /\ headIndex' = [headIndex EXCEPT ![Prod(c)] = @ + 1]
    /\ Move(c, [cc[c] EXCEPT !.pc = "index", !.index = headIndex[Prod(c)]])
    /\ UNCHANGED <<tailIndex, countVars, value, blockVars, freeList, delivered,
                   unusedByConsumer>>

(* get_block_index_index_for_index: the newest index, its tail, the base of *)
(* the tail's entry, and from them the entry of this slot.                  *)
LoadIndex(c) ==
    /\ On(c, "index")
    /\ Move(c, [cc[c] EXCEPT !.pc = "index_tail", !.header = Len(headers[Prod(c)])])
    /\ UNCHANGED sharedVars

LoadIndexTail(c) ==
    /\ On(c, "index_tail")
    /\ Move(c, [cc[c] EXCEPT !.pc = "base",
                   !.tail = headers[Prod(c)][cc[c].header].tail])
    /\ UNCHANGED sharedVars

Base(index) == index - (index % BLOCK_SIZE)
Offset(index, tailBase) == (Base(index) - tailBase) \div BLOCK_SIZE

FindEntry(c) ==
    /\ On(c, "base")
    /\ LET l == cc[c]
           h == headers[Prod(c)][l.header]
           tailBase == key[Prod(c)][h.index[l.tail]]
       IN Move(c, [l EXCEPT !.pc = "block", !.header = 0, !.tail = 0,
              !.entry = h.index[Wrap(l.tail + Offset(l.index, tailBase), h.capacity)]])
    /\ UNCHANGED sharedVars

LoadBlock(c) ==
    /\ On(c, "block")
    /\ Move(c, [cc[c] EXCEPT !.pc = "read", !.block = value[Prod(c)][cc[c].entry]])
    /\ UNCHANGED sharedVars

(* The request is moved out of its slot. *)
ReadElement(c) ==
    /\ On(c, "read")
    /\ LET l == cc[c] IN
       /\ Move(c, [l EXCEPT !.pc = "empty", !.el = elements[l.block][l.index % BLOCK_SIZE]])
       /\ elements' = [elements EXCEPT ![l.block][l.index % BLOCK_SIZE] = Nobody]
    /\ UNCHANGED <<tailIndex, headIndex, countVars, value, elementsCompletelyDequeued,
                   freeList, delivered, unusedByConsumer>>

(* The call returns true; the thread logs the request and polls again. *)
Deliver(c) ==
    /\ Move(c, IdleConsumer)
    /\ delivered' = delivered \cup {cc[c].el}

(* set_empty: the reader of the last slot of a block releases the block. *)
SetEmpty(c) ==
    /\ On(c, "empty")
    /\ LET b == cc[c].block IN
       /\ elementsCompletelyDequeued' = [elementsCompletelyDequeued EXCEPT ![b] = @ + 1]
       /\ IF elementsCompletelyDequeued[b] = BLOCK_SIZE - 1
          THEN Move(c, [cc[c] EXCEPT !.pc = "null"]) /\ UNCHANGED delivered
          ELSE Deliver(c)
    /\ UNCHANGED <<tailIndex, headIndex, countVars, value, elements, freeList,
                   unusedByConsumer>>

NullEntry(c) ==
    /\ On(c, "null")
    /\ value' = [value EXCEPT ![Prod(c)][cc[c].entry] = NoBlock]
    /\ Move(c, [cc[c] EXCEPT !.pc = "release"])
    /\ UNCHANGED <<tailIndex, headIndex, countVars, blockVars, freeList, delivered,
                   unusedByConsumer>>

\* Mutant: the block is not added to the free list.
ReleaseBlockLost(c) ==
    /\ On(c, "release")
    /\ Deliver(c)
    /\ UNCHANGED <<tailIndex, headIndex, countVars, value, blockVars, freeList,
                   unusedByConsumer>>

ReleaseBlock(c) ==
    /\ On(c, "release")
    /\ freeList' = freeList \cup {cc[c].block}
    /\ Deliver(c)
    /\ UNCHANGED <<tailIndex, headIndex, countVars, value, blockVars, unusedByConsumer>>

Consume(c) ==
    \/ ScanTail(c) \/ ScanHead(c) \/ LoadTail(c) \/ LoadOvercommit(c) \/ LoadCount(c)
    \/ ClaimCount(c) \/ Recheck(c) \/ Overcommit(c) \/ TakeIndex(c) \/ LoadIndex(c)
    \/ LoadIndexTail(c) \/ FindEntry(c) \/ LoadBlock(c) \/ ReadElement(c)
    \/ SetEmpty(c) \/ NullEntry(c) \/ ReleaseBlock(c)

Next ==
    \/ \E p \in ProducerSet : Produce(p)
    \/ \E c \in Consumers : Consume(c)

-----------------------------------------------------------------------------
(* The assertions of the header, which this debug build keeps: the head     *)
(* never passes the tail, the entry found for a slot is the one of its      *)
(* block and has a block, a block is emptied no more often than it has      *)
(* slots.                                                                   *)
AssertsHold ==
    /\ \A p \in ProducerSet :
          /\ headIndex[p] <= tailIndex[p]
          /\ dequeueOvercommit[p] <= dequeueOptimisticCount[p]
    /\ \A c \in Consumers : On(c, "base") =>
          LET h == headers[Prod(c)][cc[c].header]
          IN key[Prod(c)][h.index[cc[c].tail]] # INVALID_BLOCK_BASE
    /\ \A c \in Consumers : On(c, "block") =>
          /\ key[Prod(c)][cc[c].entry] = Base(cc[c].index)
          /\ value[Prod(c)][cc[c].entry] # NoBlock
    /\ \A b \in 1..MaxBlocks : elementsCompletelyDequeued[b] <= BLOCK_SIZE

(* Blocks with an owner: entries of the indexes and writers between getting *)
(* a block and storing it.                                                  *)
Used(p) == {value[p][e] : e \in DOMAIN value[p]} \ {NoBlock}
Held(p) == IF pp[p].pc \in {"reset", "value"} THEN {pp[p].block} ELSE {}
Released(c) == IF On(c, "release") THEN {cc[c].block} ELSE {}

(* A block serves one sub-queue at a time and is in one place: used by one  *)
(* producer, held by one writer, released by one reader or free; and none   *)
(* that was given out is ever lost.  A block in two places would mix the    *)
(* requests of two threads, a lost one would leak for each block of results.*)
OneUsePerBlock ==
    /\ \A p \in ProducerSet :
          /\ Used(p) \cap (Held(p) \cup freeList) = {}
          /\ \A e, f \in DOMAIN value[p] :
                e # f /\ value[p][e] # NoBlock => value[p][e] # value[p][f]
          /\ \A q \in ProducerSet \ {p} :
                (Used(p) \cup Held(p)) \cap (Used(q) \cup Held(q)) = {}
    /\ \A c \in Consumers : Released(c) \cap freeList = {}
    /\ LET given == 1..initialBlockPoolIndex \cup InitialPool + 1 .. blocks
       IN given \subseteq UNION ({Used(p) \cup Held(p) : p \in ProducerSet}
                                 \cup {Released(c) : c \in Consumers}
                                 \cup {freeList})

(* The queue is a FIFO stream per producer: a request is taken when the     *)
(* head moves past it, and what the reader finds in its slot is what the    *)
(* producer put there.                                                      *)
Claimed == {"index", "index_tail", "base", "block", "read"}
handOf(c) ==
    IF cc[c].pc \in Claimed THEN <<Prod(c), cc[c].index>> ELSE cc[c].el

Stream == INSTANCE CompletionStream WITH
    Producers <- ProducerSet, put <- tailIndex, taken <- headIndex,
    hand <- [c \in Consumers |-> handOf(c)]

(* Once the producers have stopped, every request put has been handed to a  *)
(* reply thread, for readers that keep polling: no interleaving of failed attempts leaves a request   *)
(* in the queue that try_dequeue no longer sees.                            *)
EveryRequestDelivered ==
    <>[](delivered = UNION {{<<p, i>> : i \in 0 .. tailIndex[p] - 1} : p \in ProducerSet})
=============================================================================
