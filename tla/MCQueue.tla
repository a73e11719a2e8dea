------------------------------ MODULE MCQueue ------------------------------
(***************************************************************************)
(* Model checking of the completion queue.  Its three parts are checked    *)
(* side by side: a behaviour picks one and leaves the other two alone, so  *)
(* that their state spaces add instead of multiplying.  The free list is   *)
(* extended, with constants of the configuration; the others are instances *)
(* over variables of this module.                                          *)
(***************************************************************************)
EXTENDS FreeList, TLC

CONSTANTS w1, w2, w3,         \* threads; w1 and w2 also produce in the queue
          r1, r2,             \* reply threads
          None

VARIABLES part,
    tables, implicitProducerHashCount, implicitProducerHashResizeInProgress,
    producerList, made, calls, failed, got, th,
    work, goal, tailIndex, headIndex, dequeueOptimisticCount, dequeueOvercommit,
    tailBlock, headers, key, value, elements, elementsCompletelyDequeued,
    initialBlockPoolIndex, freeList, blocks, failures, pp, cc, delivered

\* w1 and w2 collide; w1 calls again after the table has grown.
PH == INSTANCE ProducerHash WITH
    Threads <- {w1, w2, w3}, HashOf <- (w1 :> 0 @@ w2 :> 0 @@ w3 :> 1), NoThread <- None,
    NoProducer <- 0, INITIAL_IMPLICIT_PRODUCER_HASH_SIZE <- 4,
    MaxCalls <- (w1 :> 2 @@ w2 :> 1 @@ w3 :> 1), MaxFailures <- 1, failures <- failed

\* One sub-queue long enough for its index to grow; two that share the readers.
Workloads == {w1 :> 5 @@ w2 :> 0, w1 :> 1 @@ w2 :> 1}

CQ == INSTANCE CompletionQueue WITH
    Producers <- <<w1, w2>>, Consumers <- {r1, r2}, Goals <- Workloads, BLOCK_SIZE <- 2,
    IMPLICIT_INITIAL_INDEX_SIZE <- 2, InitialPool <- 1, MaxBlocks <- 4,
    MaxFailures <- 1, MaxFailedClaims <- 1, Nobody <- None

ASSUME ListConfigured == Configured

phVars == <<tables, implicitProducerHashCount, implicitProducerHashResizeInProgress,
            producerList, made, calls, failed, got, th>>
cqVars == <<work, goal, tailIndex, headIndex, dequeueOptimisticCount, dequeueOvercommit,
            tailBlock, headers, key, value, elements, elementsCompletelyDequeued,
            initialBlockPoolIndex, freeList, blocks, failures, pp, cc, delivered>>
mcVars == <<part, flVars, phVars, cqVars>>

MCInit ==
    /\ part \in {"list", "hash", "queue"}
    /\ Init /\ PH!Init /\ CQ!Init
    /\ part # "queue" => work[w1] = 5

ListStep == part = "list" /\ Next /\ UNCHANGED <<part, phVars, cqVars>>
HashStep(t) == part = "hash" /\ PH!ThreadStep(t) /\ UNCHANGED <<part, flVars, cqVars>>
Produce(t) == part = "queue" /\ CQ!Produce(t) /\ UNCHANGED <<part, flVars, phVars>>
Consume(r) == part = "queue" /\ CQ!Consume(r) /\ UNCHANGED <<part, flVars, phVars>>

\* The threads have made all their calls.
HashDone ==
    /\ part = "hash"
    /\ \A t \in {w1, w2, w3} : th[t].pc = "idle" /\ calls[t] = (IF t = w1 THEN 2 ELSE 1)
    /\ UNCHANGED mcVars

MCNext ==
    \/ ListStep
    \/ \E t \in {w1, w2, w3} : HashStep(t)
    \/ HashDone
    \/ \E t \in {w1, w2} : Produce(t)
    \/ \E r \in {r1, r2} : Consume(r)

(* Each thread keeps running: the producing threads have work, the reply    *)
(* threads poll for ever.                                                   *)
LiveSpec ==
    /\ MCInit /\ [][MCNext]_mcVars
    /\ \A t \in {w1, w2, w3} : WF_mcVars(HashStep(t))
    /\ \A t \in {w1, w2} : WF_mcVars(Produce(t))
    /\ \A r \in {r1, r2} : WF_mcVars(Consume(r))

-----------------------------------------------------------------------------
(* A thread keeps one sub-queue of its own that readers reach, and no hash  *)
(* table fills up (get_or_add_implicit_producer); a block serves one        *)
(* sub-queue at a time and is in one place, none leaks, and the assertions  *)
(* of enqueue, dequeue and set_empty hold (requisition_block,               *)
(* add_block_to_free_list).                                                 *)
QueueSound ==
    /\ part = "hash" => PH!OneProducerPerThread /\ PH!FreeSlotInEveryTable
    /\ part = "queue" => CQ!OneUsePerBlock /\ CQ!AssertsHold

(* enqueue and try_dequeue implement one FIFO stream per producing thread.  *)
IsStream == CQ!Stream!Spec

(* Every request put is handed to a reply thread in the end, and every call *)
(* for a sub-queue returns.                                                 *)
QueueDrains == CQ!EveryRequestDelivered /\ PH!CallsReturn
=============================================================================
