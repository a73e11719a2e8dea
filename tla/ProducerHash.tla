---------------------------- MODULE ProducerHash ----------------------------
(***************************************************************************)
(* How a thread that enqueues finds its sub-queue of the completion queue  *)
(* (get_or_add_implicit_producer, service/concurrentqueue.h): a chain of   *)
(* lock-free hash tables from thread ids to producers, each twice as large *)
(* as the one before, and a lock-free list of all producers for readers.   *)
(*                                                                         *)
(* Steps are atomic operations in program order.  Slots of a thread's own  *)
(* key are read by that thread only, so storing the key and its value is   *)
(* one step.  The build has no thread-exit notifications: keys are never   *)
(* removed and no producer is recycled.                                    *)
(***************************************************************************)
EXTENDS Integers, Sequences, FiniteSets

CONSTANTS
    Threads,
    HashOf,                                \* hash_thread_id: thread -> Nat
    NoThread,                              \* invalid_thread_id
    NoProducer,                            \* nullptr
    INITIAL_IMPLICIT_PRODUCER_HASH_SIZE,
    MaxCalls,                              \* bound: thread -> its calls
    MaxFailures                            \* bound: calls of malloc that fail

VARIABLES
    tables,          \* the hash tables, oldest first; the last is current
    implicitProducerHashCount,
    implicitProducerHashResizeInProgress,
    producerList,    \* the linked list from producerListTail, newest first
    made,            \* producers created so far
    calls, failures,
    got,             \* thread -> producers its calls have returned
    th               \* thread -> [pc, main, hash, index, count, prod, prev]

phVars == <<tables, implicitProducerHashCount, implicitProducerHashResizeInProgress,
            producerList, made, calls, failures, got, th>>

EmptyTable(n) == [capacity |-> n, keys |-> [i \in 0 .. n - 1 |-> NoThread],
                  values |-> [i \in 0 .. n - 1 |-> NoProducer]]

Idle == [pc |-> "idle", main |-> 0, hash |-> 0, index |-> 0, count |-> 0,
         prod |-> NoProducer, prev |-> NoProducer]

Init ==
    /\ tables = <<EmptyTable(INITIAL_IMPLICIT_PRODUCER_HASH_SIZE)>>
    /\ implicitProducerHashCount = 0
    /\ implicitProducerHashResizeInProgress = FALSE
    /\ producerList = << >>
    /\ made = 0
    /\ calls = [t \in Threads |-> 0]
    /\ failures = 0
    /\ got = [t \in Threads |-> {}]
    /\ th = [t \in Threads |-> Idle]

At(t, label) == th[t].pc = label
Go(t, locals) == th' = [th EXCEPT ![t] = locals]
ReturnProducer(t, p) == Go(t, Idle) /\ got' = [got EXCEPT ![t] = @ \cup {p}]

\* The slot a probe looks at: index & (capacity - 1)
Slot(k, index) == index % tables[k].capacity
Current == Len(tables)
Half(k) == tables[k].capacity \div 2
ThreeQuarters(k) == Half(k) + tables[k].capacity \div 4

-----------------------------------------------------------------------------
(* Look the thread up in the current table and all the older ones. *)
Call(t) ==
    /\ At(t, "idle")
    /\ calls[t] < MaxCalls[t]
    /\ calls' = [calls EXCEPT ![t] = @ + 1]
    /\ Go(t, [Idle EXCEPT !.pc = "probe", !.main = Current, !.hash = Current,
                          !.index = HashOf[t]])
    /\ UNCHANGED <<tables, implicitProducerHashCount, implicitProducerHashResizeInProgress,
                   producerList, made, failures, got>>

(* Found in an older table: copy it to the one that was current, lazily. *)
Found(t, p) ==
    IF th[t].hash = th[t].main
    THEN ReturnProducer(t, p)
    ELSE /\ Go(t, [th[t] EXCEPT !.pc = "insert", !.index = HashOf[t], !.prod = p])
         /\ UNCHANGED got

\* Mutant: the older tables are not searched.
NotHereCurrentOnly(t) ==
    Go(t, [th[t] EXCEPT !.pc = "count", !.hash = 0, !.index = 0])

NotHere(t) ==
    Go(t, IF th[t].hash > 1
          THEN [th[t] EXCEPT !.hash = @ - 1, !.index = HashOf[t]]
          ELSE [th[t] EXCEPT !.pc = "count", !.hash = 0, !.index = 0])

Probe(t) ==
    /\ At(t, "probe")
    /\ LET k == th[t].hash
           s == Slot(k, th[t].index)
           probed == tables[k].keys[s]
       IN \/ probed = t /\ Found(t, tables[k].values[s])
          \/ probed = NoThread /\ NotHere(t) /\ UNCHANGED got
          \/ probed \notin {t, NoThread} /\ Go(t, [th[t] EXCEPT !.index = s + 1])
                                         /\ UNCHANGED got
    /\ UNCHANGED <<tables, implicitProducerHashCount, implicitProducerHashResizeInProgress,
                   producerList, made, calls, failures>>

(* A new thread reserves its slot by counting itself first. *)
CountIn(t) ==
    /\ At(t, "count")
    /\ implicitProducerHashCount' = implicitProducerHashCount + 1
    /\ Go(t, [th[t] EXCEPT !.pc = "room", !.count = implicitProducerHashCount + 1])
    /\ UNCHANGED <<tables, implicitProducerHashResizeInProgress, producerList, made, calls,
                   failures, got>>

(* A table that is half full is to be replaced, by whoever gets the lock. *)
TryLock(t) ==
    /\ At(t, "room")
    /\ \/ /\ th[t].count >= Half(th[t].main)
          /\ ~implicitProducerHashResizeInProgress
          /\ implicitProducerHashResizeInProgress' = TRUE
          /\ Go(t, [th[t] EXCEPT !.pc = "resize"])
       \/ /\ th[t].count < Half(th[t].main) \/ implicitProducerHashResizeInProgress
          /\ Go(t, [th[t] EXCEPT !.pc = "add"])
          /\ UNCHANGED implicitProducerHashResizeInProgress
    /\ UNCHANGED <<tables, implicitProducerHashCount, producerList, made, calls, failures, got>>

\* Doubled until it is less than half full.
Doubled(count, n) ==
    LET fits == {k \in 0 .. count : count < (n * 2^k) \div 2}
    IN n * 2^(CHOOSE k \in fits : \A j \in fits : k <= j)

Resize(t) ==
    /\ At(t, "resize")
    /\ IF th[t].count >= Half(Current)
       THEN /\ tables' = Append(tables,
                   EmptyTable(Doubled(th[t].count, 2 * tables[Current].capacity)))
            /\ Go(t, [th[t] EXCEPT !.pc = "unlock", !.main = Current + 1])
       ELSE Go(t, [th[t] EXCEPT !.pc = "unlock", !.main = Current]) /\ UNCHANGED tables
    /\ UNCHANGED <<implicitProducerHashCount, implicitProducerHashResizeInProgress,
                   producerList, made, calls, failures, got>>

(* No memory for the table: the call counts itself out, unlocks and fails. *)
ResizeFails(t) ==
    /\ At(t, "resize")
    /\ failures < MaxFailures
    /\ th[t].count >= Half(Current)
    /\ failures' = failures + 1
    /\ implicitProducerHashCount' = implicitProducerHashCount - 1
    /\ Go(t, [Idle EXCEPT !.pc = "fail_unlock"])
    /\ UNCHANGED <<tables, implicitProducerHashResizeInProgress, producerList, made, calls, got>>

Unlock(t) ==
    /\ th[t].pc \in {"unlock", "fail_unlock"}
    /\ implicitProducerHashResizeInProgress' = FALSE
    /\ Go(t, IF At(t, "unlock") THEN [th[t] EXCEPT !.pc = "add"] ELSE Idle)
    /\ UNCHANGED <<tables, implicitProducerHashCount, producerList, made, calls, failures, got>>

(* A table less than three quarters full still takes the thread; otherwise  *)
(* it waits for the new one.                                                *)
AddOrWait(t) ==
    /\ At(t, "add")
    /\ \/ /\ th[t].count < ThreeQuarters(th[t].main)
          /\ made' = made + 1
          /\ Go(t, [th[t] EXCEPT !.pc = "list", !.prod = made + 1])
       \/ /\ th[t].count >= ThreeQuarters(th[t].main)
          /\ Go(t, [th[t] EXCEPT !.pc = "room", !.main = Current])
          /\ UNCHANGED made
    /\ UNCHANGED <<tables, implicitProducerHashCount, implicitProducerHashResizeInProgress,
                   producerList, calls, failures, got>>

CreateFails(t) ==
    /\ At(t, "add")
    /\ failures < MaxFailures
    /\ th[t].count < ThreeQuarters(th[t].main)
    /\ failures' = failures + 1
    /\ implicitProducerHashCount' = implicitProducerHashCount - 1
    /\ Go(t, Idle)
    /\ UNCHANGED <<tables, implicitProducerHashResizeInProgress, producerList, made, calls, got>>

(* add_producer: push on the list of producers by compare and exchange. *)
ListTail == IF producerList = << >> THEN NoProducer ELSE Head(producerList)

LoadListTail(t) ==
    /\ At(t, "list")
    /\ Go(t, [th[t] EXCEPT !.pc = "push", !.prev = ListTail])
    /\ UNCHANGED <<tables, implicitProducerHashCount, implicitProducerHashResizeInProgress,
                   producerList, made, calls, failures, got>>

PushProducer(t) ==
    /\ At(t, "push")
    /\ \/ /\ ListTail = th[t].prev
          /\ producerList' = <<th[t].prod>> \o producerList
          /\ Go(t, [th[t] EXCEPT !.pc = "insert", !.prev = NoProducer, !.index = HashOf[t]])
       \/ /\ ListTail # th[t].prev
          /\ Go(t, [th[t] EXCEPT !.prev = ListTail])
          /\ UNCHANGED producerList
    /\ UNCHANGED <<tables, implicitProducerHashCount, implicitProducerHashResizeInProgress,
                   made, calls, failures, got>>

(* Take the first free slot of the table (a failed exchange goes to the     *)
(* next one, as a slot seen taken does) and return.                         *)
InsertKey(t) ==
    /\ At(t, "insert")
    /\ LET k == th[t].main
           s == Slot(k, th[t].index)
       IN IF tables[k].keys[s] = NoThread
          THEN /\ tables' = [tables EXCEPT ![k].keys[s] = t, ![k].values[s] = th[t].prod]
               /\ ReturnProducer(t, th[t].prod)
          ELSE /\ Go(t, [th[t] EXCEPT !.index = s + 1])
               /\ UNCHANGED <<tables, got>>
    /\ UNCHANGED <<implicitProducerHashCount, implicitProducerHashResizeInProgress,
                   producerList, made, calls, failures>>

ThreadStep(t) ==
    \/ Call(t) \/ Probe(t) \/ CountIn(t) \/ TryLock(t) \/ Resize(t) \/ ResizeFails(t)
    \/ Unlock(t) \/ AddOrWait(t) \/ CreateFails(t) \/ LoadListTail(t) \/ PushProducer(t)
    \/ InsertKey(t)

Next == \E t \in Threads : ThreadStep(t)

-----------------------------------------------------------------------------
Listed == {producerList[i] : i \in DOMAIN producerList}

(* A thread has one sub-queue for life and shares it with no other thread,  *)
(* and readers can reach it: a second sub-queue would reorder its requests, *)
(* a shared one would be written by two threads that take no lock.          *)
OneProducerPerThread ==
    \A t \in Threads :
        /\ Cardinality(got[t]) <= 1
        /\ got[t] \subseteq Listed
        /\ \A u \in Threads \ {t} : got[t] \cap got[u] = {}

(* "At least one slot is free in the hash table": the probe loops end only  *)
(* because no table, old or new, ever fills up, whatever is inserted into   *)
(* it late or copied from older tables.                                     *)
FreeSlotInEveryTable ==
    \A k \in DOMAIN tables : \E i \in DOMAIN tables[k].keys : tables[k].keys[i] = NoThread

(* Every call comes back, for threads that keep running: nobody waits for   *)
(* ever for a table that another thread was to allocate.                    *)
CallsReturn == <>[](\A t \in Threads : th[t].pc = "idle")
=============================================================================
