---------------------------- MODULE LoadBalancer ----------------------------
(***************************************************************************)
(* The weighted round robin of the frontend (class LoadBalancer).          *)
(*                                                                         *)
(* Before a batching thread of a partition takes a request of a model from *)
(* the queue that all partitions share, it asks checkLoad whether it is    *)
(* the partition's turn.  Each pair of a model and a partition has a key;  *)
(* an admission costs the key 1/throughput of credit, and a key is         *)
(* admitted while it has spent no more than the key of its model that was  *)
(* admitted last.  The scheduler thread replaces the tables at the end of  *)
(* applyRouting_sync.  Every entry point holds _mtx from end to end.       *)
(*                                                                         *)
(* Credits are natural numbers: multiples of a common unit of the          *)
(* reciprocal throughputs.                                                 *)
(***************************************************************************)
EXTENDS Naturals

CONSTANTS
    Models,        \* the ids of the models
    Partitions,    \* the partitions: [gpu, part, dedup]
    Costs,         \* the values 1/throughput can have
    FreshMin,      \* 10.0, in units of credit
    MaxCredit,     \* bound on the credit a key spends
    MaxUpdates     \* bound on the calls of applyRouting_sync

\* The ranges that the comments of getKey give.
DocumentedPartition == [gpu : 0 .. 20, part : 0 .. 100, dedup : 0 .. 5]

ASSUME BalancerAssumption ==
    /\ Models \subseteq Nat
    /\ Partitions \subseteq DocumentedPartition
    /\ Costs \subseteq Nat
    /\ FreshMin \in Nat
    /\ MaxCredit \in Nat
    /\ MaxUpdates \in Nat

VARIABLES
    credit,     \* _keyToCreditMapping
    curr,       \* _keyToCurrCreditMapping
    minCredit,  \* _TaskIDToMinCreditMapping
    keysOf,     \* _TaskIDtoKeysMapping, of every model
    routed,     \* the routing: what each <<model, partition>> costs
    asking,     \* the pairs that were ever routed, and whose threads may ask
    updates,    \* the number of routings so far
    pending,    \* the routing is installed, the tables are not yet updated
    answer      \* the last answer of checkLoad

vars == <<credit, curr, minCredit, keysOf, routed, asking, updates,
          pending, answer>>

Pairs == Models \X Partitions

MODEL_ID_SHIFT == 10000000
PART_SHIFT == 1000
GPU_ID_SHIFT == 10

\* The hash key of a model and a partition.
getKey(m, p) == MODEL_ID_SHIFT * m + PART_SHIFT * p.part
                    + GPU_ID_SHIFT * p.gpu + p.dedup

Key(pair) == getKey(pair[1], pair[2])

Routings == UNION {[S -> Costs] : S \in SUBSET Pairs}

Init ==
    /\ credit = <<>> /\ curr = <<>> /\ minCredit = <<>>
    /\ keysOf = [m \in Models |-> {}]
    /\ routed = <<>>
    /\ asking = {}
    /\ updates = 0
    /\ pending = FALSE
    /\ answer = [known |-> TRUE, granted |-> TRUE]

-----------------------------------------------------------------------------
\* applyRouting_sync: the partitions get their models.  From here on their
\* threads ask, also those that still batch a model of an earlier routing.
applyRouting(r) ==
    /\ ~pending
    /\ updates < MaxUpdates
    /\ updates' = updates + 1
    /\ pending' = TRUE
    /\ routed' = r
    /\ asking' = asking \cup DOMAIN r
    /\ UNCHANGED <<credit, curr, minCredit, keysOf, answer>>

\* updateTable, at the end of applyRouting_sync: the tables are cleared and
\* renewTable is called for every pair of the routing.
updateTable ==
    LET keys == {Key(x) : x \in DOMAIN routed}
        models == {x[1] : x \in DOMAIN routed}
    IN  /\ pending
        /\ pending' = FALSE
        /\ credit' = [k \in keys |->
                         routed[CHOOSE x \in DOMAIN routed : Key(x) = k]]
        /\ curr' = [k \in keys |-> 0]
        /\ minCredit' = [m \in models |-> FreshMin]
        /\ keysOf' = [m \in Models |->
                         {Key(x) : x \in {y \in DOMAIN routed : y[1] = m}}]
        /\ UNCHANGED <<routed, asking, updates, answer>>

checkMinCredit(m, k) == curr[k] <= minCredit[m]

\* Mutant: the minimum is updated before the credit is spent.
admitStale(m, k) ==
    /\ curr' = [curr EXCEPT ![k] = @ + credit[k]]
    /\ minCredit' = [minCredit EXCEPT ![m] = curr[k]]

\* checkWRR: the key spends its credit and its model's minimum follows it.
admit(m, k) ==
    /\ curr' = [curr EXCEPT ![k] = @ + credit[k]]
    /\ minCredit' = [minCredit EXCEPT ![m] = curr[k] + credit[k]]

\* checkLoad and checkWRR.  The answer for a key that is not in the table is
\* EXIT_FAILURE, which as a bool is true.
checkLoad(m, p) ==
    LET k == getKey(m, p) IN
    /\ <<m, p>> \in asking
    /\ \/ /\ k \notin DOMAIN curr
          /\ answer' = [known |-> FALSE, granted |-> TRUE]
          /\ UNCHANGED <<curr, minCredit>>
       \/ /\ k \in DOMAIN curr
          /\ checkMinCredit(m, k)
          /\ curr[k] + credit[k] <= MaxCredit
          /\ admit(m, k)
          /\ answer' = [known |-> TRUE, granted |-> TRUE]
       \/ /\ k \in DOMAIN curr
          /\ ~checkMinCredit(m, k)
          /\ answer' = [known |-> TRUE, granted |-> FALSE]
          /\ UNCHANGED <<curr, minCredit>>
    /\ UNCHANGED <<credit, keysOf, routed, asking, updates, pending>>

Next ==
    \/ \E r \in Routings : applyRouting(r)
    \/ updateTable
    \/ \E m \in Models, p \in Partitions : checkLoad(m, p)

Spec == Init /\ [][Next]_vars

-----------------------------------------------------------------------------
Tables ==
    /\ keysOf \in [Models -> SUBSET DOMAIN curr]
    /\ curr \in [DOMAIN curr -> Nat]
    /\ credit \in [DOMAIN curr -> Nat]
    /\ minCredit \in [DOMAIN minCredit -> Nat]
    /\ \A m \in Models : keysOf[m] # {} => m \in DOMAIN minCredit

\* The four tables describe the same keys: every lookup of checkWRR finds its
\* entry, so operator[] never adds one.
BalancerTypeOK ==
    /\ Tables
    /\ routed \in Routings
    /\ asking \subseteq Pairs
    /\ updates \in 0 .. MaxUpdates
    /\ pending \in BOOLEAN
    /\ answer \in [known : BOOLEAN, granted : BOOLEAN]

\* checkLoad refuses a partition only in favour of another one that serves
\* the same model, has spent less credit and would itself be admitted: the
\* balancer never holds back all partitions of a model at once, and never the
\* one that is furthest behind.
RefusedOnlyForLagging ==
    \A m \in Models : \A k \in keysOf[m] :
        ~checkMinCredit(m, k)
            => \E j \in keysOf[m] : checkMinCredit(m, j) /\ curr[j] < curr[k]
=============================================================================
