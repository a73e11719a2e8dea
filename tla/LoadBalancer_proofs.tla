------------------------ MODULE LoadBalancer_proofs ------------------------
(***************************************************************************)
(* Proofs about LoadBalancer, for any models, partitions and throughputs.  *)
(*                                                                         *)
(* RefusedOnlyForLagging is not inductive: it follows from Leader, that    *)
(* the minimum of a model is the credit of one of its keys unless nothing  *)
(* was admitted since the last update.  Leader in turn needs the tables of *)
(* different models to be disjoint, which rests on getKey being injective  *)
(* on the ranges its comments give.                                        *)
(***************************************************************************)
EXTENDS LoadBalancer, TLAPS

\* Every key belongs to the model it was made for.
Owned ==
    /\ \A m \in Models : \A k \in keysOf[m] : \E p \in Partitions : k = getKey(m, p)
    /\ \A k \in DOMAIN curr : \E m \in Models : k \in keysOf[m]

\* The minimum of a model is the credit some key of it has spent, or an upper
\* bound of them all.
Leader ==
    \A m \in Models :
        keysOf[m] # {} => \/ \A k \in keysOf[m] : curr[k] <= minCredit[m]
                          \/ \E j \in keysOf[m] : curr[j] = minCredit[m]

IInv == BalancerTypeOK /\ Owned /\ Leader

-----------------------------------------------------------------------------
\* getKey gives different models, and different partitions, different keys
\* (hash key of _keyToCreditMapping): no two of them share a credit.
THEOREM KeysDistinct ==
    ASSUME NEW m \in Nat, NEW n \in Nat,
           NEW p \in DocumentedPartition, NEW q \in DocumentedPartition,
           getKey(m, p) = getKey(n, q)
    PROVE  m = n /\ p = q
<1>1. /\ p.gpu \in 0 .. 20 /\ p.part \in 0 .. 100 /\ p.dedup \in 0 .. 5
      /\ q.gpu \in 0 .. 20 /\ q.part \in 0 .. 100 /\ q.dedup \in 0 .. 5
  BY DEF DocumentedPartition
<1>2. PICK a \in 0 .. 100, c \in 0 .. 20, e \in 0 .. 5 :
          a = p.part /\ c = p.gpu /\ e = p.dedup
  BY <1>1
<1>3. PICK b \in 0 .. 100, d \in 0 .. 20, f \in 0 .. 5 :
          b = q.part /\ d = q.gpu /\ f = q.dedup
  BY <1>1
<1>4. MODEL_ID_SHIFT * m + PART_SHIFT * a + GPU_ID_SHIFT * c + e
          = MODEL_ID_SHIFT * n + PART_SHIFT * b + GPU_ID_SHIFT * d + f
  BY <1>2, <1>3 DEF getKey
<1>5. m = n /\ a = b /\ c = d /\ e = f
  BY <1>4, SMT DEF MODEL_ID_SHIFT, PART_SHIFT, GPU_ID_SHIFT
<1>6. p = [gpu |-> c, part |-> a, dedup |-> e]
  BY <1>2 DEF DocumentedPartition
<1>7. q = [gpu |-> d, part |-> b, dedup |-> f]
  BY <1>3 DEF DocumentedPartition
<1> QED
  BY <1>5, <1>6, <1>7

\* A key found in the table by checkWRR is a key of the model that asks, and
\* of no other model.
LEMMA AskersKey ==
    ASSUME IInv, NEW m \in Models, NEW p \in Partitions,
           getKey(m, p) \in DOMAIN curr
    PROVE  /\ getKey(m, p) \in keysOf[m]
           /\ \A n \in Models \ {m} : getKey(m, p) \notin keysOf[n]
<1>1. ASSUME NEW n \in Models, getKey(m, p) \in keysOf[n]
      PROVE  n = m
  <2>1. PICK q \in Partitions : getKey(m, p) = getKey(n, q)
    BY <1>1 DEF IInv, Owned
  <2> QED
    BY <2>1, KeysDistinct, BalancerAssumption
<1>2. PICK n \in Models : getKey(m, p) \in keysOf[n]
  BY DEF IInv, Owned
<1> QED
  BY <1>1, <1>2

\* The invariant holds at first: the tables are empty.
LEMMA InitIInv == Init => IInv
<1> SUFFICES ASSUME Init PROVE IInv
  OBVIOUS
<1>1. DOMAIN curr = {} /\ DOMAIN minCredit = {} /\ \A m \in Models : keysOf[m] = {}
  BY DEF Init
<1>2. Tables
  BY <1>1 DEF Tables, Init
<1>3. routed \in Routings
  <2>1. routed \in [{} -> Costs]
    BY DEF Init
  <2> QED
    BY <2>1 DEF Routings
<1>4. BalancerTypeOK
  <2>1. answer \in [known : BOOLEAN, granted : BOOLEAN]
    BY Zenon DEF Init
  <2>2. updates \in 0 .. MaxUpdates /\ asking \subseteq Pairs
    BY BalancerAssumption DEF Init
  <2>3. pending \in BOOLEAN
    BY DEF Init
  <2> QED
    BY <1>2, <1>3, <2>1, <2>2, <2>3 DEF BalancerTypeOK
<1>5. Owned /\ Leader
  BY <1>1 DEF Owned, Leader
<1> QED
  BY <1>4, <1>5 DEF IInv

\* applyRouting_sync does not touch the tables.
LEMMA applyRoutingStep ==
    ASSUME IInv, NEW r \in Routings, applyRouting(r)
    PROVE  IInv'
<1>1. UNCHANGED <<credit, curr, minCredit, keysOf, answer>>
  BY DEF applyRouting
<1>2. DOMAIN r \subseteq Pairs
  BY DEF Routings
<1>3. BalancerTypeOK'
  BY <1>1, <1>2, BalancerAssumption
     DEF IInv, BalancerTypeOK, Tables, applyRouting
<1>4. Owned' /\ Leader'
  BY <1>1 DEF IInv, Owned, Leader
<1> QED
  BY <1>3, <1>4 DEF IInv

\* updateTable makes the tables of every model anew.
LEMMA updateTableStep ==
    ASSUME IInv, updateTable
    PROVE  IInv'
<1> DEFINE keys == {Key(x) : x \in DOMAIN routed}
           models == {x[1] : x \in DOMAIN routed}
<1>1. /\ credit' = [k \in keys |->
                       routed[CHOOSE x \in DOMAIN routed : Key(x) = k]]
      /\ curr' = [k \in keys |-> 0]
      /\ minCredit' = [m \in models |-> FreshMin]
      /\ keysOf' = [m \in Models |->
                       {Key(x) : x \in {y \in DOMAIN routed : y[1] = m}}]
      /\ pending' = FALSE
      /\ UNCHANGED <<routed, asking, updates, answer>>
  BY DEF updateTable
<1>2. routed \in [DOMAIN routed -> Costs] /\ DOMAIN routed \subseteq Pairs
  BY DEF IInv, BalancerTypeOK, Routings
<1>3. credit' \in [keys -> Nat]
  <2> SUFFICES ASSUME NEW k \in keys
               PROVE  routed[CHOOSE x \in DOMAIN routed : Key(x) = k] \in Nat
    BY <1>1
  <2>1. (CHOOSE x \in DOMAIN routed : Key(x) = k) \in DOMAIN routed
    OBVIOUS
  <2> QED
    BY <1>2, <2>1, BalancerAssumption
<1>4. Tables'
  <2>1. DOMAIN curr' = keys /\ curr' \in [keys -> Nat]
    BY <1>1
  <2>2. keysOf' \in [Models -> SUBSET keys]
    BY <1>1
  <2>3. minCredit' \in [models -> Nat] /\ DOMAIN minCredit' = models
    BY <1>1, BalancerAssumption
  <2>4. \A m \in Models : keysOf'[m] # {} => m \in models
    BY <1>1
  <2> QED
    BY <1>3, <2>1, <2>2, <2>3, <2>4 DEF Tables
<1>5. BalancerTypeOK'
  BY <1>1, <1>4 DEF IInv, BalancerTypeOK
<1>6. Owned'
  <2>1. ASSUME NEW m \in Models, NEW k \in keysOf'[m]
        PROVE  \E p \in Partitions : k = getKey(m, p)
    <3>1. PICK x \in DOMAIN routed : x[1] = m /\ k = Key(x)
      BY <1>1, <2>1
    <3>2. x[2] \in Partitions /\ k = getKey(m, x[2])
      BY <1>2, <3>1 DEF Pairs, Key
    <3> QED
      BY <3>2
  <2>2. ASSUME NEW k \in DOMAIN curr'
        PROVE  \E m \in Models : k \in keysOf'[m]
    <3>1. PICK x \in DOMAIN routed : k = Key(x)
      BY <1>1, <2>2
    <3>2. x[1] \in Models /\ k \in keysOf'[x[1]]
      BY <1>1, <1>2, <3>1 DEF Pairs
    <3> QED
      BY <3>2
  <2> QED
    BY <2>1, <2>2 DEF Owned
<1>7. Leader'
  <2> SUFFICES ASSUME NEW m \in Models, NEW k \in keysOf'[m]
               PROVE  curr'[k] <= minCredit'[m]
    BY DEF Leader
  <2>1. k \in keys /\ m \in models
    BY <1>1
  <2>2. curr'[k] = 0 /\ minCredit'[m] = FreshMin
    BY <1>1, <2>1
  <2> QED
    BY <2>2, BalancerAssumption
<1> QED
  BY <1>5, <1>6, <1>7 DEF IInv

\* checkLoad changes the credit of one key and the minimum of its model.
LEMMA checkLoadStep ==
    ASSUME IInv, NEW m \in Models, NEW p \in Partitions, checkLoad(m, p)
    PROVE  IInv'
<1> DEFINE k == getKey(m, p)
<1>1. UNCHANGED <<credit, keysOf, routed, asking, updates, pending>>
  BY DEF checkLoad
<1>2. answer' \in [known : BOOLEAN, granted : BOOLEAN]
  <2>1. \A x, y \in BOOLEAN :
            [known |-> x, granted |-> y] \in [known : BOOLEAN, granted : BOOLEAN]
    OBVIOUS
  <2>2. \E x, y \in BOOLEAN : answer' = [known |-> x, granted |-> y]
    BY Zenon DEF checkLoad
  <2> QED
    BY <2>1, <2>2
<1>3. CASE UNCHANGED <<curr, minCredit>>
  <2>1. BalancerTypeOK'
    BY <1>1, <1>2, <1>3 DEF IInv, BalancerTypeOK, Tables
  <2>2. Owned' /\ Leader'
    BY <1>1, <1>3 DEF IInv, Owned, Leader
  <2> QED
    BY <2>1, <2>2 DEF IInv
<1>4. CASE k \in DOMAIN curr /\ admit(m, k)
  <2>1. k \in keysOf[m] /\ \A n \in Models \ {m} : k \notin keysOf[n]
    BY <1>4, AskersKey
  <2>2. m \in DOMAIN minCredit /\ curr[k] \in Nat /\ credit[k] \in Nat
    BY <1>4, <2>1 DEF IInv, BalancerTypeOK, Tables
  <2>3. /\ DOMAIN curr' = DOMAIN curr
        /\ curr'[k] = curr[k] + credit[k]
        /\ \A j \in DOMAIN curr \ {k} : curr'[j] = curr[j]
        /\ DOMAIN minCredit' = DOMAIN minCredit
        /\ minCredit'[m] = curr[k] + credit[k]
        /\ \A n \in DOMAIN minCredit \ {m} : minCredit'[n] = minCredit[n]
    BY <1>4, <2>2 DEF admit, IInv, BalancerTypeOK, Tables
  <2>4. Tables'
    <3>1. curr' \in [DOMAIN curr -> Nat]
      BY <1>4, <2>2 DEF admit, IInv, BalancerTypeOK, Tables
    <3>2. minCredit' \in [DOMAIN minCredit -> Nat]
      BY <1>4, <2>2 DEF admit, IInv, BalancerTypeOK, Tables
    <3> QED
      BY <1>1, <2>3, <3>1, <3>2 DEF IInv, BalancerTypeOK, Tables
  <2>5. BalancerTypeOK'
    BY <1>1, <1>2, <2>4 DEF IInv, BalancerTypeOK
  <2>6. Owned'
    BY <1>1, <2>3 DEF IInv, Owned
  <2>7. Leader'
    <3> SUFFICES ASSUME NEW n \in Models, keysOf[n] # {}
                 PROVE  \/ \A j \in keysOf[n] : curr'[j] <= minCredit'[n]
                        \/ \E j \in keysOf[n] : curr'[j] = minCredit'[n]
      BY <1>1 DEF Leader
    <3>1. CASE n = m
      BY <2>1, <2>3, <3>1
    <3>2. CASE n # m
      <4>1. keysOf[n] \subseteq DOMAIN curr \ {k} /\ n \in DOMAIN minCredit
        BY <2>1, <3>2 DEF IInv, BalancerTypeOK, Tables
      <4>2. minCredit'[n] = minCredit[n] /\ \A j \in keysOf[n] : curr'[j] = curr[j]
        BY <2>3, <3>2, <4>1
      <4> QED
        BY <4>2 DEF IInv, Leader
    <3> QED
      BY <3>1, <3>2
  <2> QED
    BY <2>5, <2>6, <2>7 DEF IInv
<1> QED
  BY <1>3, <1>4 DEF checkLoad

\* The tables of the load balancer agree and Leader holds in every reachable
\* state.
THEOREM Invariance == Spec => []IInv
<1>1. ASSUME IInv, [Next]_vars PROVE IInv'
  <2>1. CASE UNCHANGED vars
    BY <1>1, <2>1 DEF vars, IInv, BalancerTypeOK, Tables, Owned, Leader
  <2> QED
    BY <1>1, <2>1, applyRoutingStep, updateTableStep, checkLoadStep DEF Next
<1> QED
  BY InitIInv, <1>1, PTL DEF Spec

\* Every lookup of checkWRR finds an entry in each of the tables.
THEOREM TablesAgree == Spec => []BalancerTypeOK
<1>1. IInv => BalancerTypeOK
  BY DEF IInv
<1> QED
  BY <1>1, Invariance, PTL

\* checkLoad refuses a partition only while another partition of the model
\* is further behind and would be admitted.
THEOREM NobodyHeldBackForNothing == Spec => []RefusedOnlyForLagging
<1>1. IInv => RefusedOnlyForLagging
  <2> SUFFICES ASSUME IInv, NEW m \in Models, NEW k \in keysOf[m],
                      ~(curr[k] <= minCredit[m])
               PROVE  \E j \in keysOf[m] : curr[j] <= minCredit[m] /\ curr[j] < curr[k]
    BY DEF RefusedOnlyForLagging, checkMinCredit
  <2>1. PICK j \in keysOf[m] : curr[j] = minCredit[m]
    BY DEF IInv, Leader
  <2>2. curr[j] \in Nat /\ curr[k] \in Nat /\ minCredit[m] \in Nat
    BY <2>1 DEF IInv, BalancerTypeOK, Tables
  <2> QED
    BY <2>1, <2>2
<1> QED
  BY <1>1, Invariance, PTL

=============================================================================
