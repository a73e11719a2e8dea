------------------------ MODULE EpochScheduler_proofs ------------------------
(***************************************************************************)
(* Proofs about EpochScheduler, for any models, rates, counts and numbers  *)
(* of GPUs and any length of the histories: the newest schedule covers the *)
(* targets whatever became of the epochs before, and installing it takes   *)
(* no model with a target off the GPUs.                                    *)
(***************************************************************************)
EXTENDS EpochScheduler, FiniteSetTheorems, SequenceTheorems, TLAPS

\* A schedule that has GPUs gives every model its target or more.
Covers(state, tgt) ==
    state.gpus > 0 => \A m \in Models : state.plan[m] >= Whole(tgt[m])

(***************************************************************************)
(* The inductive invariant.  What holds between epochs is carried through  *)
(* an epoch by backup_tgt_rate: setupTasks changes the targets of the      *)
(* session, and drops those of models that stopped, before a schedule for  *)
(* them is known.                                                          *)
(***************************************************************************)
EpochInv ==
    /\ pc = "boot" => mCurrState = NoState
    /\ pc \in {"boot", "setup", "schedule"} => ~mNeedUpdate
    /\ mNeedUpdate => mNextState.gpus > 0
    /\ pc = "idle" => Covers(Newest, mPerTaskTgtRate)
    /\ pc = "setup" => Covers(mCurrState, mPerTaskTgtRate) /\ backup_tgt_rate = mPerTaskTgtRate
    /\ pc = "schedule" =>
         /\ Covers(mCurrState, backup_tgt_rate)
         /\ \A m \in Models \ session : mPerTaskTgtRate[m] \in {backup_tgt_rate[m], 0}

IInv == TypeOK /\ EpochInv

-----------------------------------------------------------------------------
(***************************************************************************)
(* Facts about numbers, sets and sequences.                                *)
(***************************************************************************)

\* Every set of naturals that is not empty has a least element.
LEMMA LeastNat ==
    ASSUME NEW T, T \subseteq Nat, T # {}
    PROVE  \E x \in T : \A y \in T : x <= y
<1> DEFINE R == OpToRel(<, Nat)
<1>1. IsWellFoundedOn(R, Nat)
  BY NatLessThanWellFounded
<1>2. \A x, y \in Nat : y < x => <<y, x>> \in R
  BY DEF OpToRel
<1> HIDE DEF R
<1>3. PICK x \in T : \A y \in T : ~ (<<y, x>> \in R)
  BY <1>1, WFMin
<1>4. \A y \in T : ~(y < x)
  BY <1>2, <1>3, Zenon
<1> QED
  BY <1>4

\* Induction up to N, with the set of the numbers that have the property.
LEMMA UpTo ==
    ASSUME NEW N \in Nat, NEW G, 0 \in G,
           \A n \in 1 .. N : n - 1 \in G => n \in G
    PROVE  N \in G
<1> DEFINE T == (0 .. N) \ G
<1> SUFFICES ASSUME N \notin G PROVE FALSE
  OBVIOUS
<1>0. T # {}
  OBVIOUS
<1>1. T \subseteq Nat
  OBVIOUS
<1>2. PICK n \in T : \A k \in T : n <= k
  BY <1>0, <1>1, LeastNat
<1>3. n \in 1 .. N
  BY <1>2
<1>4. n - 1 \notin T
  BY <1>2, <1>3
<1> QED
  BY <1>2, <1>3, <1>4

\* The Max of a set that has a largest element, and the Min of one that has a
\* smallest, is an element of it.
LEMMA MaxMin ==
    ASSUME NEW S
    PROVE  /\ (\E x \in S : \A y \in S : x >= y) => Max(S) \in S
           /\ (\E x \in S : \A y \in S : x <= y) => Min(S) \in S
  BY DEF Max, Min

\* The Max and the Min of two naturals.
LEMMA MaxMinPair ==
    ASSUME NEW a \in Nat, NEW b \in Nat
    PROVE  Max({a, b}) \in {a, b} /\ Min({a, b}) \in {a, b} /\ Min({a, b}) <= a
<1>1. a >= b \/ b >= a
  OBVIOUS
<1>2. \E x \in {a, b} : \A y \in {a, b} : x >= y
  BY <1>1
<1>3. \E x \in {a, b} : \A y \in {a, b} : x <= y
  BY <1>1
<1>4. Min({a, b}) <= a
  BY <1>3 DEF Min
<1> QED
  BY <1>2, <1>3, <1>4, MaxMin

\* A history that is not empty has a largest rate (MaxHist).
LEMMA MaxHistType ==
    ASSUME NEW hist \in Seq(Nat), hist # <<>>
    PROVE  MaxHist(hist) \in Nat
<1> DEFINE Largest(n, i) == \A j \in 1 .. n : hist[i] >= hist[j]
           G == {n \in Nat : n = 0 \/ \E i \in 1 .. n : Largest(n, i)}
<1>1. Len(hist) \in Nat /\ Len(hist) >= 1 /\ \A i \in 1 .. Len(hist) : hist[i] \in Nat
  BY EmptySeq
<1>2. ASSUME NEW n \in 1 .. Len(hist), n - 1 \in G
      PROVE  \E i \in 1 .. n : Largest(n, i)
  <2>1. CASE n = 1
    <3>1. Largest(1, 1)
      BY <1>1
    <3> QED
      BY <2>1, <3>1
  <2>2. CASE n # 1
    <3>1. PICK i \in 1 .. n - 1 : Largest(n - 1, i)
      BY <1>2, <2>2
    <3>2. \A j \in 1 .. n : j \in 1 .. n - 1 \/ j = n
      OBVIOUS
    <3>3. hist[n] \in Nat /\ hist[i] \in Nat /\ i \in 1 .. n /\ n \in 1 .. n
      BY <1>1
    <3>4. CASE hist[i] >= hist[n]
      <4>1. Largest(n, i)
        BY <3>1, <3>2, <3>4
      <4> QED
        BY <3>3, <4>1
    <3>5. CASE hist[n] >= hist[i]
      <4>1. \A j \in 1 .. n : hist[j] \in Nat
        BY <1>1
      <4>2. Largest(n, n)
        BY <3>1, <3>2, <3>3, <3>5, <4>1
      <4> QED
        BY <3>3, <4>2
    <3>6. hist[i] >= hist[n] \/ hist[n] >= hist[i]
      BY <3>3
    <3> QED
      BY <3>4, <3>5, <3>6, Zenon
  <2> QED
    BY <2>1, <2>2
<1>3. \A n \in 1 .. Len(hist) : n - 1 \in G => n \in G
  <2> SUFFICES ASSUME NEW n \in 1 .. Len(hist), n - 1 \in G PROVE n \in G
    OBVIOUS
  <2>1. n \in Nat
    BY <1>1
  <2> QED
    BY <1>2, <2>1
<1>4. Len(hist) \in G
  <2>1. 0 \in G
    OBVIOUS
  <2> HIDE DEF G
  <2> QED
    BY <1>1, <1>3, <2>1, UpTo, Zenon
<1>5. PICK i \in 1 .. Len(hist) : Largest(Len(hist), i)
  BY <1>1, <1>4
<1>6. Range(hist) = {hist[k] : k \in 1 .. Len(hist)}
  BY DEF Range
<1>7. \E x \in Range(hist) : \A y \in Range(hist) : x >= y
  BY <1>5, <1>6
<1>8. Max(Range(hist)) \in Range(hist)
  BY <1>7, MaxMin
<1> QED
  BY <1>1, <1>6, <1>8 DEF MaxHist

\* Without: the recursion of kept has a solution for every history, and every
\* solution is a history, no longer than the one it was made from.
LEMMA WithoutType ==
    ASSUME NEW hist \in Seq(Nat), NEW r
    PROVE  /\ Without(hist, r) \in Seq(Nat)
           /\ Len(Without(hist, r)) <= Len(hist)
<1> DEFINE N == Len(hist)
           Kept(f, n) == IF n = 0 THEN <<>>
                         ELSE IF hist[n] = r THEN f[n - 1]
                         ELSE Append(f[n - 1], hist[n])
           Solves(f, n) == f = [i \in 0 .. n |-> Kept(f, i)]
           G == {n \in Nat : \E f : Solves(f, n)}
<1>1. N \in Nat /\ \A i \in 1 .. N : hist[i] \in Nat
  OBVIOUS
<1>2. 0 \in G
  <2> DEFINE f0 == [i \in 0 .. 0 |-> <<>>]
  <2>1. Solves(f0, 0)
    OBVIOUS
  <2> QED
    BY <2>1
<1>3. ASSUME NEW n \in 1 .. N, n - 1 \in G PROVE n \in G
  <2>1. PICK f : Solves(f, n - 1)
    BY <1>3
  <2> DEFINE g == [i \in 0 .. n |-> IF i = n THEN Kept(f, n) ELSE f[i]]
  <2>2. \A i \in 0 .. n : g[i] = Kept(g, i)
    <3> SUFFICES ASSUME NEW i \in 0 .. n PROVE g[i] = Kept(g, i)
      OBVIOUS
    <3>1. i # 0 => g[i - 1] = f[i - 1]
      OBVIOUS
    <3>2. Kept(g, i) = Kept(f, i)
      BY <3>1
    <3>3. i # n => f[i] = Kept(f, i)
      <4>1. i # n => i \in 0 .. n - 1
        OBVIOUS
      <4> QED
        BY <2>1, <4>1
    <3> QED
      BY <3>2, <3>3
  <2>3. g = [i \in 0 .. n |-> g[i]]
    OBVIOUS
  <2> HIDE DEF g, Kept
  <2>4. [i \in 0 .. n |-> g[i]] = [i \in 0 .. n |-> Kept(g, i)]
    BY <2>2
  <2>5. Solves(g, n)
    BY <2>3, <2>4
  <2>6. \E h : Solves(h, n)
    BY <2>5
  <2> QED
    BY <1>1, <2>6
<1>4. N \in G
  <2> HIDE DEF G, N
  <2> QED
    BY <1>1, <1>2, <1>3, UpTo, Zenon
<1> DEFINE kept == CHOOSE f : Solves(f, N)
<1>5. Solves(kept, N)
  BY <1>4
<1>6. Without(hist, r) = kept[N]
  BY DEF Without
<1> HIDE DEF kept
<1>7. \A i \in 0 .. N : kept[i] = Kept(kept, i)
  BY <1>5
<1> DEFINE H == {n \in Nat : kept[n] \in Seq(Nat) /\ Len(kept[n]) <= n}
<1>8. 0 \in H
  <2>1. kept[0] = <<>>
    BY <1>1, <1>7
  <2>2. <<>> \in Seq(Nat) /\ Len(<<>>) <= 0
    OBVIOUS
  <2>3. kept[0] \in Seq(Nat) /\ Len(kept[0]) <= 0
    BY <2>1, <2>2, Zenon
  <2> QED
    BY <2>3
<1>9. ASSUME NEW n \in 1 .. N, n - 1 \in H PROVE n \in H
  <2>1. kept[n - 1] \in Seq(Nat) /\ Len(kept[n - 1]) <= n - 1
    BY <1>9
  <2>2. kept[n] = kept[n - 1] \/ kept[n] = Append(kept[n - 1], hist[n])
    <3>1. n \in 0 .. N /\ n # 0
      BY <1>1
    <3> QED
      BY <1>7, <3>1, Zenon
  <2>3. hist[n] \in Nat
    BY <1>1
  <2>4. kept[n] \in Seq(Nat) /\ Len(kept[n]) <= n
    <3>1. n \in Nat
      BY <1>1
    <3> HIDE DEF N
    <3>2. CASE kept[n] = kept[n - 1]
      BY <2>1, <3>1, <3>2
    <3>3. CASE kept[n] = Append(kept[n - 1], hist[n])
      BY <2>1, <2>3, <3>1, <3>3
    <3> QED
      BY <2>2, <3>2, <3>3
  <2> QED
    BY <1>1, <2>4
<1>10. N \in H
  <2> HIDE DEF H, N
  <2> QED
    BY <1>1, <1>8, <1>9, UpTo, Zenon
<1> QED
  BY <1>6, <1>10

\* Products of naturals, as in the average of EWMA::UpdateRate ...
LEMMA Products == \A a, b \in Nat : a * b \in Nat
  OBVIOUS

\* ... and quotients, as in its division by the interval.
LEMMA Quotients == \A a \in Nat : \A b \in Nat \ {0} : a \div b \in Nat
  OBVIOUS

\* A whole rate (Task::request_rate) is a natural, and not 0 for a model that
\* setupAllTasks finds a target for.
LEMMA WholeType ==
    /\ \A r \in Nat : Whole(r) \in Nat
    /\ Whole(0) = 0
    /\ \A r \in Nat : r >= Tenths => Whole(r) > 0
  BY DEF Whole, Tenths

-----------------------------------------------------------------------------
(***************************************************************************)
(* The types of what the steps compute.                                    *)
(***************************************************************************)

\* The moving average (EWMA::UpdateRate).
LEMMA UpdateRateType ==
    ASSUME NEW old \in Nat, NEW cnt \in Nat
    PROVE  UpdateRate(old, cnt) \in Nat
<1>1. AlphaN \in Nat \ {0}
  <2>1. BeaconInterval \div RateInterval \in Nat
    BY EpochAssumption, Quotients
  <2>2. AlphaN \in {BeaconInterval \div RateInterval, 1} /\ AlphaN >= 1
    <3> DEFINE q == BeaconInterval \div RateInterval
    <3> HIDE DEF q
    <3>1. q \in Nat
      BY <2>1 DEF q
    <3>2. \E x \in {q, 1} : \A y \in {q, 1} : x >= y
      BY <3>1
    <3>3. Max({q, 1}) \in {q, 1} /\ \A y \in {q, 1} : Max({q, 1}) >= y
      BY <3>2 DEF Max
    <3> QED
      BY <3>3 DEF AlphaN, q
  <2> QED
    BY <2>1, <2>2
<1>2. (cnt * 1000 * Tenths) \div RateInterval \in Nat
  <2>1. cnt * 1000 * Tenths \in Nat
    BY DEF Tenths
  <2> QED
    BY <2>1, EpochAssumption, Quotients
<1>3. AlphaN - 1 \in Nat /\ AlphaN + 1 \in Nat \ {0}
  BY <1>1
<1>4. (AlphaN - 1) * old \in Nat
  BY <1>3, Products
<1> DEFINE x == (cnt * 1000 * Tenths) \div RateInterval
           y == (AlphaN - 1) * old
<1> HIDE DEF x, y
<1>5. x \in Nat /\ y \in Nat
  BY <1>2, <1>4 DEF x, y
<1>6. 2 * x + y \in Nat
  BY <1>5
<1>7. (2 * x + y) \div (AlphaN + 1) \in Nat
  BY <1>3, <1>6, Quotients
<1> QED
  BY <1>7 DEF UpdateRate, x, y

\* The histories (updateHist), and the targets made from them.
LEMMA HistType ==
    ASSUME TypeOK, NEW m \in Models
    PROVE  /\ updateHist(m) \in Seq(Nat) /\ Len(updateHist(m)) <= HistLen
           /\ updateHist(m) # <<>>
<1> DEFINE h == mPerTaskRateHist[m]
           k == Min({HistLen, Len(h) + 1})
           s == <<rate[m]>> \o h
<1>1. h \in Seq(Nat) /\ Len(h) \in Nat /\ rate[m] \in Nat /\ HistLen \in Nat \ {0}
  BY EpochAssumption DEF TypeOK
<1>2. k \in {HistLen, Len(h) + 1} /\ k <= HistLen
  <2>1. HistLen \in Nat /\ Len(h) + 1 \in Nat
    BY <1>1
  <2> QED
    BY <2>1, MaxMinPair, Zenon
<1>3. s \in Seq(Nat) /\ Len(s) = Len(h) + 1
  BY <1>1
<1>4. k \in 1 .. Len(s)
  <2>1. k <= Len(h) + 1
    <3> DEFINE b == Len(h) + 1
    <3>1. b \in Nat
      BY <1>1
    <3> HIDE DEF b
    <3>2. \E x \in {HistLen, b} : \A y \in {HistLen, b} : x <= y
      BY <1>1, <3>1
    <3>3. Min({HistLen, b}) <= b
      BY <3>2 DEF Min
    <3> QED
      BY <3>3 DEF b
  <2> QED
    BY <1>1, <1>2, <1>3, <2>1
<1>5. updateHist(m) = SubSeq(s, 1, k)
  BY DEF updateHist
<1> HIDE DEF h, k, s
<1>6. SubSeq(s, 1, k) \in Seq(Nat) /\ Len(SubSeq(s, 1, k)) = k
  BY <1>3, <1>4
<1>7. SubSeq(s, 1, k) # <<>>
  <2>1. Len(SubSeq(s, 1, k)) # Len(<<>>)
    BY <1>4, <1>6
  <2> QED
    BY <2>1
<1> QED
  BY <1>2, <1>5, <1>6, <1>7, Zenon

\* A target (setupTasks) is a natural; it changes only for the models of the
\* session, and for those that stopped.
LEMMA NewTargetType ==
    ASSUME TypeOK, NEW m \in Models
    PROVE  /\ NewTarget(m) \in Nat
           /\ ~(Rises(m) \/ Falls(m)) => NewTarget(m) \in {mPerTaskTgtRate[m], 0}
<1>1. MaxHist(updateHist(m)) \in Nat
  BY HistType, MaxHistType
<1> DEFINE x == MaxHist(updateHist(m))
<1> HIDE DEF x
<1>2. WithRoom(x) \in Nat
  BY <1>1 DEF WithRoom, Tenths, x
<1>3. Goal(m) \in Nat
  BY <1>2 DEF Goal, x
<1>4. mPerTaskTgtRate[m] \in Nat
  BY DEF TypeOK
<1> QED
  BY <1>3, <1>4 DEF NewTarget

\* A plan made of whole rates.
LEMMA PlanTypes ==
    ASSUME TypeOK
    PROVE  /\ AllTasks(mPerTaskTgtRate) \in [Models -> Nat]
           /\ Incremental \in [Models -> Nat]
           /\ configured \in 1 .. NGPUs /\ configured \in 0 .. NGPUs
           /\ State(Incremental, getMaxGPUs) \in Schedules
           /\ FullRepartition \in Schedules
           /\ NoState \in Schedules
<1>1. AllTasks(mPerTaskTgtRate) \in [Models -> Nat]
  BY WholeType DEF TypeOK, AllTasks
<1>2. Incremental \in [Models -> Nat]
  BY WholeType DEF TypeOK, Incremental, Schedules
<1>3. configured \in 1 .. NGPUs /\ configured \in 0 .. NGPUs
  BY EpochAssumption DEF TypeOK
<1>4. NoState \in Schedules
  BY EpochAssumption DEF NoState, Schedules
<1> QED
  BY <1>1, <1>2, <1>3, <1>4 DEF State, getMaxGPUs, FullRepartition, Schedules

-----------------------------------------------------------------------------
(***************************************************************************)
(* The steps.                                                              *)
(***************************************************************************)

\* The invariant holds when the server starts.
LEMMA InitIInv == Init => IInv
<1> SUFFICES ASSUME Init PROVE IInv
  OBVIOUS
<1>1. NoState \in Schedules
  BY EpochAssumption DEF NoState, Schedules
<1>2. TypeOK
  <2>1. /\ rate \in [Models -> Nat] /\ mPerTaskTgtRate \in [Models -> Nat]
        /\ backup_tgt_rate \in [Models -> Nat] /\ configured \in ConfigGPUs
        /\ numMaxGPU \in 0 .. NGPUs
    BY EpochAssumption DEF Init
  <2>2. \A m \in Models : /\ mPerTaskRateHist[m] \in Seq(Nat)
                          /\ Len(mPerTaskRateHist[m]) <= HistLen
    BY EpochAssumption DEF Init
  <2> QED
    BY <1>1, <2>1, <2>2 DEF Init, TypeOK
<1>3. EpochInv
  BY DEF Init, EpochInv
<1> QED
  BY <1>2, <1>3 DEF IInv

\* initMonitor changes a rate.
LEMMA MonitorStep ==
    ASSUME IInv, NEW m \in Models, Monitor(m)
    PROVE  IInv'
<1>1. PICK cnt \in Counts : rate' = [rate EXCEPT ![m] = UpdateRate(rate[m], cnt)]
  BY DEF Monitor
<1>2. rate' \in [Models -> Nat]
  <2>1. rate \in [Models -> Nat] /\ cnt \in Nat
    BY EpochAssumption DEF IInv, TypeOK
  <2>2. UpdateRate(rate[m], cnt) \in Nat
    BY <2>1, UpdateRateType
  <2> QED
    BY <1>1, <2>1, <2>2
<1>3. UNCHANGED <<pc, mPerTaskTgtRate, backup_tgt_rate, mPerTaskRateHist, sysFlush, session,
                  mPrevState, mCurrState, mNextState, mNeedUpdate, configured, numMaxGPU>>
  BY DEF Monitor, targets, states
<1>4. TypeOK'
  BY <1>2, <1>3 DEF IInv, TypeOK
<1>5. EpochInv'
  BY <1>3 DEF IInv, EpochInv, Covers, Newest, Whole, NoState
<1> QED
  BY <1>4, <1>5 DEF IInv

\* oneshotScheduling: the first schedule is made for the first targets.
LEMMA oneshotSchedulingStep ==
    ASSUME IInv, oneshotScheduling
    PROVE  IInv'
<1> USE DEF IInv
<1> DEFINE tried == IF Enough = {} THEN NGPUs ELSE Min(Enough)
           gpus == Min({tried, configured})
<1>1. /\ pc = "boot" /\ pc' = "idle" /\ numMaxGPU' = tried
      /\ Enough = {} => mPrevState' = State(NoState.plan, gpus) /\ UNCHANGED mCurrState
      /\ Enough # {} => /\ mPrevState' = State(AllTasks(mPerTaskTgtRate), gpus)
                        /\ mCurrState' = mPrevState'
      /\ UNCHANGED <<rate, mPerTaskTgtRate, backup_tgt_rate, mPerTaskRateHist, sysFlush,
                     session, mNextState, mNeedUpdate, configured>>
  BY DEF oneshotScheduling, targets
<1>2. tried \in 0 .. NGPUs
  <2>1. CASE Enough = {}
    BY <2>1, EpochAssumption
  <2>2. CASE Enough # {}
    <3>1. Enough \subseteq 1 .. NGPUs /\ Enough \subseteq Nat
      BY DEF Enough
    <3>2. \E x \in Enough : \A y \in Enough : x <= y
      BY <2>2, <3>1, LeastNat
    <3>3. Min(Enough) \in Enough
      BY <3>2, MaxMin
    <3> QED
      <4>1. Min(Enough) \in 1 .. NGPUs
        BY <3>1, <3>3
      <4>2. tried = Min(Enough)
        BY <2>2
      <4> HIDE DEF tried
      <4> QED
        BY <4>1, <4>2, EpochAssumption
  <2> QED
    BY <2>1, <2>2
<1>3. gpus \in 0 .. NGPUs
  <2>1. configured \in 0 .. NGPUs /\ configured \in Nat /\ tried \in Nat
    BY <1>2, PlanTypes, EpochAssumption
  <2> HIDE DEF tried
  <2>2. gpus \in {tried, configured}
    BY <2>1, MaxMinPair
  <2> QED
    BY <1>2, <2>1, <2>2
<1> HIDE DEF tried, gpus
<1>4. {mPrevState', mCurrState'} \subseteq Schedules
  <2>1. State(NoState.plan, gpus) \in Schedules
    BY <1>3 DEF State, NoState, Schedules
  <2>2. State(AllTasks(mPerTaskTgtRate), gpus) \in Schedules
    BY <1>3, PlanTypes DEF State, Schedules
  <2>3. mCurrState \in Schedules
    BY DEF TypeOK
  <2> QED
    BY <1>1, <2>1, <2>2, <2>3
<1>5. TypeOK'
  <2>1. pc' = "idle" /\ numMaxGPU' \in 0 .. NGPUs
    BY <1>1, <1>2
  <2>2. {mPrevState', mCurrState', mNextState'} \subseteq Schedules
    BY <1>1, <1>4 DEF TypeOK
  <2>3. UNCHANGED <<rate, mPerTaskTgtRate, backup_tgt_rate, mPerTaskRateHist, sysFlush,
                    session, mNeedUpdate, configured>>
    BY <1>1
  <2> QED
    BY <2>1, <2>2, <2>3 DEF TypeOK
<1>6. ~mNeedUpdate' /\ Newest' = mCurrState'
  BY <1>1 DEF EpochInv, Newest
<1>7. Covers(mCurrState, mPerTaskTgtRate)'
  <2>1. CASE Enough = {}
    BY <1>1, <2>1 DEF EpochInv, NoState, Covers
  <2>2. CASE Enough # {}
    <3>1. mCurrState'.plan = AllTasks(mPerTaskTgtRate)
      BY <1>1, <2>2 DEF State
    <3>2. \A m \in Models : mCurrState'.plan[m] = Whole(mPerTaskTgtRate[m])
      BY <3>1 DEF AllTasks
    <3>3. \A m \in Models : Whole(mPerTaskTgtRate[m]) \in Nat
      BY WholeType DEF TypeOK
    <3>4. \A m \in Models : mCurrState'.plan[m] >= Whole(mPerTaskTgtRate'[m])
      BY <1>1, <3>2, <3>3
    <3> QED
      BY <3>4 DEF Covers, Whole
  <2> QED
    BY <2>1, <2>2
<1>8. EpochInv'
  BY <1>1, <1>6, <1>7 DEF EpochInv, Covers
<1> QED
  BY <1>5, <1>8

\* OracleScheduler installs the schedule of the last epoch, and begins one.
LEMMA EpochBeginStep ==
    ASSUME IInv, EpochBegin
    PROVE  IInv'
<1> USE DEF IInv
<1>1. /\ pc = "idle" /\ pc' = "setup" /\ backup_tgt_rate' = mPerTaskTgtRate
      /\ mCurrState' = Newest /\ mPrevState' \in {mPrevState, mCurrState} /\ mNeedUpdate' = FALSE
      /\ UNCHANGED <<rate, mPerTaskTgtRate, mPerTaskRateHist, sysFlush, session,
                     mNextState, configured, numMaxGPU>>
  BY DEF EpochBegin, Newest
<1>2. {mPrevState', mCurrState', mNextState'} \subseteq Schedules
  BY <1>1 DEF TypeOK, Newest
<1>3. backup_tgt_rate' \in [Models -> Nat] /\ mNeedUpdate' \in BOOLEAN
  BY <1>1 DEF TypeOK
<1>4. TypeOK'
  BY <1>1, <1>2, <1>3 DEF TypeOK
<1>5. Covers(mCurrState, mPerTaskTgtRate)'
  BY <1>1 DEF EpochInv, Covers, Whole
<1>6. EpochInv'
  BY <1>1, <1>5 DEF EpochInv
<1> QED
  BY <1>4, <1>6

\* setupTasks: the models it does not put into the session keep their target,
\* or have none any more.
LEMMA setupTasksStep ==
    ASSUME IInv, setupTasks
    PROVE  IInv'
<1> USE DEF IInv
<1>1. /\ pc = "setup" /\ mPerTaskTgtRate' = [m \in Models |-> NewTarget(m)]
      /\ mPerTaskRateHist' = [m \in Models |-> updateHist(m)]
      /\ sysFlush' \in BOOLEAN /\ session' = {m \in Models : Rises(m) \/ Falls(m)}
      /\ pc' = IF session' = {} THEN "idle" ELSE "schedule"
      /\ UNCHANGED <<rate, backup_tgt_rate, mPrevState, mCurrState, mNextState, mNeedUpdate,
                     configured, numMaxGPU>>
  BY DEF setupTasks, states
<1>2. /\ mPerTaskTgtRate' \in [Models -> Nat]
      /\ \A m \in Models \ session' : mPerTaskTgtRate'[m] \in {mPerTaskTgtRate[m], 0}
  BY <1>1, NewTargetType
<1>3. \A m \in Models : /\ mPerTaskRateHist'[m] \in Seq(Nat)
                        /\ Len(mPerTaskRateHist'[m]) <= HistLen
  BY <1>1, HistType
<1>4. session' \subseteq Models /\ pc' \in {"idle", "schedule"}
  BY <1>1
<1>5. TypeOK'
  BY <1>1, <1>2, <1>3, <1>4 DEF TypeOK
<1>6. ~mNeedUpdate' /\ Newest' = mCurrState' /\ mCurrState' = mCurrState
  BY <1>1 DEF EpochInv, Newest
<1>7. CASE session' = {}
  <2>1. Covers(mCurrState, mPerTaskTgtRate)'
    <3> SUFFICES ASSUME mCurrState.gpus > 0, NEW m \in Models
                 PROVE  mCurrState.plan[m] >= Whole(mPerTaskTgtRate'[m])
      BY <1>6 DEF Covers, Whole
    <3>1. mPerTaskTgtRate'[m] \in {mPerTaskTgtRate[m], 0}
      BY <1>2, <1>7
    <3>2. mCurrState.plan[m] >= Whole(mPerTaskTgtRate[m]) /\ mCurrState.plan[m] \in Nat
      BY <1>1 DEF EpochInv, Covers, TypeOK, Schedules
    <3>3. mCurrState.plan[m] >= Whole(0)
      BY <3>2, WholeType
    <3> QED
      BY <3>1, <3>2, <3>3
  <2> QED
    BY <1>1, <1>5, <1>6, <1>7, <2>1 DEF EpochInv, Covers
<1>8. CASE session' # {}
  <2>1. Covers(mCurrState, backup_tgt_rate)'
    BY <1>1 DEF EpochInv, Covers, Whole
  <2>2. \A m \in Models \ session' : mPerTaskTgtRate'[m] \in {backup_tgt_rate'[m], 0}
    BY <1>1, <1>2 DEF EpochInv
  <2> QED
    BY <1>1, <1>5, <1>6, <1>8, <2>1, <2>2 DEF EpochInv
<1> QED
  BY <1>7, <1>8

\* A schedule that is found, incrementally or from nothing, is one for the
\* targets.
LEMMA FoundCovers ==
    ASSUME IInv, pc = "schedule", NEW output, Found(output)
    PROVE  /\ output \in Schedules /\ output.gpus > 0
           /\ \A m \in Models : output.plan[m] >= Whole(mPerTaskTgtRate[m])
<1> USE DEF IInv
<1>1. \A m \in Models : Whole(mPerTaskTgtRate[m]) \in Nat
  BY WholeType DEF TypeOK
<1>2. configured \in 1 .. NGPUs /\ configured > 0
  BY PlanTypes, EpochAssumption
<1>3. CASE output = FullRepartition
  <2>1. output.plan = AllTasks(mPerTaskTgtRate) /\ output.gpus = configured
    BY <1>3 DEF FullRepartition, State, getMaxGPUs
  <2>2. \A m \in Models : output.plan[m] = Whole(mPerTaskTgtRate[m])
    BY <2>1 DEF AllTasks
  <2> QED
    BY <1>1, <1>2, <1>3, <2>1, <2>2, PlanTypes
<1>4. CASE ~FromNothing /\ output = State(Incremental, getMaxGPUs)
  <2>1. output.plan = Incremental /\ output.gpus = configured /\ mCurrState.gpus > 0
    BY <1>2, <1>4 DEF State, getMaxGPUs, FromNothing
  <2>2. ASSUME NEW m \in Models PROVE output.plan[m] >= Whole(mPerTaskTgtRate[m])
    <3>1. CASE m \in session
      <4>1. output.plan[m] = Whole(mPerTaskTgtRate[m])
        BY <2>1, <3>1 DEF Incremental
      <4> QED
        BY <1>1, <4>1
    <3>2. CASE m \notin session
      <4>1. output.plan[m] = mCurrState.plan[m] /\ mCurrState.plan[m] \in Nat
        BY <2>1, <3>2 DEF Incremental, TypeOK, Schedules
      <4>2. mCurrState.plan[m] >= Whole(backup_tgt_rate[m])
        BY <2>1 DEF EpochInv, Covers
      <4>3. mPerTaskTgtRate[m] \in {backup_tgt_rate[m], 0}
        BY <3>2 DEF EpochInv
      <4> QED
        BY <4>1, <4>2, <4>3, WholeType
    <3> QED
      BY <3>1, <3>2
  <2> QED
    BY <1>2, <1>4, <2>1, <2>2, PlanTypes
<1> QED
  BY <1>3, <1>4 DEF Found

\* A schedule was found.
LEMMA AdoptStep ==
    ASSUME IInv, Adopt
    PROVE  IInv'
<1> USE DEF IInv
<1>1. PICK output : /\ Found(output) /\ mNextState' = output
                    /\ \E used \in UsedGPUs(output) :
                         numMaxGPU' = IF getMaxGPUs > used THEN used ELSE numMaxGPU
  BY DEF Adopt
<1>2. /\ pc = "schedule" /\ pc' = "idle" /\ mNeedUpdate' = TRUE /\ sysFlush' = FALSE
      /\ UNCHANGED <<rate, mPerTaskTgtRate, backup_tgt_rate, mPerTaskRateHist, session,
                     mPrevState, mCurrState, configured>>
  BY DEF Adopt, targets
<1>3. /\ output \in Schedules /\ output.gpus > 0
      /\ \A m \in Models : output.plan[m] >= Whole(mPerTaskTgtRate[m])
  BY <1>1, <1>2, FoundCovers
<1>4. numMaxGPU' \in 0 .. NGPUs
  <2>1. PICK used \in UsedGPUs(output) :
          numMaxGPU' = IF getMaxGPUs > used THEN used ELSE numMaxGPU
    BY <1>1
  <2>2. used \in 0 .. output.gpus /\ output.gpus \in 0 .. NGPUs
    BY <1>3 DEF UsedGPUs, Schedules
  <2>3. used \in 0 .. NGPUs /\ numMaxGPU \in 0 .. NGPUs
    BY <2>2, EpochAssumption DEF TypeOK
  <2> QED
    BY <2>1, <2>3
<1>5. TypeOK'
  <2>1. {mPrevState', mCurrState', mNextState'} \subseteq Schedules
    BY <1>1, <1>2, <1>3 DEF TypeOK
  <2> QED
    BY <1>2, <1>4, <2>1 DEF TypeOK
<1>6. Newest' = output
  BY <1>1, <1>2 DEF Newest
<1>7. Covers(Newest, mPerTaskTgtRate)'
  BY <1>2, <1>3, <1>6 DEF Covers, Whole
<1>8. EpochInv'
  BY <1>1, <1>2, <1>3, <1>7 DEF EpochInv
<1> QED
  BY <1>5, <1>8

\* One more GPU is asked for.
LEMMA ScaleUpStep ==
    ASSUME IInv, ScaleUp
    PROVE  IInv'
<1> USE DEF IInv
<1>1. /\ configured < NGPUs /\ sysFlush' = TRUE /\ numMaxGPU' = configured + 1
      /\ UNCHANGED <<pc, rate, mPerTaskTgtRate, backup_tgt_rate, mPerTaskRateHist, session,
                     mPrevState, mCurrState, mNextState, mNeedUpdate, configured>>
  BY DEF ScaleUp, getMaxGPUs, targets, states
<1>2. numMaxGPU' \in 0 .. NGPUs
  BY <1>1, PlanTypes, EpochAssumption
<1>3. TypeOK'
  BY <1>1, <1>2 DEF TypeOK
<1>4. EpochInv'
  BY <1>1 DEF EpochInv, Covers, Newest, Whole, NoState
<1> QED
  BY <1>3, <1>4

\* recoverFromScheduleFailure: the targets the schedule was made for are back.
LEMMA RecoverStep ==
    ASSUME IInv, Recover
    PROVE  IInv'
<1> USE DEF IInv
<1>1. /\ pc = "schedule" /\ pc' = "idle" /\ mPerTaskTgtRate' = backup_tgt_rate
      /\ mPerTaskRateHist' = removeMaxRates /\ sysFlush' = FALSE
      /\ UNCHANGED <<rate, backup_tgt_rate, session, mPrevState, mCurrState, mNextState,
                     mNeedUpdate, configured, numMaxGPU>>
  BY DEF Recover, NotFound, states
<1>2. \A m \in Models : /\ mPerTaskRateHist'[m] \in Seq(Nat)
                        /\ Len(mPerTaskRateHist'[m]) <= HistLen
  <2> SUFFICES ASSUME NEW m \in Models
               PROVE  /\ removeMaxRates[m] \in Seq(Nat) /\ Len(removeMaxRates[m]) <= HistLen
    BY <1>1
  <2> DEFINE h == mPerTaskRateHist[m]
  <2>1. h \in Seq(Nat) /\ Len(h) <= HistLen /\ HistLen \in Nat
    BY EpochAssumption DEF TypeOK
  <2>2. removeMaxRates[m] \in {h, Without(h, MaxHist(h))}
    BY DEF removeMaxRates
  <2> HIDE DEF h
  <2> DEFINE w == Without(h, MaxHist(h))
  <2>3. w \in Seq(Nat) /\ Len(w) <= Len(h)
    BY <2>1, WithoutType
  <2> HIDE DEF w
  <2>4. Len(w) <= HistLen
    BY <2>1, <2>3
  <2> QED
    BY <2>1, <2>2, <2>3, <2>4 DEF w
<1>3. TypeOK'
  BY <1>1, <1>2 DEF TypeOK
<1>4. Newest' = mCurrState
  BY <1>1 DEF EpochInv, Newest
<1>5. Covers(Newest, mPerTaskTgtRate)'
  BY <1>1, <1>4 DEF EpochInv, Covers, Whole
<1>6. EpochInv'
  BY <1>1, <1>5 DEF EpochInv
<1> QED
  BY <1>3, <1>6

-----------------------------------------------------------------------------
(***************************************************************************)
(* The theorems.                                                           *)
(***************************************************************************)

\* Every step keeps the invariant.
LEMMA NextIInv ==
    ASSUME IInv, [Next]_vars
    PROVE  IInv'
<1>1. ASSUME NEW m \in Models, Monitor(m) PROVE IInv'
  BY <1>1, MonitorStep
<1>2. CASE Server
  BY <1>2, oneshotSchedulingStep, EpochBeginStep, setupTasksStep, AdoptStep, ScaleUpStep,
     RecoverStep DEF Server
<1>3. CASE UNCHANGED vars
  <2>1. UNCHANGED <<pc, rate, mPerTaskTgtRate, backup_tgt_rate, mPerTaskRateHist, sysFlush,
                    session, mPrevState, mCurrState, mNextState, mNeedUpdate, configured,
                    numMaxGPU>>
    BY <1>3 DEF vars, targets, states
  <2>2. TypeOK'
    BY <2>1 DEF IInv, TypeOK
  <2>3. EpochInv'
    BY <2>1 DEF IInv, EpochInv, Covers, Newest, Whole, NoState
  <2> QED
    BY <2>2, <2>3 DEF IInv
<1> QED
  BY <1>1, <1>2, <1>3 DEF Next

\* The invariant holds in every state, the types among it: every rate, target
\* and plan stays a natural number, and the histories keep to their length.
THEOREM EpochInvariance == Spec => []IInv
  BY InitIInv, NextIInv, PTL DEF Spec

\* Between epochs the newest schedule gives every model its target or more,
\* whether OracleScheduler adopted a schedule, needed none, or failed to find
\* one and restored the targets (recoverFromScheduleFailure).
THEOREM PlansCoverTargets == Spec => []PlanCoversTargets
<1>1. IInv => PlanCoversTargets
  BY DEF IInv, EpochInv, Covers, PlanCoversTargets
<1> QED
  BY <1>1, EpochInvariance, PTL

\* Installing a schedule (OracleScheduler, an epoch after it was made) takes
\* no model that has a target off the GPUs.
THEOREM TargetsStayScheduled == Spec => TargetedStayScheduled
<1>1. ASSUME IInv, [Next]_vars
      PROVE  [\A m \in Models : mCurrState.plan[m] > 0 /\ mPerTaskTgtRate[m] >= Tenths
                                  => mCurrState'.plan[m] > 0]_vars
  <2> SUFFICES ASSUME NEW m \in Models, mCurrState.plan[m] > 0, mPerTaskTgtRate[m] >= Tenths,
                      mCurrState' # mCurrState
               PROVE  mCurrState'.plan[m] > 0
    BY Zenon
  <2>1. oneshotScheduling \/ EpochBegin
    BY <1>1 DEF Next, Server, setupTasks, Adopt, ScaleUp, Recover, Monitor, vars, states
  <2>2. ~oneshotScheduling
    <3>1. SUFFICES ASSUME oneshotScheduling PROVE FALSE
      OBVIOUS
    <3>2. mCurrState = NoState
      BY <1>1, <3>1 DEF oneshotScheduling, IInv, EpochInv
    <3> QED
      BY <3>2 DEF NoState
  <2>3. mNeedUpdate /\ mCurrState' = mNextState /\ pc = "idle"
    BY <2>1, <2>2 DEF EpochBegin
  <2>4. mNextState.plan[m] >= Whole(mPerTaskTgtRate[m])
    BY <1>1, <2>3 DEF IInv, EpochInv, Covers, Newest
  <2>5. mPerTaskTgtRate[m] \in Nat /\ mNextState.plan[m] \in Nat
    BY <1>1 DEF IInv, TypeOK, Schedules
  <2>6. Whole(mPerTaskTgtRate[m]) \in Nat /\ Whole(mPerTaskTgtRate[m]) > 0
    BY <2>5, WholeType
  <2> QED
    BY <2>3, <2>4, <2>5, <2>6
<1> QED
  BY <1>1, EpochInvariance, PTL DEF Spec, TargetedStayScheduled
=============================================================================
