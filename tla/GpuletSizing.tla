----------------------------- MODULE GpuletSizing -----------------------------
(***************************************************************************)
(* How large a gpulet a model needs: the arithmetic the partition          *)
(* scheduler rests on (scheduler_base.cpp and the estimating half of       *)
(* scheduler_incremental.cpp).  Everything here is a function of the       *)
(* profiles and of a snapshot of the GPUs; the schedule itself is built in *)
(* ElasticPartitioning.                                                    *)
(*                                                                         *)
(* Rates are ints, in requests per second, as in the code.  The code's     *)
(* floats are fixed-point numbers, rounded down:                           *)
(*   times in 1/100 ms, throughputs in 1/100 requests per second,          *)
(*   occupancies in 1/10000 of the time (Full is an occupancy of 1).       *)
(*                                                                         *)
(* A node is a record                                                      *)
(*   [id, type, pntg, dedup, occ, duty, tasks]                             *)
(* with id the number of its GPU (counted from 1), and a task on a node is *)
(*   [id, rate, batch, trp].                                               *)
(***************************************************************************)
EXTENDS Integers, Sequences, FiniteSets, FiniteSetsExt, SequencesExt

CONSTANTS
    Models,         \* the model ids
    Types,          \* the GPU types, a sequence in the order of the type map
    AvailParts,     \* the partition sizes, a descending sequence
    MAX_BATCH,      \* _MAX_BATCH
    SLO,            \* [Models -> Nat \ {0}], in 1/100 ms
    PureLatency,    \* the profiled latency of [type, model, batch, part]
    BatchLatency,   \* the overhead of putting a batch together, [model, batch]
    Interference,   \* the slow-down in percent of [model, neighbouring model]
    LatencyRatio    \* _latencyRatio in percent

TRP_SLACK == 15

Second == 100000

Full == 10000

Parts == Range(AvailParts)

(* What the code takes for granted of the profiles and the sizes. *)
ProfilesConsistent ==
    /\ MAX_BATCH \in Nat \ {0}
    /\ Models \subseteq Nat
    /\ Parts \subseteq 1 .. 100
    /\ 100 \in Parts
    /\ Len(AvailParts) > 1
    /\ \A p \in Parts \ {100} : 100 - p \in Parts
    /\ SLO \in [Models -> Nat \ {0}]
    /\ PureLatency \in
         [Range(Types) \X Models \X (1 .. MAX_BATCH) \X Parts -> Nat \ {0}]
    /\ BatchLatency \in [Models \X (1 .. MAX_BATCH) -> Nat]
    /\ Interference \in [Models \X Models -> Nat]
    /\ LatencyRatio \in Nat /\ LatencyRatio >= 100

(***************************************************************************)
(* Latencies.                                                              *)
(***************************************************************************)

\* getLatency without interference.
Latency(t, m, b, p) ==
    ((PureLatency[t, m, b, p] + BatchLatency[m, b]) * LatencyRatio) \div 100

isSameNode(a, b) == a.id = b.id /\ a.pntg = b.pntg /\ a.dedup = b.dedup

\* The worst slow-down, in percent, of model m on node n by the other nodes
\* of a GPU; never a speed-up.
getInterference(m, n, gpu) ==
    LET Neighbours == {o \in Range(gpu.nodes) : ~isSameNode(o, n)}
        Tenants == UNION {{task.id : task \in Range(o.tasks)} : o \in Neighbours}
    IN  Max({100} \cup {Interference[m, other] : other \in Tenants})

\* getLatency with interference: c is the configuration, gpus the schedule.
LatencyOn(c, gpus, n, m, b) ==
    LET pure == PureLatency[n.type, m, b, n.pntg]
        slowdown == IF c.intf /\ n.id <= Len(gpus)
                      THEN getInterference(m, n, gpus[n.id]) - 100
                      ELSE 0
    IN  ((pure + BatchLatency[m, b] + (pure * slowdown) \div 100) * LatencyRatio)
          \div 100

(***************************************************************************)
(* getMaxBatch: the binary search for the largest batch that keeps the     *)
(* SLO.  The result also has the rate, which the corner case overwrites.   *)
(***************************************************************************)

\* The search proper: fits says of every batch size whether it keeps the SLO.
\* A batch of one is tested once more when the search has come down to it.
SearchBatch(fits) ==
    LET search[low \in 1 .. MAX_BATCH, high \in 1 .. MAX_BATCH] ==
          LET last == low = 1 /\ high = 1
              Found(l, h) == IF h = l /\ (l # 1 \/ last) THEN l ELSE search[l, h]
              Narrow(l, h) == Found(l, IF h - l <= 1 THEN l ELSE h)
              Try(mid, feasible) == IF feasible THEN Narrow(mid, high)
                                    ELSE IF last THEN 0
                                    ELSE Narrow(low, mid)
              Test(mid) == Try(mid, fits[mid])
          IN  Test((low + high) \div 2)
    IN  search[1, MAX_BATCH]

\* Mutant: only the batch that the request is part of counts.
SaturatedFitsOnce(lat, m) == lat <= SLO[m]

\* A partition that runs one batch after the other: a request waits for one
\* batch and is part of the next.
SaturatedFits(lat, m) == 2 * lat <= SLO[m]

\* The time in which req requests per second fill a batch.
FillTime(b, req) == (b * Second) \div req

\* A partition that waits until req requests per second have filled a batch.
ResidueFits(lat, m, b, req) == lat + FillTime(b, req) <= SLO[m]

SaturatedBatch(c, gpus, n, m) ==
    SearchBatch([b \in 1 .. MAX_BATCH |-> SaturatedFits(LatencyOn(c, gpus, n, m, b), m)])

\* With no rate to speak of a batch of one is taken although it does not fill
\* in time, and the rate is raised to what that batch serves.
ResidueBatch(c, gpus, n, m, req) ==
    LET Corner(one) ==
          IF one < FillTime(1, req) /\ one < SLO[m]
            THEN [batch |-> 1,
                  rate |-> ((Second * LatencyRatio) \div (SLO[m] - one)) \div 100]
            ELSE [batch |-> 0, rate |-> req]
        Result(found) == IF found # 0 THEN [batch |-> found, rate |-> req]
                         ELSE Corner(LatencyOn(c, gpus, n, m, 1))
    IN  Result(SearchBatch([b \in 1 .. MAX_BATCH |->
                 ResidueFits(LatencyOn(c, gpus, n, m, b), m, b, req)]))

makeEmptyNode(c, id, p, t) ==
    [id |-> id, type |-> t, pntg |-> p, dedup |-> 0, occ |-> 0,
     duty |-> c.garbage, tasks |-> <<>>]

Task(m, rate, b, trp) == [id |-> m, rate |-> rate, batch |-> b, trp |-> trp]

\* One batch of b in every duty cycle of d, and the share of it that is used.
Throughput(b, d) == (b * Second * 100) \div d

Occupancy(lat, d) == (lat * Full) \div d

(***************************************************************************)
(* initSaturateTrp: the table of the throughput of a saturated partition.  *)
(***************************************************************************)

NoInterference == [intf |-> FALSE, garbage |-> 0]

SatEntry(t, m, p) ==
    LET With(b) == [batch |-> b, trp |-> Throughput(b, Latency(t, m, b, p))]
    IN  With(Max({1, SaturatedBatch(NoInterference, <<>>,
                                    makeEmptyNode(NoInterference, 1, p, t), m)}))

SatTable == [e \in Range(Types) \X Models \X Parts |-> SatEntry(e[1], e[2], e[3])]

getMaxSaturateTrp(t, m, p) == SatTable[<<t, m, p>>].trp

\* The size whose last step up pays most in throughput.  The step up to the
\* first of the sizes is never looked at.
getMaxReturnPart(t, m) ==
    LET len == Len(AvailParts)
        Trp(i) == getMaxSaturateTrp(t, m, AvailParts[i])
        Return(i) == (Trp(i - 1) - Trp(i)) \div (AvailParts[i - 1] - AvailParts[i])
        Step(best, i) ==
          IF 105 * Trp(i) <= 100 * Trp(i - 1) /\ best.ret < Return(i)
            THEN [ret |-> Return(i), part |-> AvailParts[i - 1]]
            ELSE best
        start == [ret |-> 0, part |-> AvailParts[len]]
    IN  FoldLeft(Step, start, [k \in 1 .. len - 2 |-> len + 1 - k]).part

(***************************************************************************)
(* estimateTrp: the gpulets a model with the given rate would like on GPUs *)
(* of type t.                                                              *)
(***************************************************************************)

\* The smallest partition, from size p down, on which the batch found for p
\* still keeps up and keeps the SLO.
SmallestServing(t, m, p, b, duty) ==
    LET Serves(q) == /\ Latency(t, m, b, q) <= duty
                     /\ Latency(t, m, b, q) + duty <= SLO[m]
        Sizes == {q \in Parts : q <= p}
    IN  Min({p} \cup {q \in Sizes : \A r \in Sizes : r >= q => Serves(r)})

\* getMinPart, for a partition of at most p.  A batch of 0 says that there is
\* none.
getMinPart(t, m, p, rate) ==
    LET From(found) ==
          [part  |-> IF found.batch = 0 THEN 0
                     ELSE SmallestServing(t, m, p, found.batch,
                                          FillTime(found.batch, found.rate)),
           batch |-> found.batch, rate |-> found.rate]
    IN  From(ResidueBatch(NoInterference, <<>>,
                          makeEmptyNode(NoInterference, 1, p, t), m, rate))

\* A gpulet that the model keeps busy all the time.
SaturatedNode(c, t, m, p, rate) ==
    LET entry == SatTable[<<t, m, p>>]
    IN  [makeEmptyNode(c, 1, p, t) EXCEPT
           !.occ = Full, !.duty = Latency(t, m, entry.batch, p),
           !.tasks = <<Task(m, rate, entry.batch, entry.trp)>>]

\* The gpulet for what is left.
ResidueNode(c, t, m, p, rate) ==
    LET Timed(least, lat, duty) ==
          [makeEmptyNode(c, 1, least.part, t) EXCEPT
             !.occ = Occupancy(lat, duty), !.duty = duty,
             !.tasks = <<Task(m, least.rate, least.batch, Throughput(least.batch, duty))>>]
        For(least, lat) ==
          Timed(least, lat, Max({FillTime(least.batch, least.rate), lat}))
        Of(least) ==
          IF least.batch = 0
            THEN [makeEmptyNode(c, 1, 0, t) EXCEPT !.tasks = <<Task(m, rate, 0, 0)>>]
            ELSE For(least, Latency(t, m, least.batch, least.part))
    IN  Of(getMinPart(t, m, p, rate))

\* getEstimateTrpST: the estimate under self tuning, which takes the smallest
\* partition that can serve all that is left, or else the largest there is.
EstimateST(c, t, m, rate) ==
    LET IntTrp(p) == getMaxSaturateTrp(t, m, p) \div 100
        Smallest(enough) == IF enough = {} THEN Max(Parts) ELSE Min(enough)
        PartFor(r) == Smallest({p \in Parts : IntTrp(p) > r})
        Timed(r, p, b, duty) ==
          [makeEmptyNode(c, 1, p, t) EXCEPT
             !.occ = Occupancy(Latency(t, m, b, p), duty), !.duty = duty,
             !.tasks = <<Task(m, r, b, 100 * IntTrp(p))>>]
        For(r, p, b) == Timed(r, p, b, FillTime(b, r))
        nodes[r \in Int] ==
          LET From(p) == <<For(r, p, SatTable[<<t, m, p>>].batch)>> \o nodes[r - IntTrp(p)]
          IN  IF r <= 0 THEN <<>> ELSE From(PartFor(r))
    IN  nodes[rate]

EstimateRegular(c, t, m, rate) ==
    LET On(part, sat) ==
          LET nodes[r \in Int] ==
                IF r <= TRP_SLACK THEN <<>>
                ELSE IF sat < 100 * r
                       THEN <<SaturatedNode(c, t, m, part, r)>>
                              \o nodes[(100 * r - sat) \div 100]
                ELSE <<ResidueNode(c, t, m, part, r)>>
          IN  nodes[rate]
        Best(part) == On(part, getMaxSaturateTrp(t, m, part))
    IN  Best(getMaxReturnPart(t, m))

\* The nodes of an estimate are numbered by their place in it, and these
\* numbers are later taken for the numbers of GPUs.
estimateTrp(c, t, m, rate) ==
    LET Numbered(nodes) == [k \in DOMAIN nodes |-> [nodes[k] EXCEPT !.id = k]]
    IN  Numbered(IF rate <= TRP_SLACK THEN <<>>
                 ELSE IF c.selfTuning THEN EstimateST(c, t, m, rate)
                 ELSE EstimateRegular(c, t, m, rate))

\* No batch was found: the batch size that estimateTrp goes on with was never
\* set.
EstimateUndefined(c, m, rate) ==
    \E t \in Range(Types) :
        \E n \in Range(estimateTrp(c, t, m, rate)) : n.tasks[1].batch = 0

\* The throughput of a whole GPU that is split for model m.
WholeTrp(t, m) ==
    LET Both(ideal) == getMaxSaturateTrp(t, m, ideal) + getMaxSaturateTrp(t, m, 100 - ideal)
    IN  Both(getMaxReturnPart(t, m))

\* The GPU type on which the estimate takes least; among equals, the one that
\* a whole GPU serves best.
getMinPartSum(c, m, rate) ==
    LET Sum(nodes) == FoldLeft(LAMBDA sum, n : sum + n.pntg, 0, nodes)
        Better(best, t, use) ==
          IF use < best.use THEN [use |-> use, type |-> t] ELSE best
        Step(best, t) == Better(best, t, (rate * 100 * Full) \div WholeTrp(t, m))
        Among(tied) ==
          IF Len(tied) = 1 THEN tied[1]
          ELSE FoldLeft(Step, [use |-> 10 * Full, type |-> tied[1]], tied).type
        Least(sums) ==
          Among(SelectSeq(Types, LAMBDA t : \A u \in DOMAIN sums : sums[t] <= sums[u]))
    IN  Least([t \in Range(Types) |-> Sum(estimateTrp(c, t, m, rate))])
===============================================================================
