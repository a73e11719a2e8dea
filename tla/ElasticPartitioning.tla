------------------------- MODULE ElasticPartitioning --------------------------
(***************************************************************************)
(* The partition scheduler: IncrementalScheduler::runScheduling and what   *)
(* it calls (scheduler_incremental.cpp, scheduler_base.cpp,                *)
(* scheduler_utils.cpp).  Given the request rates of a session it places   *)
(* the models on gpulets: a GPU is one node of 100% or two nodes that      *)
(* share it.                                                               *)
(*                                                                         *)
(* The scheduler is sequential.  A step is one iteration of one of its     *)
(* loops; pc says which loop it is in.  decision is the schedule that the  *)
(* system runs on, sim the one being built: it replaces decision only when *)
(* the call succeeds.  pc = "abort" is a failed assertion, or a value that *)
(* was never set being used.                                               *)
(*                                                                         *)
(* A sort keeps equal elements in order, as std::sort does for vectors as  *)
(* short as these.                                                         *)
(***************************************************************************)
EXTENDS GpuletSizing

CONSTANTS
    GPUTypes,       \* the type of each GPU, a sequence
    TotalMemory,    \* [Range(Types) -> Nat]
    ModelMemory,    \* [Models -> Nat], _mapModelIDtoMemSize
    PartMemory,     \* _DEFAULT_PYTORCH_MEM_USAGE
    RequestSize,    \* [Models -> Nat], network units of a request
    NetLimit,       \* _LIMIT_GBITS, in those units per second
    MaxModel,       \* _numMaxModel
    Configs,        \* the configurations, see ConfigType
    Sessions        \* the sessions the callers ask for: sets of [id, rate]

VARIABLES
    cfg,        \* the configuration
    decision,   \* the schedule in use: the nodes of each GPU
    sim,        \* the schedule being built: see GPU below
    repart,     \* _useRepartition
    session,    \* the tasks that are still to be added
    org,        \* task_to_org_rate_mapping: rates by model of this round
    retried,    \* the models whose task_to_intf_retry_flag is set
    cur,        \* the task being added: [id, rate, add]
    given,      \* what the loop at pc still has to look at
    ts,         \* ts_target_nodes, as [id, pntg, dedup]
    pc

vars == <<cfg, decision, sim, repart, session, org, retried, cur, given, ts,
          pc>>

ConfigType == [usePart : BOOLEAN, intf : BOOLEAN, selfTuning : BOOLEAN,
               nlc : BOOLEAN, garbage : Nat]

(* What the code takes for granted of its configuration. *)
Configured ==
    /\ ProfilesConsistent
    /\ \A c \in Configs : c \in ConfigType /\ (c.selfTuning => ~c.intf)
    /\ \A t \in Range(GPUTypes) : t \in Range(Types) /\ TotalMemory[t] \in Nat
    /\ ModelMemory \in [Models -> Nat \ {0}]
    /\ PartMemory \in Nat

None == <<0, 0>>

NoTask == [id |-> 0, rate |-> 0, add |-> 0]

(***************************************************************************)
(* Nodes are referred to by <<GPU, index>>.                                *)
(***************************************************************************)

Refs(s) == UNION {{<<g, i>> : i \in DOMAIN s[g].nodes} : g \in DOMAIN s}

\* The nodes in the order of the double loop over GPUs and nodes.
RefSeq(s) ==
    FoldLeft(LAMBDA refs, g : refs \o [i \in DOMAIN s[g].nodes |-> <<g, i>>],
             <<>>, [g \in DOMAIN s |-> g])

NodeAt(s, r) == s[r[1]].nodes[r[2]]

SetNode(s, r, n) == [s EXCEPT ![r[1]].nodes[r[2]] = n]

AddNode(s, g, n) == [s EXCEPT ![g].nodes = Append(@, n)]

IsEmpty(n) == n.tasks = <<>>

Holds(n, m) == \E task \in Range(n.tasks) : task.id = m

isModelScheduled(s, m) == \E r \in Refs(s) : Holds(NodeAt(s, r), m)

\* A stable sort in the order Before.
StableSort(seq, Before(_, _)) ==
    LET Order(a, b) == \/ Before(seq[a], seq[b])
                       \/ ~Before(seq[b], seq[a]) /\ a < b
        order == SortSeq([k \in DOMAIN seq |-> k], Order)
    IN  [k \in DOMAIN seq |-> seq[order[k]]]

\* cmp_nodeptr_dsc
ByPart(s, refs) == StableSort(refs, LAMBDA a, b : NodeAt(s, a).pntg > NodeAt(s, b).pntg)

\* cmp_nodeptr_occu_dsc
ByOccupancy(s, refs) ==
    StableSort(refs, LAMBDA a, b : NodeAt(s, a).occ > NodeAt(s, b).occ)

(***************************************************************************)
(* Memory of a GPU.                                                        *)
(***************************************************************************)

isPartLoaded(gpu, n) == <<n.pntg, n.dedup>> \in gpu.loaded

isModelLoaded(gpu, n, m) ==
    /\ isPartLoaded(gpu, n)
    /\ \E o \in Range(gpu.nodes) : o.pntg = n.pntg /\ o.dedup = n.dedup /\ Holds(o, m)

NeededMemory(gpu, n, m) ==
    ModelMemory[m] + (IF isPartLoaded(gpu, n) THEN 0 ELSE PartMemory)

\* 0.9 of the memory may be used.
doesFitMemLimit(gpu, n, m) ==
    \/ isModelLoaded(gpu, n, m)
    \/ 9 * gpu.total - 10 * gpu.used > 10 * NeededMemory(gpu, n, m)

addGPUMemUsage(gpu, n, m) ==
    IF isModelLoaded(gpu, n, m) \/ ~doesFitMemLimit(gpu, n, m) THEN gpu
    ELSE [gpu EXCEPT !.used = @ + NeededMemory(gpu, n, m),
                     !.loaded = @ \cup {<<n.pntg, n.dedup>>}]

\* For a node of a loaded partition.
subtractGPUMemUsage(gpu, n, m) ==
    IF isModelLoaded(gpu, n, m) /\ gpu.used >= ModelMemory[m]
      THEN [gpu EXCEPT !.used = @ - ModelMemory[m]]
      ELSE gpu

Fits(s, r, m) == doesFitMemLimit(s[r[1]], NodeAt(s, r), m)

AddMemory(s, r, m) == [s EXCEPT ![r[1]] = addGPUMemUsage(@, NodeAt(s, r), m)]

(***************************************************************************)
(* The network limit (network_limit.cpp).  A checker that was not set up   *)
(* takes a request for nothing.                                            *)
(***************************************************************************)

Size(c, m) == IF c.nlc THEN RequestSize[m] ELSE 0

getRequiredBandwidth(c, gpu) ==
    LET Of(n) == FoldLeft(LAMBDA sum, task : sum + task.trp * Size(c, task.id), 0, n.tasks)
    IN  FoldLeft(LAMBDA sum, n : sum + Of(n), 0, gpu.nodes)

isBandwidthOK(c, gpu) == getRequiredBandwidth(c, gpu) <= 100 * NetLimit

\* The largest batch that the bandwidth left on the GPU allows; a batch of 0
\* stands for failure.
adjustBatchSizetoNetBW(c, task, gpu) ==
    LET remain == 100 * NetLimit - getRequiredBandwidth(c, gpu)
        TrpOf(i) == (i * task.trp) \div task.batch
        Allowed == {i \in 1 .. task.batch : TrpOf(i) * Size(c, task.id) <= remain}
    IN  IF remain <= 0 \/ Allowed = {} THEN [task EXCEPT !.batch = 0]
        ELSE [task EXCEPT !.batch = Max(Allowed), !.trp = TrpOf(Max(Allowed))]

(***************************************************************************)
(* What the neighbours of a changed node go through under interference.    *)
(* Both return the node, whether it could be adjusted (ok), and for a      *)
(* saturated node the throughput it lost.                                  *)
(***************************************************************************)

LatencySum(c, s, n) ==
    FoldLeft(LAMBDA sum, task : sum + LatencyOn(c, s, n, task.id, task.batch), 0, n.tasks)

LostRate(old, new) == IF old > new THEN (old - new) \div 100 ELSE 0

\* For a node with one task.  The batch shrinks until two of its latencies
\* are within the SLO.
adjustSatNode(c, s, n) ==
    LET task == n.tasks[1]
        Lat(b) == LatencyOn(c, s, n, task.id, b)
        slo == SLO[task.id]
        InTime == {b \in 1 .. task.batch : 2 * Lat(b) <= slo}
        stays == 2 * Lat(task.batch) < slo
        batch == Max(InTime)
        \* a batch that is just in time keeps its duty cycle
        duty == IF batch = task.batch THEN n.duty ELSE Lat(batch)
        trp == Throughput(batch, IF stays THEN Lat(batch) ELSE duty)
    IN  IF InTime = {} THEN [ok |-> FALSE, node |-> n, lost |-> 0]
        ELSE [ok |-> TRUE, lost |-> LostRate(task.trp, trp),
              node |-> [n EXCEPT !.duty = duty,
                                 !.tasks[1].batch = batch, !.tasks[1].trp = trp]]

\* The batch of each task shrinks, and its duty cycle with it, until the task
\* is in time; the node gets the shortest of these duty cycles.
adjustResNode(c, s, n) ==
    LET sum == LatencySum(c, s, n)
        InSlack == \A task \in Range(n.tasks) :
                     100 * (sum + n.duty) <= 105 * SLO[task.id]
        LatOf(task, b) == LatencyOn(c, s, n, task.id, b)
        DutyOf(task, b) ==
          LET duty[k \in 1 .. task.batch] ==
                IF k = task.batch THEN n.duty ELSE (duty[k + 1] * k) \div task.batch
          IN  duty[b]
        InTime(task) == {b \in 1 .. task.batch :
          sum - LatOf(task, task.batch) + LatOf(task, b) + DutyOf(task, b) <= SLO[task.id]}
        batches == [k \in DOMAIN n.tasks |-> Max(InTime(n.tasks[k]))]
        duty == Min({DutyOf(n.tasks[k], batches[k]) : k \in DOMAIN n.tasks})
        tasks == [k \in DOMAIN n.tasks |->
                    [n.tasks[k] EXCEPT !.batch = batches[k],
                                       !.trp = Throughput(batches[k], duty)]]
        shrunk == [n EXCEPT !.duty = duty, !.tasks = tasks]
    IN  IF InSlack THEN [ok |-> TRUE, node |-> n]
        ELSE IF \E task \in Range(n.tasks) : InTime(task) = {}
               THEN [ok |-> FALSE, node |-> n]
        ELSE [ok |-> TRUE,
              node |-> [shrunk EXCEPT !.occ = Occupancy(LatencySum(c, s, shrunk), duty)]]

IsSaturated(n) == n.occ >= Full

\* adjustSatNode asserts that the node is saturated and has exactly one task.
SaturatedAsserted(n) == Len(n.tasks) = 1

(***************************************************************************)
(* Looking for an empty node for one node of an estimate.                  *)
(***************************************************************************)

\* checkForInterference.  The new tenant is not on the GPU that the code makes
\* up for the question, so that the neighbour is never slowed down.
checkForInterference(s, r) ==
    LET gpu == s[r[1]]
        n == NodeAt(s, r)
        others == SelectSeq(gpu.nodes, LAMBDA o : ~isSameNode(o, n))
    IN  /\ n.pntg # 100
        /\ others # <<>>
        /\ \E task \in Range(others[1].tasks) :
             SLO[task.id] < BatchLatency[task.id, task.batch] + 2 * others[1].duty

CanHost(c, s, input, r) ==
    LET n == NodeAt(s, r)
        task == input.tasks[1]
    IN  /\ s[r[1]].type = input.type
        /\ n.pntg >= input.pntg
        /\ IsEmpty(n)
        /\ Fits(s, r, task.id)
        /\ LatencyOn(c, s, n, task.id, task.batch) + input.duty <= SLO[task.id]
        /\ ~checkForInterference(s, r)

\* The last of the best fits, or None; a whole GPU counts as a perfect fit.
findBestFit(c, s, input, excluded) ==
    LET Step(best, r) ==
          LET n == NodeAt(s, r)
              whole == n.pntg = 100 /\ c.usePart
              best1 == IF whole THEN [diff |-> 0, ref |-> r] ELSE best
          IN  IF r \in excluded \/ ~CanHost(c, s, input, r) THEN best
              ELSE IF best1.diff >= n.pntg - input.pntg
                     THEN [diff |-> n.pntg - input.pntg, ref |-> r]
              ELSE best1
    IN  FoldLeft(Step, [diff |-> 200, ref |-> None], RefSeq(s)).ref

\* findBestFit again and again, without the nodes that were found and have
\* too little left.
FitFor(c, s, input, flagged, remain) ==
    LET Fit(r, excl) == [ref |-> r, flagged |-> excl, again |-> r # None /\ remain[r] < input.pntg]
        fit[excl \in SUBSET Refs(s)] ==
          LET Again(f) == IF f.again THEN fit[excl \cup {f.ref}] ELSE f
          IN  Again(Fit(findBestFit(c, s, input, excl), excl))
    IN  fit[flagged]

\* A whole node can be used by one more when it may be cut.
Taken(acc, fit, left) ==
    IF fit.ref = None THEN [acc EXCEPT !.ok = FALSE]
    ELSE [ok |-> TRUE,
          flagged |-> fit.flagged \cup (IF left = 0 THEN {fit.ref} ELSE {}),
          remain |-> [acc.remain EXCEPT ![fit.ref] = left]]

TakeFit(acc, rep, input, fit) ==
    Taken(acc, fit,
          IF fit.ref # None /\ rep /\ acc.remain[fit.ref] = 100 THEN 100 - input.pntg ELSE 0)

\* checkFit: do all nodes of the estimate find a place, when those before
\* them have taken theirs?
checkFit(c, s, rep, estimate) ==
    LET Step(acc, input) ==
          IF ~acc.ok THEN acc
          ELSE TakeFit(acc, rep, input, FitFor(c, s, input, acc.flagged, acc.remain))
        start == [ok |-> TRUE, flagged |-> {},
                  remain |-> [r \in Refs(s) |-> NodeAt(s, r).pntg]]
    IN  FoldLeft(Step, start, estimate).ok

\* getEstimate, sorted as addModeltoSchedule does.
getEstimate(c, m, rate) ==
    StableSort(estimateTrp(c, getMinPartSum(c, m, rate), m, rate),
               LAMBDA a, b : a.pntg > b.pntg)

\* A node larger than asked for: the batch is chosen anew.  A batch of 0 says
\* that there is none.
Resize(c, s, input, p) ==
    LET big == [input EXCEPT !.pntg = p]
        task == input.tasks[1]
        residue == input.occ # Full
        found == IF residue THEN ResidueBatch(c, s, big, task.id, task.rate)
                 ELSE [batch |-> SaturatedBatch(c, s, big, task.id), rate |-> task.rate]
        lat == LatencyOn(c, s, big, task.id, found.batch)
        duty == IF residue THEN Max({FillTime(found.batch, found.rate), lat})
                ELSE lat
    IN  IF found.batch = 0 THEN [big EXCEPT !.tasks[1].batch = 0]
        ELSE [big EXCEPT !.duty = duty, !.occ = Occupancy(lat, duty),
                !.tasks = <<Task(task.id, found.rate, found.batch,
                                 Throughput(found.batch, duty))>>]

\* Mutant: the halves of a GPU are not told apart.
SplitNoDedup(c, s, r, p) ==
    AddNode(SetNode(s, r, [NodeAt(s, r) EXCEPT !.pntg = p]), r[1],
            makeEmptyNode(c, r[1], 100 - p, s[r[1]].type))

\* The rest of a GPU when its only node is cut down to p percent.
Split(c, s, r, p) ==
    LET rest == makeEmptyNode(c, r[1], 100 - p, s[r[1]].type)
        cut == SetNode(s, r, [NodeAt(s, r) EXCEPT !.pntg = p])
    IN  AddNode(cut, r[1], [rest EXCEPT !.dedup = IF p = 50 THEN 1 ELSE 0])

\* Mutant: the node takes the size of the estimate although it may not change.
copyToNodeResizing(s, r, input, rep) ==
    SetNode(s, r, [NodeAt(s, r) EXCEPT !.occ = input.occ, !.duty = input.duty,
                                       !.tasks = input.tasks, !.pntg = input.pntg])

\* copyToNode: a node keeps its place, and its size when it may not change.
copyToNode(s, r, input, rep) ==
    LET n == NodeAt(s, r)
    IN  SetNode(s, r, [n EXCEPT !.occ = input.occ, !.duty = input.duty,
                                !.tasks = input.tasks,
                                !.pntg = IF rep THEN input.pntg ELSE @])

\* All nodes of GPU g are adjusted to each other after an allocation.  The
\* result of a residue node is not looked at.
AdjustAll(c, s, g) ==
    LET Step(acc, i) ==
          LET n == acc.sim[g].nodes[i]
              sat == adjustSatNode(c, acc.sim, n)
              res == adjustResNode(c, acc.sim, n)
          IN  IF acc.pc # "alloc" THEN acc
              ELSE IF n.occ # Full
                     THEN [acc EXCEPT !.sim = SetNode(@, <<g, i>>, res.node)]
              ELSE IF ~SaturatedAsserted(n) THEN [acc EXCEPT !.pc = "abort"]
              ELSE IF ~sat.ok THEN [acc EXCEPT !.pc = "gather"]
              ELSE [acc EXCEPT !.sim = SetNode(@, <<g, i>>, sat.node),
                               !.add = @ + sat.lost]
        start == [sim |-> s, pc |-> "alloc", add |-> 0]
    IN  IF c.intf THEN FoldLeft(Step, start, [i \in DOMAIN s[g].nodes |-> i])
        ELSE start

(***************************************************************************)
(* checkNeedtoRevert: the node r of sim has just been given a task; can    *)
(* the other nodes of its GPU live with it?  Those already adjusted when   *)
(* one cannot stay adjusted.                                               *)
(***************************************************************************)
checkNeedtoRevert(c, s, r) ==
    LET g == r[1]
        new == NodeAt(s, r)
        Step(acc, i) ==
          LET n == acc.sim[g].nodes[i]
              sat == adjustSatNode(c, acc.sim, n)
              res == adjustResNode(c, acc.sim, n)
              Adjusted(a) == [acc EXCEPT !.sim = SetNode(@, <<g, i>>, a.node),
                                         !.revert = @ \/ ~a.ok]
          IN  IF acc.stop \/ (n.dedup = new.dedup /\ n.pntg = new.pntg) THEN acc
              ELSE IF ~IsSaturated(n) THEN Adjusted(res)
              ELSE IF ~SaturatedAsserted(n)
                     THEN [acc EXCEPT !.stop = TRUE, !.abort = TRUE]
              ELSE [Adjusted(sat) EXCEPT !.stop = ~sat.ok]
        start == [sim |-> s, revert |-> c.nlc /\ ~isBandwidthOK(c, s[g]),
                  stop |-> FALSE, abort |-> FALSE]
    IN  IF c.intf THEN FoldLeft(Step, start, [i \in DOMAIN s[g].nodes |-> i])
        ELSE start

revertNode(s, r) == SetNode(s, r, [NodeAt(s, r) EXCEPT
                                     !.occ = 0, !.duty = 0, !.tasks = <<>>])

\* getNodewithPriorityType on the type of getMinPartSum: the first node of
\* that type, or simply the first.
PickNode(c, s, refs, m, rate) ==
    LET First(ofType) == IF ofType # <<>> THEN ofType[1] ELSE refs[1]
        Of(type) == First(SelectSeq(refs, LAMBDA r : NodeAt(s, r).type = type))
    IN  Of(getMinPartSum(c, m, rate))

\* What both loops of readjust do first with the node they pick: a whole GPU
\* is cut to the size the estimate begins with, and the rest joins the list.
CutWhole(c, s, rep, refs, m, rate) ==
    LET Longer(cut, g) == <<refs[1]>> \o
          ByPart(cut, Append(Tail(refs), <<g, Len(cut[g].nodes)>>))
        Whole(r, first, cut) ==
          [ref |-> r, whole |-> TRUE, batch |-> first.tasks[1].batch,
           sim |-> cut, given |-> IF cut = s THEN refs ELSE Longer(cut, r[1])]
        AtFirst(r, first) ==
          Whole(r, first, IF first.pntg < 100 THEN Split(c, s, r, first.pntg) ELSE s)
        At(r, n) ==
          IF n.pntg = 100 /\ c.usePart /\ rep
            THEN AtFirst(r, estimateTrp(c, n.type, m, rate)[1])
            ELSE [ref |-> r, whole |-> FALSE, batch |-> 0, sim |-> s, given |-> refs]
        Pick(r) == At(r, NodeAt(s, r))
    IN  Pick(PickNode(c, s, refs, m, rate))

(***************************************************************************)
(* mergeResidue.                                                           *)
(***************************************************************************)

ResidueRefs(s, m) ==
    SelectSeq(RefSeq(s), LAMBDA r : LET n == NodeAt(s, r)
                                    IN  /\ ~IsSaturated(n)
                                        /\ Len(n.tasks) = 1
                                        /\ n.tasks[1].id = m)

\* The rate of the task and of its residue nodes together.
MergedRate(s, m, rate) ==
    FoldLeft(LAMBDA sum, r : sum + NodeAt(s, r).tasks[1].trp \div 100,
             rate, ResidueRefs(s, m))

\* The residue node with the least saturated throughput.
SmallestResidue(s, m) ==
    LET SatTrp(r) == getMaxSaturateTrp(NodeAt(s, r).type, m, NodeAt(s, r).pntg)
        Step(best, r) == IF best = None \/ SatTrp(r) < SatTrp(best) THEN r ELSE best
    IN  FoldLeft(Step, None, ResidueRefs(s, m))

CanMerge(s, m, rate) ==
    LET Enough(refs, merged, least) ==
          /\ refs # <<>>
          /\ ~(Len(refs) = 1 /\ merged < TRP_SLACK)
          /\ 100 * merged <= getMaxSaturateTrp(least.type, m, least.pntg)
    IN  Enough(ResidueRefs(s, m), MergedRate(s, m, rate), NodeAt(s, SmallestResidue(s, m)))

ClearResidue(s, m) ==
    LET Clear(acc, r) ==
          revertNode([acc EXCEPT ![r[1]] = subtractGPUMemUsage(@, NodeAt(acc, r), m)], r)
    IN  FoldLeft(Clear, s, ResidueRefs(s, m))

\* The first node like the smallest that takes the merged rate; None if there
\* is none.  No memory is accounted for.
PlaceMerged(c, s, m, like, rate) ==
    LET Batch(r) == ResidueBatch(c, s, NodeAt(s, r), m, rate)
        Hosts(r, n) == /\ Fits(s, r, m)
                       /\ IsEmpty(n)
                       /\ n.type = like.type
                       /\ n.pntg = like.pntg
                       /\ Batch(r).batch # 0
        Filled(n, b, duty) ==
          [n EXCEPT !.duty = duty,
                    !.occ = Occupancy(LatencyOn(c, s, n, m, b.batch), duty),
                    !.tasks = <<Task(m, b.rate, b.batch, 100 * b.rate)>>]
        Put(r, b) == SetNode(s, r, Filled(NodeAt(s, r), b, FillTime(b.batch, b.rate)))
        First(hosts) ==
          IF hosts = <<>> THEN [found |-> FALSE, sim |-> s]
          ELSE [found |-> TRUE, sim |-> Put(hosts[1], Batch(hosts[1]))]
    IN  First(SelectSeq(RefSeq(s), LAMBDA r : Hosts(r, NodeAt(s, r))))

\* The GPUs that are empty now become one node again.
JoinEmpty(s) ==
    [g \in DOMAIN s |->
       IF Len(s[g].nodes) > 1 /\ \A n \in Range(s[g].nodes) : IsEmpty(n)
         THEN [s[g] EXCEPT !.nodes = <<[@[1] EXCEPT !.dedup = 0, !.pntg = 100]>>]
         ELSE s[g]]

mergeResidue(c, s, rep, task) ==
    LET End(new, left) ==
          IF left > TRP_SLACK THEN [ok |-> FALSE, sim |-> new, rate |-> left]
          ELSE [ok |-> TRUE, sim |-> IF rep THEN JoinEmpty(new) ELSE new, rate |-> left]
        Placed(p) == End(p.sim, IF p.found THEN 0 ELSE task.rate)
    IN  IF CanMerge(s, task.id, task.rate)
          THEN Placed(PlaceMerged(c, ClearResidue(s, task.id), task.id,
                                  NodeAt(s, SmallestResidue(s, task.id)),
                                  MergedRate(s, task.id, task.rate)))
          ELSE [ok |-> task.rate <= TRP_SLACK, sim |-> s, rate |-> task.rate]

\* subtractGPUMemUsage asserts that the partition is loaded.
MergeAborts(s, m, rate) ==
    /\ CanMerge(s, m, rate)
    /\ \E r \in Range(ResidueRefs(s, m)) : ~isPartLoaded(s[r[1]], NodeAt(s, r))

(***************************************************************************)
(* allocateTimeShare.                                                      *)
(***************************************************************************)

NodeKey(n) == [id |-> n.id, pntg |-> n.pntg, dedup |-> n.dedup]

\* The nodes considered, sorted once: those of a list, or all that have room.
TimeShareCandidates(s, m, keys) ==
    ByOccupancy(s, SelectSeq(RefSeq(s), LAMBDA r :
        LET n == NodeAt(s, r)
        IN  /\ Fits(s, r, m)
            /\ IF keys # {} THEN NodeKey(n) \in keys
               ELSE ~IsSaturated(n) /\ Len(n.tasks) < MaxModel))

\* int(duty / (1000.0 / rate)), at least one.
BatchWithin(duty, rate) == Max({1, (duty * rate) \div Second})

\* checkContain, and the occupancy.
CanShare(n, m) == ~Holds(n, m) /\ ~IsSaturated(n)

\* How the task shares node n: the largest batch that is in time and uses less
\* than what the node has left, with the duty cycle this means for the node,
\* in whole milliseconds.  A batch of 0 says that the node cannot be shared.
ShareOf(c, s, n, task) ==
    LET Duty(b) == 100 * (FillTime(b, task.rate) \div 100)
        Suits(b, duty, lat) == /\ duty # 0
                               /\ duty + lat < SLO[task.id]
                               /\ Occupancy(lat, duty) < Full - n.occ
        Sum(b, duty) ==
          FoldLeft(LAMBDA sum, t :
                     sum + LatencyOn(c, s, n, t.id, BatchWithin(duty, t.rate)),
                   LatencyOn(c, s, n, task.id, b), n.tasks)
        Tenants == {task.id} \cup {t.id : t \in Range(n.tasks)}
        Room(duty, sum) == /\ duty <= n.duty
                           /\ sum <= duty
                           /\ \A m \in Tenants : sum + duty <= SLO[m]
        With(b, duty) == IF Room(duty, Sum(b, duty)) THEN [batch |-> b, duty |-> duty]
                         ELSE [batch |-> 0, duty |-> 0]
        Largest(b) == IF b = 0 THEN [batch |-> 0, duty |-> 0] ELSE With(b, Duty(b))
        most == Min({MAX_BATCH, (n.duty * task.rate) \div Second})
    IN  IF ~CanShare(n, task.id) THEN [batch |-> 0, duty |-> 0]
        ELSE Largest(Max({0} \cup {b \in 1 .. most :
                           Suits(b, Duty(b), LatencyOn(c, s, n, task.id, b))}))

\* The node with the task added and everyone fitted into the new duty cycle.
ShareNode(c, s, n, task, share) ==
    LET Sized(t, b) == [t EXCEPT !.batch = b, !.trp = Throughput(b, share.duty)]
        Fitted(t) == Sized(t, Min({MAX_BATCH, BatchWithin(share.duty, t.rate)}))
        new == Task(task.id, task.rate, share.batch, Throughput(share.batch, share.duty))
        Occupied(shared) ==
          [shared EXCEPT !.occ = Occupancy(LatencySum(c, s, shared), share.duty)]
    IN  Occupied([n EXCEPT !.duty = share.duty,
                           !.tasks = Append([k \in DOMAIN @ |-> Fitted(@[k])], new)])

\* What an int rate becomes when a throughput is subtracted.
Reduced(rate, trp) ==
    IF 100 * rate >= trp THEN (100 * rate - trp) \div 100
    ELSE -((trp - 100 * rate) \div 100)

(***************************************************************************)
(* The call.                                                               *)
(***************************************************************************)

\* cmp_task_dsc, which sorts by rate times SLO, ascending.
SortSession(tasks) ==
    SetToSortSeq(tasks, LAMBDA a, b :
        LET wa == a.rate * SLO[a.id]
            wb == b.rate * SLO[b.id]
        IN  wa < wb \/ (wa = wb /\ a.id > b.id))

RatesOf(tasks) == [m \in {t.id : t \in tasks} |->
                     (CHOOSE t \in tasks : t.id = m).rate]

LoadedParts(nodes) == {<<n.pntg, n.dedup>> : n \in {o \in Range(nodes) : ~IsEmpty(o)}}

ActualMemory(nodes) ==
    LET Of(n) == IF IsEmpty(n) THEN 0
                 ELSE FoldLeft(LAMBDA sum, t : sum + ModelMemory[t.id], PartMemory, n.tasks)
    IN  FoldLeft(LAMBDA sum, n : sum + Of(n), 0, nodes)

WholeNodes(c, g) == <<makeEmptyNode(c, g, 100, GPUTypes[g])>>

\* A GPU as the scheduler is given it: the nodes to start from, and what is
\* loaded on the running system.
GPU(g, nodes, running) ==
    [type |-> GPUTypes[g], total |-> TotalMemory[GPUTypes[g]],
     used |-> ActualMemory(running), loaded |-> LoadedParts(running),
     nodes |-> nodes]

Init ==
    /\ cfg \in Configs
    /\ decision = [g \in DOMAIN GPUTypes |-> WholeNodes(cfg, g)]
    /\ sim = <<>>
    /\ repart = FALSE
    /\ session = <<>>
    /\ org = <<>>
    /\ retried = {}
    /\ cur = NoTask
    /\ given = <<>>
    /\ ts = {}
    /\ pc = "idle"

\* The scheduler starts on whole GPUs and may partition them (rep), or on the
\* schedule in use and may not.
runScheduling(tasks, rep) ==
    /\ pc = "idle"
    /\ repart' = rep
    /\ sim' = [g \in DOMAIN GPUTypes |->
                 GPU(g, IF rep THEN WholeNodes(cfg, g) ELSE decision[g], decision[g])]
    /\ session' = SortSession(tasks)
    /\ org' = RatesOf(tasks)
    /\ retried' = {}
    /\ pc' = "tasks"
    /\ UNCHANGED <<cfg, decision, cur, given, ts>>

\* An assertion fails, or a value is used that was never set.
Abort ==
    /\ pc' = "abort"
    /\ UNCHANGED <<sim, cur, given>>

\* addModeltoSchedule for a model that has no node yet: the greedy fit.
GreedyFit(estimate) ==
    IF checkFit(cfg, sim, repart, estimate)
      THEN pc' = "alloc" /\ given' = estimate
      ELSE pc' = "gather" /\ given' = <<>>

AddNewModel ==
    LET m == session[1].id
        rate == session[1].rate
    IN  /\ pc = "tasks"
        /\ session # <<>>
        /\ ~isModelScheduled(sim, m)
        /\ IF EstimateUndefined(cfg, m, rate) THEN Abort
           ELSE /\ GreedyFit(getEstimate(cfg, m, rate))
                /\ cur' = [id |-> m, rate |-> rate, add |-> 0]
                /\ UNCHANGED sim
        /\ session' = Tail(session)
        /\ ts' = {}
        /\ UNCHANGED <<cfg, decision, repart, org, retried>>

\* addModeltoSchedule for a model that is scheduled: it is taken off its nodes
\* and the occupancies are computed anew.
ReaddModel ==
    /\ pc = "tasks"
    /\ session # <<>>
    /\ isModelScheduled(sim, session[1].id)
    /\ LET m == session[1].id
           Without(n) == [n EXCEPT !.tasks = RemoveFirstMatch(@, LAMBDA t : t.id = m)]
           Cleared(s, n) ==
             IF IsEmpty(n) THEN n
             ELSE [Without(n) EXCEPT !.occ = Occupancy(LatencySum(cfg, s, Without(n)), n.duty)]
           Step(s, r) == SetNode(s, r, Cleared(s, NodeAt(s, r)))
           sim2 == FoldLeft(Step, sim, RefSeq(sim))
       IN  /\ cur' = [id |-> m, rate |-> session[1].rate, add |-> 0]
           /\ sim' = sim2
           /\ ts' = {NodeKey(NodeAt(sim, r)) : r \in {q \in Refs(sim) : Holds(NodeAt(sim, q), m)}}
    /\ session' = Tail(session)
    /\ pc' = "gather"
    /\ UNCHANGED <<cfg, decision, repart, org, retried, given>>

\* allocateFit for the next node of the estimate, on node r: a larger node
\* gets a new batch, a whole GPU is split, and then the GPU is adjusted.
AllocateAdjusted(r, adjusted) ==
    /\ pc' = adjusted.pc
    /\ sim' = adjusted.sim
    /\ given' = Tail(given)
    /\ cur' = [cur EXCEPT
                 !.add = @ + adjusted.add,
                 !.rate = IF adjusted.pc # "alloc" THEN @
                          ELSE Reduced(@, NodeAt(adjusted.sim, r).tasks[1].trp)]

AllocateSized(r, sized, split) ==
    IF sized.tasks[1].batch = 0
      THEN pc' = "gather" /\ UNCHANGED <<sim, cur, given>>
      ELSE AllocateAdjusted(r, AdjustAll(cfg,
             AddMemory(copyToNode(split, r, sized, repart), r, cur.id), r[1]))

AllocateOn(r, input, best) ==
    AllocateSized(r,
        IF best # 100 /\ best > input.pntg THEN Resize(cfg, sim, input, best) ELSE input,
        IF best = 100 /\ input.pntg < 100 /\ repart THEN Split(cfg, sim, r, input.pntg)
        ELSE sim)

AllocateNode ==
    LET At(r) == \/ /\ r = None
                    /\ pc' = "gather"
                    /\ UNCHANGED <<sim, cur, given>>
                 \/ /\ r # None
                    /\ AllocateOn(r, Head(given), NodeAt(sim, r).pntg)
    IN  /\ pc = "alloc"
        /\ given # <<>>
        /\ At(findBestFit(cfg, sim, Head(given), {}))
        /\ UNCHANGED <<cfg, decision, repart, session, org, retried, ts>>

\* The end of allocateFit.
AllocateDone ==
    /\ pc = "alloc"
    /\ given = <<>>
    /\ pc' = IF cur.rate + cur.add > TRP_SLACK THEN "gather" ELSE "tasks"
    /\ UNCHANGED <<cfg, decision, sim, repart, session, org, retried, cur, given, ts>>

\* The empty nodes are handed to readjust.
GatherEmpty ==
    /\ pc = "gather"
    /\ given' = ByPart(sim, SelectSeq(RefSeq(sim), LAMBDA r : IsEmpty(NodeAt(sim, r))))
    /\ cur' = IF cfg.intf THEN [cur EXCEPT !.rate = @ + cur.add, !.add = 0] ELSE cur
    /\ pc' = "saturate"
    /\ UNCHANGED <<cfg, decision, sim, repart, session, org, retried, ts>>

\* A loop of readjust is done, with what it had or with the rate.
ReadjustDone ==
    /\ \/ pc = "saturate" /\ cur.rate + cur.add <= TRP_SLACK
       \/ pc = "residue" /\ cur.rate <= TRP_SLACK
       \/ pc \in {"saturate", "residue"} /\ given = <<>>
    /\ pc' = "merge"
    /\ UNCHANGED <<cfg, decision, sim, repart, session, org, retried, cur, given, ts>>

\* Mutant: the node is not erased from the list.
KeepOrRevertNoErase(check, r, rate, trp, refs) ==
    /\ sim' = IF check.revert THEN revertNode(check.sim, r)
              ELSE AddMemory(check.sim, r, cur.id)
    /\ cur' = [cur EXCEPT !.rate = IF check.revert THEN rate
                                   ELSE Max({0, Reduced(rate, trp)})]
    /\ given' = refs
    /\ pc' = IF check.abort THEN "abort" ELSE pc

\* Node r was given a task in s: it is kept, with its memory, unless a
\* neighbour cannot live with it.  cur.add is 0 by now.
KeepOrRevert(check, r, rate, trp, refs) ==
    /\ sim' = IF check.revert THEN revertNode(check.sim, r)
              ELSE AddMemory(check.sim, r, cur.id)
    /\ cur' = [cur EXCEPT !.rate = IF check.revert THEN rate
                                   ELSE Max({0, Reduced(rate, trp)})]
    /\ given' = RemoveFirst(refs, r)
    /\ pc' = IF check.abort THEN "abort" ELSE pc

\* One round of the loop of readjust that fills nodes completely.
SaturateTask(cut, n, lat, trp, task) ==
    \/ /\ trp > 100 * cur.rate
       /\ pc' = "residue"
       /\ sim' = cut.sim
       /\ given' = cut.given
       /\ UNCHANGED cur
    \/ /\ trp <= 100 * cur.rate
       /\ task.batch = 0
       /\ pc' = "merge"
       /\ sim' = cut.sim
       /\ UNCHANGED <<cur, given>>
    \/ /\ trp <= 100 * cur.rate
       /\ task.batch # 0
       /\ ~Fits(cut.sim, cut.ref, cur.id)
       /\ sim' = cut.sim
       /\ given' = RemoveFirst(cut.given, cut.ref)
       /\ UNCHANGED <<cur, pc>>
    \/ /\ trp <= 100 * cur.rate
       /\ task.batch # 0
       /\ Fits(cut.sim, cut.ref, cur.id)
       /\ KeepOrRevert(
            checkNeedtoRevert(cfg,
              SetNode(cut.sim, cut.ref, [n EXCEPT !.occ = Full, !.duty = lat,
                                                  !.tasks = Append(@, task)]),
              cut.ref),
            cut.ref, cur.rate, task.trp, cut.given)

SaturateBatch(cut, n, batch, lat) ==
    SaturateTask(cut, n, lat, Throughput(batch, lat),
        adjustBatchSizetoNetBW(cfg,
            Task(cur.id, cur.rate, batch, Throughput(batch, lat)), cut.sim[cut.ref[1]]))

SaturateLatency(cut, n, batch) ==
    SaturateBatch(cut, n, batch, LatencyOn(cfg, cut.sim, n, cur.id, batch))

SaturateOn(cut, n) ==
    SaturateLatency(cut, n, IF cut.whole THEN cut.batch
                            ELSE Max({1, SaturatedBatch(cfg, cut.sim, n, cur.id)}))

SaturateCut(cut) == SaturateOn(cut, NodeAt(cut.sim, cut.ref))

SaturateNode ==
    /\ pc = "saturate"
    /\ cur.rate + cur.add > TRP_SLACK
    /\ given # <<>>
    /\ IF EstimateUndefined(cfg, cur.id, cur.rate)
         THEN Abort
         ELSE SaturateCut(CutWhole(cfg, sim, repart, given, cur.id, cur.rate))
    /\ UNCHANGED <<cfg, decision, repart, session, org, retried, ts>>

\* One round of the loop of readjust for what is left.  The duty cycle, and
\* then the occupancy, of the node are set before it is known whether the task
\* gets it.
ResidueTask(cut, rate, timed, busy, task) ==
    \/ /\ task.batch = 0
       /\ pc' = "merge"
       /\ sim' = SetNode(cut.sim, cut.ref, timed)
       /\ cur' = [cur EXCEPT !.rate = rate]
       /\ UNCHANGED given
    \/ /\ task.batch # 0
       /\ ~Fits(cut.sim, cut.ref, cur.id)
       /\ sim' = SetNode(cut.sim, cut.ref, busy)
       /\ cur' = [cur EXCEPT !.rate = rate]
       /\ given' = RemoveFirst(cut.given, cut.ref)
       /\ UNCHANGED pc
    \/ /\ task.batch # 0
       /\ Fits(cut.sim, cut.ref, cur.id)
       /\ KeepOrRevert(
            checkNeedtoRevert(cfg,
              SetNode(cut.sim, cut.ref, [busy EXCEPT !.tasks = Append(@, task)]), cut.ref),
            cut.ref, rate, task.trp, cut.given)

ResidueOccupancy(cut, rate, timed, task) ==
    ResidueTask(cut, rate, timed,
        IF task.batch = 0 THEN timed
        ELSE [timed EXCEPT !.occ =
                Occupancy(LatencyOn(cfg, cut.sim, timed, cur.id, task.batch), timed.duty)],
        task)

ResidueWith(cut, n, found) ==
    \/ /\ found.batch = 0
       /\ pc' = "merge"
       /\ sim' = cut.sim
       /\ UNCHANGED <<cur, given>>
    \/ /\ found.batch # 0
       /\ ResidueOccupancy(cut, found.rate,
            [n EXCEPT !.duty = FillTime(found.batch, found.rate)],
            adjustBatchSizetoNetBW(cfg,
              Task(cur.id, found.rate, found.batch, 100 * found.rate), cut.sim[cut.ref[1]]))

ResidueOn(cut, n) == ResidueWith(cut, n, ResidueBatch(cfg, cut.sim, n, cur.id, cur.rate))

ResidueCut(cut) == ResidueOn(cut, NodeAt(cut.sim, cut.ref))

FillResidue ==
    /\ pc = "residue"
    /\ cur.rate > TRP_SLACK
    /\ given # <<>>
    /\ IF EstimateUndefined(cfg, cur.id, cur.rate)
         THEN Abort
         ELSE ResidueCut(CutWhole(cfg, sim, repart, given, cur.id, cur.rate))
    /\ UNCHANGED <<cfg, decision, repart, session, org, retried, ts>>

\* The residue nodes of the task are merged; if that does not serve what is
\* left, time sharing is tried, unless the scheduler is self tuning.
MergeResidue ==
    LET Merged(merged) ==
          /\ sim' = merged.sim
          /\ cur' = [cur EXCEPT !.rate = merged.rate]
          /\ pc' = IF merged.ok THEN "tasks"
                   ELSE IF cfg.selfTuning THEN "failed" ELSE "timeshare"
          /\ given' = IF merged.ok THEN <<>>
                      ELSE TimeShareCandidates(merged.sim, cur.id, ts)
    IN  /\ pc = "merge"
        /\ \/ /\ MergeAborts(sim, cur.id, cur.rate)
              /\ pc' = "abort"
              /\ UNCHANGED <<sim, cur, given>>
           \/ /\ ~MergeAborts(sim, cur.id, cur.rate)
              /\ Merged(mergeResidue(cfg, sim, repart, cur))
        /\ UNCHANGED <<cfg, decision, repart, session, org, retried, ts>>

\* One round of allocateTimeShare.
AllocateTimeShare ==
    LET Share(r, share) ==
          /\ sim' = AddMemory(
                      SetNode(sim, r, ShareNode(cfg, sim, NodeAt(sim, r), cur, share)),
                      r, cur.id)
          /\ cur' = [cur EXCEPT !.rate =
                       Max({0, Reduced(@, Throughput(share.batch, share.duty))})]
        First(hosts) ==
          \/ /\ hosts = <<>>
             /\ pc' = "failed"
             /\ UNCHANGED <<sim, cur>>
          \/ /\ hosts # <<>>
             /\ Share(hosts[1], ShareOf(cfg, sim, NodeAt(sim, hosts[1]), cur))
             /\ UNCHANGED pc
    IN  /\ pc = "timeshare"
        /\ cur.rate + cur.add > TRP_SLACK
        /\ First(SelectSeq(given, LAMBDA r :
                   ShareOf(cfg, sim, NodeAt(sim, r), cur).batch # 0))
        /\ UNCHANGED <<cfg, decision, repart, session, org, retried, given, ts>>

TimeShareDone ==
    /\ pc = "timeshare"
    /\ cur.rate + cur.add <= TRP_SLACK
    /\ pc' = "tasks"
    /\ UNCHANGED <<cfg, decision, sim, repart, session, org, retried, cur, given, ts>>

(***************************************************************************)
(* The end of a round of incrementalScheduling.                            *)
(***************************************************************************)

\* The throughput a schedule has for model m.
Served(s, m) ==
    LET Of(n) == FoldLeft(LAMBDA sum, t : IF t.id = m THEN sum + t.trp ELSE sum,
                          0, n.tasks)
    IN  FoldLeft(LAMBDA sum, r : sum + Of(NodeAt(s, r)), 0, RefSeq(s))

\* Mutant: interference is not looked at once more.
StarvedNever == {}

\* The models that interference has left with less than 85% of their rate.
Starved ==
    {m \in DOMAIN org : cfg.intf /\ Served(sim, m) < 85 * org[m]}

\* The call is over and the scheduler forgets what it worked on.
Return(nodes) ==
    /\ decision' = nodes
    /\ sim' = <<>> /\ session' = <<>> /\ org' = <<>> /\ retried' = {}
    /\ cur' = NoTask /\ given' = <<>> /\ ts' = {}
    /\ pc' = "idle"
    /\ UNCHANGED <<cfg, repart>>

\* Success: copyToOutput makes the schedule the one to use.
Succeed ==
    /\ pc = "tasks" /\ session = <<>>
    /\ Starved = {}
    /\ Return([g \in DOMAIN sim |-> sim[g].nodes])

\* The starved models are scheduled once more.
Retry ==
    /\ pc = "tasks" /\ session = <<>>
    /\ Starved # {} /\ Starved \cap retried = {}
    /\ LET tasks == {[id |-> m, rate |-> org[m]] : m \in Starved}
       IN  /\ session' = SortSession(tasks)
           /\ org' = RatesOf(tasks)
    /\ retried' = retried \cup Starved
    /\ UNCHANGED <<cfg, decision, sim, repart, cur, given, ts, pc>>

\* Failure: the caller goes on with the schedule it has.
Fail ==
    /\ \/ pc = "failed"
       \/ pc = "tasks" /\ session = <<>> /\ Starved \cap retried # {}
    /\ Return(decision)

Step ==
    \/ AddNewModel \/ ReaddModel
    \/ AllocateNode \/ AllocateDone
    \/ GatherEmpty \/ SaturateNode \/ FillResidue \/ ReadjustDone
    \/ MergeResidue
    \/ AllocateTimeShare \/ TimeShareDone
    \/ Succeed \/ Retry \/ Fail

Next ==
    \/ \E tasks \in Sessions, rep \in BOOLEAN : runScheduling(tasks, rep)
    \/ Step

Spec == Init /\ [][Next]_vars

(***************************************************************************)
(* Properties.                                                             *)
(***************************************************************************)

Ids == 1 .. Len(GPUTypes)

TaskType == [id : Models, rate : Int, batch : 0 .. MAX_BATCH, trp : Nat]

NodeType(n, g) ==
    /\ n.id = g /\ n.type \in Range(Types) /\ n.pntg \in Parts /\ n.dedup \in {0, 1}
    /\ n.occ \in Nat /\ n.duty \in Nat
    /\ \A task \in Range(n.tasks) : task \in TaskType

\* The schedules are made of nodes that know the GPU they are on, and the rest
\* of the state is of the kinds that the loops of the scheduler expect.
TypeOK ==
    /\ cfg \in Configs
    /\ DOMAIN decision = Ids /\ \A g \in Ids : \A n \in Range(decision[g]) : NodeType(n, g)
    /\ DOMAIN sim \subseteq Ids
    /\ \A g \in DOMAIN sim : /\ sim[g].used \in Nat
                             /\ sim[g].loaded \subseteq Parts \X {0, 1}
                             /\ \A n \in Range(sim[g].nodes) : NodeType(n, g)
    /\ repart \in BOOLEAN
    /\ cur \in [id : Models \cup {0}, rate : Int, add : Nat]
    /\ retried \subseteq Models /\ DOMAIN org \subseteq Models
    /\ pc \in {"idle", "tasks", "alloc", "gather", "saturate", "residue", "merge",
               "timeshare", "failed", "abort"}

\* The schedule in use and the one being built.
Schedules == {decision} \cup
             (IF sim = <<>> THEN {} ELSE {[g \in DOMAIN sim |-> sim[g].nodes]})

\* Whatever has been split, resized, reverted or merged, the nodes of a GPU
\* always divide it, and no two of them have the same size and dedup_num,
\* which is all that tells them apart (scheduler_base.h:39).
WellPartitioned ==
    \A s \in Schedules : \A g \in DOMAIN s :
        /\ FoldLeft(LAMBDA sum, n : sum + n.pntg, 0, s[g]) = 100
        /\ \A i, j \in DOMAIN s[g] : i # j => ~isSameNode(s[g][i], s[g][j])

AsSim == [g \in Ids |-> [nodes |-> decision[g]]]

\* In a schedule in use, on every node: a request that waits for a whole duty
\* cycle and then for the batches of all models of the node is in time, to
\* within what the fixed-point numbers lose.  Under self tuning the code does
\* not see to it (findBestFit asks about the whole GPU before it is cut), and
\* under interference adjustResNode allows 5% more.
SLOKept ==
    \A g \in Ids : \A n \in Range(decision[g]) : \A t \in Range(n.tasks) :
        ~cfg.selfTuning => 100 * (LatencySum(cfg, AsSim, n) + n.duty)
                             <= (IF cfg.intf THEN 105 ELSE 100) * (SLO[t.id] + 10)

PartSizes(s) == [g \in DOMAIN s |-> [i \in DOMAIN s[g] |-> s[g][i].pntg]]

\* A call that may not repartition leaves every partition its size: the system
\* only has to move models.
PartitionsKept ==
    [][pc # "idle" /\ pc' = "idle" /\ ~repart => PartSizes(decision') = PartSizes(decision)]_vars

Shares(s, m) ==
    \E r \in Refs(s) : Holds(NodeAt(s, r), m) /\ Len(NodeAt(s, r).tasks) > 1

\* A schedule that is adopted has throughput for the rate of every model of
\* the last round: 85% under interference, and otherwise all but TRP_SLACK and
\* what each subtraction of a throughput from an int rate rounds off.  Without
\* interference this is promised only to the models that share no node: when
\* allocateTimeShare fits a node's tasks into a shorter duty cycle, it rounds
\* their batches down and nobody looks at the throughput that they lose.
RateServed ==
    [][pc = "tasks" /\ pc' = "idle" /\ decision' = [g \in DOMAIN sim |-> sim[g].nodes] =>
         \A m \in DOMAIN org :
           IF cfg.intf THEN Served(sim, m) >= 85 * org[m]
           ELSE \/ Shares(sim, m)
                \/ Served(sim, m) >= 100 * (org[m] - TRP_SLACK - Cardinality(Refs(sim)))]_vars

\* What the loop at pc has left to look at.
Remaining ==
    IF pc = "timeshare" THEN Cardinality({r \in Range(given) : ~Holds(NodeAt(sim, r), cur.id)})
    ELSE IF pc \in {"saturate", "residue"}
           THEN Len(given) + Len(SelectSeq(given, LAMBDA r : NodeAt(sim, r).pntg = 100))
    ELSE Len(given)

\* Every round of a loop leaves it less to look at, although readjust adds the
\* rest of a GPU that it cuts to its list: with the absence of deadlocks, every
\* call returns.
LoopsProgress ==
    [][pc' = pc /\ pc \in {"alloc", "saturate", "residue", "timeshare"}
         => Remaining' < Remaining]_vars
===============================================================================
