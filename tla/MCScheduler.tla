----------------------------- MODULE MCScheduler -----------------------------
(***************************************************************************)
(* Small instances of the two halves of the scheduler, checked side by     *)
(* side: a behaviour picks one and leaves the other alone, so that their   *)
(* state spaces add instead of multiplying.                                *)
(*   epoch   EpochScheduler: two models, one of which may be without       *)
(*           requests at first;                                            *)
(*   search  ElasticPartitioning: three models on two GPUs of two types.   *)
(***************************************************************************)
EXTENDS EpochScheduler, SequencesExt, TLC

VARIABLES part,
    cfg, decision, sim, repart, tasksLeft, org, retried, cur, given, ts, at

-----------------------------------------------------------------------------
(* Epochs. *)

\* Rates of 0, 60, 62 and 240 requests a second: 62 is within the thresholds
\* of 60, and 240 is past the rate from which the room is smaller.
MCCounts == {0, 30, 31, 120}
MCInitRates == {[m \in Models |-> 600]} \cup {[m \in Models |-> IF m = 1 THEN 2400 ELSE 0]}

-----------------------------------------------------------------------------
(* Searches. *)

SearchModels == {1, 2, 3}
MaxBatch == 6
MCTypes == <<"2080ti", "3080">>
MCGPUTypes == <<"2080ti", "3080">>
MCAvailParts == <<100, 80, 60, 50, 40, 20>>
MCSLO == [m \in SearchModels |-> CASE m = 1 -> 6000 [] m = 2 -> 10000 [] m = 3 -> 14000]

\* A fixed cost, and a cost of each request that shrinks with the partition
\* until the model cannot use more of the GPU.
Fixed == [m \in SearchModels |-> CASE m = 1 -> 4 [] m = 2 -> 10 [] m = 3 -> 6]
PerRequest == [m \in SearchModels |-> CASE m = 1 -> 2 [] m = 2 -> 3 [] m = 3 -> 6]
Knee  == [m \in SearchModels |-> CASE m = 1 -> 50 [] m = 2 -> 60 [] m = 3 -> 100]

MCPureLatency ==
    [x \in Range(MCTypes) \X SearchModels \X (1 .. MaxBatch) \X Range(MCAvailParts) |->
       LET m == x[2]
           used == IF x[4] < Knee[m] THEN x[4] ELSE Knee[m]
       IN  (IF x[1] = "3080" THEN 0 ELSE 100)
             + 100 * Fixed[m] + (x[3] * PerRequest[m] * 10000) \div used]

MCBatchLatency == [x \in SearchModels \X (1 .. MaxBatch) |-> 50 * x[2]]
MCInterference ==
    [x \in SearchModels \X SearchModels |-> IF x[1] = x[2] THEN 120 ELSE 110 + 10 * x[2]]
MCLatencyRatio == 110
MCTotalMemory == [t \in Range(MCTypes) |-> IF t = "2080ti" THEN 11000 ELSE 10200]
MCModelMemory == [m \in SearchModels |-> CASE m = 1 -> 50 [] m = 2 -> 1820 [] m = 3 -> 2920]
MCRequestSize == [m \in SearchModels |-> m]

Config(p, i, s, n, d) == [usePart |-> p, intf |-> i, selfTuning |-> s, nlc |-> n, garbage |-> d]

MCConfigs == {Config(TRUE, TRUE, FALSE, FALSE, 0), Config(TRUE, FALSE, FALSE, TRUE, 0),
              Config(TRUE, FALSE, TRUE, TRUE, 0), Config(FALSE, FALSE, FALSE, TRUE, 4000)}

Session(f) == {[id |-> m, rate |-> f[m]] : m \in {x \in DOMAIN f : f[x] # 0}}
MCSessions == {Session(f) : f \in {
    <<60, 150, 20>>, <<150, 60, 20>>, <<60, 20, 150>>, <<60, 20, 0>>}}

EP == INSTANCE ElasticPartitioning WITH
    Models <- SearchModels, Types <- MCTypes, GPUTypes <- MCGPUTypes,
    AvailParts <- MCAvailParts, MAX_BATCH <- MaxBatch, SLO <- MCSLO,
    PureLatency <- MCPureLatency, BatchLatency <- MCBatchLatency,
    Interference <- MCInterference, LatencyRatio <- MCLatencyRatio,
    TotalMemory <- MCTotalMemory, ModelMemory <- MCModelMemory, PartMemory <- 1230,
    RequestSize <- MCRequestSize, NetLimit <- 1500, MaxModel <- 3,
    Configs <- MCConfigs, Sessions <- MCSessions,
    session <- tasksLeft, pc <- at

ASSUME SearchConfigured == EP!Configured

epVars == <<cfg, decision, sim, repart, tasksLeft, org, retried, cur, given, ts, at>>

-----------------------------------------------------------------------------
(* One of the two; the other stays in one of its initial states. *)
MCInit ==
    /\ part \in {"epoch", "search"}
    /\ Init /\ EP!Init
    /\ part = "epoch" => cfg.usePart /\ cfg.intf
    /\ part = "search" => configured = NGPUs /\ \A m \in Models : rate[m] # 0

EpochStep == part = "epoch" /\ Next /\ UNCHANGED <<part, epVars>>
SearchStep == part = "search" /\ EP!Next /\ UNCHANGED <<part, vars>>

(* The server is fair.  This says nothing of a search, all of whose         *)
(* properties are safety: there the server rests, and so does liveness.     *)
MCSpec ==
    /\ MCInit /\ [][EpochStep \/ SearchStep]_<<part, vars, epVars>>
    /\ WF_vars(Server)

-----------------------------------------------------------------------------
(* The nodes of a GPU always divide it, and differ in size or dedup_num     *)
(* (makeEmptyNode, revertNode, mergeResidue).                                   *)
WellPartitioned == EP!WellPartitioned

(* In a schedule in use every request is in time, on every node             *)
(* (findBestFit, adjustResNode, allocateTimeShare).                         *)
SLOKept == EP!SLOKept

(* A call that may not repartition leaves every partition its size          *)
(* (runScheduling).                                                         *)
PartitionsKept == EP!PartitionsKept

(* A schedule that is adopted has throughput for the rates of its session   *)
(* (elasticPartitioning, readjust, allocateTimeShare).                      *)
RateServed == EP!RateServed

(* Every round of a loop leaves it less to look at (readjust,               *)
(* allocateTimeShare).                                                      *)
LoopsProgress == EP!LoopsProgress
===============================================================================
