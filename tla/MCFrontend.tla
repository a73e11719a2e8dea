----------------------------- MODULE MCFrontend -----------------------------
(***************************************************************************)
(* Model checking of the parts around the request path: the load balancer, *)
(* the sessions of clients, the start of the frontend, the plan it starts  *)
(* from and the performance model of the schedulers.  A behaviour picks    *)
(* one and leaves the others alone, so that their state spaces add.        *)
(***************************************************************************)
EXTENDS LoadBalancer, Sequences, SequencesExt, TLC

VARIABLES part,
    AppSpecVec, job, sender, s_count, killed, gp_reqStartTime, gp_reqEndTime, replies, closed, toServer, toClient,
    handler, instances, work, PerAppQueue,
    mode, plan, pc, left, mNetNames, partitions, appThread, thread, initMtx, setUps,
    ReqMtxVec, outputs, finishedMPSProxyInit, READY_TO_EXEC, server, monitor,
    PerTaskArrivUpdateMtx, dropRatio, netList, isSchedulable, isBooted, isConnected,
    state, LoadedModels,
    opts, planner, typeToNum, availParts, memSize, cases, sim, tried, file, rows,
    lines, perModelLatencyTable, perModelBatchVec, estimate

\* One model (two models share no state, since their keys differ) on three
\* partitions of one size that only their device or number tell apart.
MCModels == {1}
MCPartitions == {[gpu |-> 0, part |-> 40, dedup |-> 0],
                 [gpu |-> 1, part |-> 40, dedup |-> 0],
                 [gpu |-> 0, part |-> 40, dedup |-> 1]}
MCCosts == {1, 3}

\* game has two inputs and feeds several models from one of them; traffic has
\* a chain that forks; the last file cannot be read.
In(id, out) == [ID |-> id, InputType |-> "FP32", output |-> out]
Model(id, in, out) == [ID |-> id, input |-> in, output |-> out]
Files == <<
    [name |-> "game", Input |-> <<In(0, <<4>>), In(1, <<2, 3>>)>>,
     Models |-> <<Model(2, <<1>>, <<5>>), Model(3, <<1>>, <<5>>), Model(4, <<0>>, <<5>>)>>,
     Output |-> <<[ID |-> 5, input |-> <<2, 3, 4>>]>>],
    [name |-> "traffic", Input |-> <<In(0, <<1>>)>>,
     Models |-> <<Model(1, <<0>>, <<2, 3>>), Model(2, <<1>>, <<4>>), Model(3, <<1>>, <<4>>)>>,
     Output |-> <<[ID |-> 4, input |-> <<2, 3>>]>>],
    [name |-> "bert", Input |-> <<[ID |-> 0, InputType |-> "FP16", output |-> <<1>>]>>,
     Models |-> <<Model(1, <<0>>, <<2>>)>>, Output |-> <<[ID |-> 2, input |-> <<1>>]>>] >>

\* Besides the clients that do as they are told: one without the file of
\* rates it needs, one whose file is empty, one with a strange distribution,
\* and one with fewer images than it draws from.
Run(task, n) == [task |-> task, requests |-> n, dist |-> "uni", images |-> 4,
                 flux |-> "off", rates |-> <<>>]
Fluctuating(j, rates) == [j EXCEPT !.dist = "exp", !.flux = "file", !.rates = rates]

CS == INSTANCE ClientSession WITH
    Config <- Files, g_batchSize <- 2, BATCH_BUFFER <- 2,
    Jobs <- {<<Run("game", 2)>>, <<Run("traffic", 1), Run("game", 1)>>,
             <<Run("bert", 1), Run("game", 1)>>,
             <<Fluctuating(Run("traffic", 2), <<3, 0>>)>>,
             <<Fluctuating(Run("traffic", 2), <<>>)>>,
             <<[Run("traffic", 1) EXCEPT !.flux = "no_file"]>>,
             <<[Run("traffic", 1) EXCEPT !.dist = "zipf"]>>,
             <<[Run("traffic", 2) EXCEPT !.images = 3]>>}

\* Two backends, one with a GPU that has two partitions of one size.
FB == INSTANCE FrontendBoot WITH
    Apps <- <<"game", "traffic">>,
    ModelsOf <- [game |-> <<"m1", "m2">>, traffic |-> <<"m2", "m3">>],
    Backends <- <<[ngpus |-> 1, sizes |-> <<100, 50>>], [ngpus |-> 1, sizes |-> <<50>>]>>,
    Plans <- {<<[dev |-> 0, cap |-> 50, dedup |-> 1, name |-> "m1"],
                [dev |-> 0, cap |-> 50, dedup |-> 0, name |-> "reserved"],
                [dev |-> 1, cap |-> 50, dedup |-> 0, name |-> "m3"],
                [dev |-> 1, cap |-> 50, dedup |-> 0, name |-> "m2"]>>,
              <<[dev |-> 2, cap |-> 100, dedup |-> 0, name |-> "m1"]>>},
    Modes <- {"mps_static", "oracle", "no"}, Reserved <- "reserved",
    THREAD_PER_TASK <- 2, Prompt <- {"app", "monitor", "drop"}

\* Two kinds of GPU; the models of the tasks fit on one of them alone, or on
\* both.  The backends offer what backend.cpp says.
Gpus(type, num) == [type |-> type, num |-> num]
Call(full, gpus, usePart, unreadable) ==
    [full |-> full, unreadable |-> unreadable, gpus |-> gpus, usePart |-> usePart,
     batchFiles |-> <<"1_28_28.txt", "3_224_224.txt", "3_300_300.txt">>,
     devices |-> <<[type |-> 2, mem |-> 10], [type |-> 1, mem |-> 11]>>,
     mems |-> <<[name |-> "vgg16", mem |-> 6], [name |-> "bert", mem |-> 5]>>,
     numTasks |-> 2, tasks |-> <<1, 2, 0>>]

AVAIL_SIZES == <<20, 40, 50, 60, 80, 100>>

PL == INSTANCE Planner WITH
    pc <- planner,
    Options <- {Call(TRUE, <<Gpus(1, 2)>>, TRUE, {}), Call(TRUE, <<Gpus(1, 2)>>, FALSE, {}),
                Call(FALSE, <<Gpus(2, 1), Gpus(1, 1)>>, TRUE, {}),
                Call(FALSE, <<Gpus(1, 1)>>, TRUE, {}), Call(FALSE, <<Gpus(1, 1)>>, TRUE, {"mem"}),
                [Call(FALSE, <<Gpus(1, 1)>>, TRUE, {}) EXCEPT !.batchFiles = <<"2_2_2.txt">>]},
    IDtoModelName <- <<"lenet1", "vgg16", "bert">>, MAX_BATCH <- 32,
    Partitions <- LET infos == FB!ProxyInfos(0, [ngpus |-> 2, sizes |-> AVAIL_SIZES])
                  IN  {[dev |-> infos[i].dev, cap |-> infos[i].cap, dedup |-> infos[i].dedup] :
                       i \in DOMAIN infos}

\* Every profile has three batches of two models on three parts.  The part in
\* the middle is at times as slow as the smallest, at times as fast as the
\* largest.
Grid(model, latency) ==
    FlattenSeq([i \in 1 .. 3 |-> [j \in 1 .. 3 |->
        [model |-> model, part |-> <<20, 50, 100>>[j], batch |-> <<1, 3, 8>>[i],
         latency |-> latency[i][j]]]])
Slower(row, by) == [j \in 1 .. 3 |-> row[j] + by]
Shapes == {<<4, 2, 2>>, <<4, 4, 2>>, <<5, 3, 1>>}

MCProfiles == {Grid("lenet1", <<a, Slower(b, 2), Slower(b, 6)>>)
                 \o Grid("bert", <<b, Slower(b, 1), Slower(a, 4)>>) : a, b \in Shapes}

PM == INSTANCE PerfModel WITH
    answer <- estimate,
    MAX_BATCH <- 8,
    Profiles <- MCProfiles,
    Utils <- [k \in {"lenet1", "bert", "new"} \X {1, 2, 4, 8} |->
                [l2 |-> 10 * k[2], dram |-> IF k[1] = "bert" THEN 50 - 3 * k[2] ELSE 5 * k[2]]],
    IntModelConsts <- [l2_my |-> 11, l2_your |-> 71, dram_my |-> 35, dram_your |-> 8, const |-> 89],
    Queried <- {[model |-> m, part |-> p, batch |-> 0] : m \in {"lenet2"}, p \in {20, 50, 100}}
                 \cup {[model |-> m, part |-> 50, batch |-> 0] : m \in {"bert", "new"}},
    Lenets <- {"lenet2"}

lbVars == <<credit, curr, minCredit, keysOf, routed, asking, updates, pending, answer>>
csVars == <<AppSpecVec, job, sender, s_count, killed, gp_reqStartTime, gp_reqEndTime, replies, closed, toServer, toClient,
            handler, instances, work, PerAppQueue>>
fbVars == <<mode, plan, pc, left, mNetNames, partitions, appThread, thread, initMtx, setUps,
            ReqMtxVec, outputs, finishedMPSProxyInit, READY_TO_EXEC, server, monitor,
            PerTaskArrivUpdateMtx, dropRatio, netList, isSchedulable, isBooted, isConnected,
            state, LoadedModels>>
plVars == <<opts, planner, typeToNum, availParts, memSize, cases, sim, tried, file, rows>>
pmVars == <<lines, perModelLatencyTable, perModelBatchVec, estimate>>
allVars == <<part, lbVars, csVars, fbVars, plVars, pmVars>>

InitAll ==
    /\ part \in {"balancer", "session", "boot", "plan", "profile"}
    /\ Init /\ CS!Init /\ FB!Init /\ PL!Init /\ PM!Init
    /\ part # "session" => job[1].task = "game"
    /\ part # "boot" => mode = "oracle" /\ Len(plan) = 1
    /\ part # "plan" => opts.unreadable # {}
    /\ part # "profile" => lines = CHOOSE l \in MCProfiles : TRUE

Balance == part = "balancer" /\ Next /\ UNCHANGED <<part, csVars, fbVars, plVars, pmVars>>

InSession == part = "session" /\ UNCHANGED <<part, lbVars, fbVars, plVars, pmVars>>
Sender(c) == c \in DOMAIN job /\ CS!SenderStep(c) /\ InSession
Receiver(c) == c \in DOMAIN job /\ CS!recvRequest(c) /\ InSession
Handler(c) == c \in DOMAIN job /\ CS!HandlerStep(c) /\ InSession
Execute == CS!ExecStep /\ InSession
Reply(i) == CS!ReplyStep(i) /\ InSession

InBoot == part = "boot" /\ UNCHANGED <<part, lbVars, csVars, plVars, pmVars>>
Main == FB!MainStep /\ InBoot
AppThread(a) == FB!initApp(a) /\ InBoot
ProxyThread(i) == FB!InitProxy(i) /\ InBoot
Proxy(i) == FB!ProxyRuns(i) /\ InBoot
MonitorThread == FB!initMonitor /\ InBoot
DropThread == FB!ReadDropRatio /\ InBoot
ServerThread == FB!initServer /\ InBoot

Plan == part = "plan" /\ PL!Next /\ UNCHANGED <<part, lbVars, csVars, fbVars, pmVars>>

Estimate == part = "profile" /\ PM!Next /\ UNCHANGED <<part, lbVars, csVars, fbVars, plVars>>

NextAll ==
    \/ Balance \/ Plan \/ Estimate
    \/ \E c \in {1, 2} : Sender(c) \/ Receiver(c) \/ Handler(c)
    \/ Execute
    \/ \E i \in {1, 2} : Reply(i)
    \/ Main
    \/ \E a \in {"game", "traffic"} : AppThread(a)
    \/ \E i \in 1 .. 5 : ProxyThread(i) \/ Proxy(i)
    \/ MonitorThread \/ DropThread \/ ServerThread

(* Every thread that can go on does, and every queued request is executed   *)
(* in the end (BatchPipeline shows it).                                     *)
LiveSpec ==
    /\ InitAll /\ [][NextAll]_allVars
    /\ \A c \in {1, 2} : WF_allVars(Sender(c)) /\ WF_allVars(Receiver(c)) /\ WF_allVars(Handler(c))
    /\ WF_allVars(Execute)
    /\ \A i \in {1, 2} : WF_allVars(Reply(i))
    /\ WF_allVars(Main)
    /\ \A a \in {"game", "traffic"} : WF_allVars(AppThread(a))
    /\ \A i \in 1 .. 5 : WF_allVars(ProxyThread(i)) /\ WF_allVars(Proxy(i))
    /\ WF_allVars(MonitorThread) /\ WF_allVars(DropThread) /\ WF_allVars(ServerThread)

-----------------------------------------------------------------------------
(* A client gets one reply per request, when all its models have run        *)
(* (handleRequest, isFinished, initApp, recvRequest).                       *)
AnsweredOnce == part = "session" => CS!AnsweredOnce

(* Clients of a known application end, and so do their handlers.            *)
SessionEnds == part = "session" => CS!SessionEnds

(* The start of the frontend is in order: partitions have distinct          *)
(* addresses and are set up once (createProxyInfos, initProxy), no thread   *)
(* looks up what is not there yet, and clients are accepted only when the   *)
(* planned partitions are running (readAndBoot, oneshotScheduling).         *)
BootSafe == part = "boot" => FB!SetUpOnce /\ FB!EntriesExist /\ FB!ReadyToServe

(* A plan the frontend reads can be carried out, and the full search tries  *)
(* every cut before it gives up (writeSchedulingResults, addResults,        *)
(* resetScheduler, initDevMems, ReturnNodeList).                            *)
PlansSound == part = "plan" => PL!PlanCarriedOut /\ PL!SearchExhaustive

(* Latencies and slow-downs between the profiled ones are estimated between *)
(* them, a larger part is not estimated slower, and to ask changes nothing  *)
(* (getLatency, getBatchPartInterpolatedLatency, getInterference).          *)
EstimatesSound ==
    part = "profile" => PM!LatencySound /\ PM!InterferenceSound /\ PM!LargerNotSlower

(* The start of the frontend comes to its end.                              *)
BootCompletes == part = "boot" => FB!BootCompletes
=============================================================================
