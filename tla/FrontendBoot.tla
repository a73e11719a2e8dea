---------------------------- MODULE FrontendBoot ----------------------------
(***************************************************************************)
(* The start of the frontend (frontend.cpp main and what it calls).        *)
(*                                                                         *)
(* main reads the configuration, describes every partition of every        *)
(* backend, and starts its threads one after the other: one per            *)
(* application, several per partition (they set the partition up, under    *)
(* initMtx), the monitor, the drop thread and the scheduler thread.  Two   *)
(* global flags tell main that a thread is ready; for the others it sleeps *)
(* or does not wait at all.  In between it boots the partitions of the     *)
(* initial plan, which is read from a file (mps_static) or computed        *)
(* (oracle).  Only then does it accept clients.                            *)
(*                                                                         *)
(* Every table that the threads share is a std::map of pointers: a look-up *)
(* of an entry that is not there yet is a null pointer.                    *)
(***************************************************************************)
EXTENDS Naturals, Sequences, FiniteSets, SequencesExt

CONSTANTS
    Apps,         \* the applications of the configuration
    ModelsOf,     \* the models each application's file names, in order
    Backends,     \* the connected backends, in order: [ngpus, sizes]
    Plans,        \* initial plans: rows [dev, cap, dedup, name]
    Modes,        \* values of the option "scheduler"
    Reserved,     \* the name of a row that keeps its partition empty
    THREAD_PER_TASK,
    Prompt        \* the threads that are assumed to have started before main
                  \* does its next step: some of "app", "monitor", "drop"

VARIABLES
    mode, plan,
    pc,           \* where main is
    left,         \* what main's current loop still has to do
    mNetNames,    \* the models, in order
    partitions,   \* PerDevMPSInfo: the proxy_infos, in order
    appThread,    \* of every application: "none", "new" or "ready"
    thread,       \* of every partition: how many batching threads it has, and
                  \* where the last one is (the others wait for tasks)
    initMtx,      \* held by the batching thread of this partition, or 0
    setUps,       \* how often ProxyBasicSetup ran for a partition
    ReqMtxVec,    \* the models that have a queue and its mutex
    outputs,      \* the partitions whose output threads are started
    finishedMPSProxyInit, READY_TO_EXEC, server,
    monitor, PerTaskArrivUpdateMtx,  \* the models whose rate has its mutex
    dropRatio,    \* what the drop thread has read
    netList,      \* PerProxyNetList: the models of a partition
    isSchedulable, isBooted, isConnected,
    state,        \* the state word of a partition's proxy
    LoadedModels

configVars == <<mode, plan>>
threadVars == <<appThread, thread, initMtx, setUps, ReqMtxVec, outputs, finishedMPSProxyInit,
                READY_TO_EXEC, server, monitor, PerTaskArrivUpdateMtx, dropRatio>>
proxyVars == <<netList, isSchedulable, isBooted, isConnected, state, LoadedModels>>
vars == <<configVars, pc, left, mNetNames, partitions, threadVars, proxyVars>>

-----------------------------------------------------------------------------
\* addtoNetNames: every model once.
addtoNetNames(names, more) == names \o SelectSeq(more, LAMBDA m : m \notin Range(names))

\* setupModelwithJSON, setupModelforSchduling: the models of all files.
AllNames == FoldLeft(addtoNetNames, <<>>, [i \in DOMAIN Apps |-> ModelsOf[Apps[i]]])

\* createProxyInfos, for one GPU: a size of 50 makes two partitions.
PartsOf(sizes) ==
    FoldLeft(LAMBDA s, c : s \o (IF c = 50 THEN <<[cap |-> c, dedup |-> 0], [cap |-> c, dedup |-> 1]>>
                                           ELSE <<[cap |-> c, dedup |-> 0]>>),
             <<>>, sizes)

\* createProxyInfos: the devices go on from the last backend, the partition
\* numbers start at 0 on every GPU.
ProxyInfos(first, b) ==
    LET p == PartsOf(b.sizes) IN
    [i \in 1 .. b.ngpus * Len(p) |->
        [dev |-> first + ((i - 1) \div Len(p)), num |-> (i - 1) % Len(p),
         cap |-> p[((i - 1) % Len(p)) + 1].cap, dedup |-> p[((i - 1) % Len(p)) + 1].dedup]]

\* configureProxys, for every backend.
AllProxyInfos ==
    FoldLeft(LAMBDA acc, b : [ngpus |-> acc.ngpus + b.ngpus,
                              infos |-> acc.infos \o ProxyInfos(acc.ngpus, b)],
             [ngpus |-> 0, infos |-> <<>>], Backends).infos

Index == DOMAIN AllProxyInfos

\* getProxyInfo: the first partition of that device, size and number.  It
\* aborts when there is none.
Matches(row) == {i \in DOMAIN partitions : /\ partitions[i].dev = row.dev
                                           /\ partitions[i].cap = row.cap
                                           /\ partitions[i].dedup = row.dedup}
Found(row) == Matches(row) # {}
getProxyInfo(row) == CHOOSE i \in Matches(row) : \A j \in Matches(row) : i <= j

Init ==
    /\ mode \in Modes /\ plan \in Plans
    /\ pc = "models" /\ left = <<>>
    /\ mNetNames = <<>> /\ partitions = <<>>
    /\ appThread = [a \in Range(Apps) |-> "none"]
    /\ thread = [i \in Index |-> [n |-> 0, at |-> "none"]]
    /\ initMtx = 0
    /\ setUps = [i \in Index |-> 0]
    /\ ReqMtxVec = {} /\ outputs = {}
    /\ finishedMPSProxyInit = FALSE /\ READY_TO_EXEC = FALSE /\ server = FALSE
    /\ monitor = "none" /\ PerTaskArrivUpdateMtx = {}
    /\ dropRatio = "none"
    /\ netList = [i \in Index |-> {}]
    /\ isSchedulable = [i \in Index |-> FALSE]
    /\ isBooted = [i \in Index |-> FALSE]
    /\ isConnected = [i \in Index |-> FALSE]
    /\ state = [i \in Index |-> "COLD"]
    /\ LoadedModels = [i \in Index |-> {}]

-----------------------------------------------------------------------------
(* main, in its order. *)

Goto(from, to) == pc = from /\ pc' = to

\* setupModelwithJSON.
SetupModels ==
    /\ Goto("models", "apps")
    /\ mNetNames' = AllNames
    /\ left' = Apps
    /\ UNCHANGED <<configVars, partitions, threadVars, proxyVars>>

\* configureAppSpec: a thread per application, and 500 ms for it to start.
AppsStarted == "app" \in Prompt => \A a \in Range(Apps) : appThread[a] # "new"

initAppThread ==
    /\ pc = "apps" /\ left # <<>>
    /\ AppsStarted
    /\ appThread' = [appThread EXCEPT ![Head(left)] = "new"]
    /\ left' = Tail(left)
    /\ UNCHANGED <<configVars, pc, mNetNames, partitions, thread, initMtx, setUps, ReqMtxVec,
                   outputs, finishedMPSProxyInit, READY_TO_EXEC, server, monitor,
                   PerTaskArrivUpdateMtx, dropRatio, proxyVars>>

\* The backends are connected and their partitions described.
ConfigureProxys ==
    /\ left = <<>> /\ AppsStarted
    /\ Goto("apps", "scheduler")
    /\ partitions' = AllProxyInfos
    /\ UNCHANGED <<configVars, left, mNetNames, threadVars, proxyVars>>

\* setSchedulingMode: an unknown mode ends the program.
setSchedulingMode ==
    /\ Goto("scheduler", IF mode \in {"mps_static", "oracle"} THEN "sbp" ELSE "exit")
    /\ UNCHANGED <<configVars, left, mNetNames, partitions, threadVars, proxyVars>>

\* setupSBPScheduler reads the scheduler's files (Planner has them fail).
setupScheduler ==
    /\ Goto("sbp", IF mode = "mps_static" THEN "mpsInfo" ELSE "initThreads")
    /\ UNCHANGED <<configVars, left, mNetNames, partitions, threadVars, proxyVars>>

\* setupMPSInfo looks every row of the plan up, and aborts on an unknown one.
setupMPSInfo ==
    /\ Goto("mpsInfo", IF \E r \in Range(plan) : ~Found(r) THEN "abort" ELSE "initThreads")
    /\ UNCHANGED <<configVars, left, mNetNames, partitions, threadVars, proxyVars>>

\* initProxyThreads: THREAD_PER_TASK threads for every partition.
initProxyThreads ==
    /\ Goto("initThreads", "proxyThreads")
    /\ left' = FlattenSeq([i \in DOMAIN partitions |-> [j \in 1 .. THREAD_PER_TASK |-> i]])
    /\ UNCHANGED <<configVars, mNetNames, partitions, threadVars, proxyVars>>

startThread(i) ==
    /\ thread' = [thread EXCEPT ![i] = [n |-> @.n + 1, at |-> "new"]]
    /\ pc' = "waitInit"
    /\ finishedMPSProxyInit' = FALSE

\* initProxyThread: one batching thread, and wait for its flag.
initProxyThread ==
    /\ pc = "proxyThreads" /\ left # <<>>
    /\ startThread(Head(left))
    /\ left' = Tail(left)
    /\ UNCHANGED <<configVars, mNetNames, partitions, appThread, initMtx, setUps, ReqMtxVec,
                   outputs, READY_TO_EXEC, server, monitor, PerTaskArrivUpdateMtx, dropRatio,
                   proxyVars>>

WaitForInit ==
    /\ Goto("waitInit", "proxyThreads")
    /\ finishedMPSProxyInit
    /\ UNCHANGED <<configVars, left, mNetNames, partitions, threadVars, proxyVars>>

\* initOutputThreads; initiateMonitoring, of whose threads only initMonitor
\* writes what others read.
StartThreads ==
    /\ left = <<>>
    /\ Goto("proxyThreads", "drop")
    /\ outputs' = DOMAIN partitions
    /\ monitor' = "new"
    /\ UNCHANGED <<configVars, left, mNetNames, partitions, appThread, thread, initMtx, setUps,
                   ReqMtxVec, finishedMPSProxyInit, READY_TO_EXEC, server,
                   PerTaskArrivUpdateMtx, dropRatio, proxyVars>>

\* initDropThread: unless the option is 0, a thread is started.  It gets the
\* address of a local variable.
initDropThread ==
    /\ Goto("drop", "dropReturn")
    /\ dropRatio' \in {"none", "unread"}
    /\ UNCHANGED <<configVars, left, mNetNames, partitions, appThread, thread, initMtx, setUps,
                   ReqMtxVec, outputs, finishedMPSProxyInit, READY_TO_EXEC, server, monitor,
                   PerTaskArrivUpdateMtx, proxyVars>>

\* initDropThread returns; initResultThreads and setupBackendProxyCtrls
\* change nothing that is modelled.
ReturnFromDrop ==
    /\ Goto("dropReturn", IF mode = "mps_static" THEN "readPlan" ELSE "oneshot")
    /\ "drop" \in Prompt => dropRatio # "unread"
    /\ UNCHANGED <<configVars, left, mNetNames, partitions, threadVars, proxyVars>>

\* The models a plan has for partition i.  A row may just reserve it.
ModelsFor(i) == {r.name : r \in {x \in Range(plan) : getProxyInfo(x) = i}} \ {Reserved}

\* readAndBoot, setupProxyTaskList: every partition with a model becomes
\* schedulable.
setupProxyTaskList ==
    /\ Goto("readPlan", "boot")
    /\ netList' = [i \in Index |-> ModelsFor(i)]
    /\ isSchedulable' = [i \in Index |-> netList'[i] # {}]
    /\ left' = SelectSeq([i \in Index |-> i], LAMBDA i : netList'[i] # {})
    /\ UNCHANGED <<configVars, mNetNames, partitions, threadVars, isBooted, isConnected,
                   state, LoadedModels>>

\* oneshotScheduling: setupAllTasks reads the rate of every model, the
\* scheduler finds a plan of the partitions that exist or fails; main goes on
\* in either case.
oneshotScheduling ==
    /\ pc = "oneshot"
    /\ "monitor" \in Prompt => monitor = "ready"
    /\ \/ /\ \A r \in Range(plan) : Found(r)
          /\ pc' = "boot"
          /\ left' = SelectSeq([i \in Index |-> i], LAMBDA i : ModelsFor(i) # {})
       \/ pc' = "startServer" /\ UNCHANGED left
    /\ UNCHANGED <<configVars, mNetNames, partitions, threadVars, proxyVars>>

\* bootProxy_sync: startProxy.
startProxy ==
    LET i == Head(left) IN
    /\ Goto("boot", "waitBoot")
    /\ left # <<>>
    /\ ~isConnected[i]
    /\ state' = [state EXCEPT ![i] = "BOOTING"]
    /\ UNCHANGED <<configVars, left, mNetNames, partitions, threadVars, netList,
                   isSchedulable, isBooted, isConnected, LoadedModels>>

\* Mutant: the proxy is not waited for.
RunningAnyhow(i) == TRUE

\* waitProxy(pPInfo, RUNNING).
Running(i) == state[i] = "RUNNING"

\* bootProxy_sync: waitProxy and connectProxy.  The oracle mode then loads
\* the partition's models (loadModel_sync) before it boots the next one.
connectProxy ==
    LET i == Head(left) IN
    /\ pc = "waitBoot"
    /\ Running(i)
    /\ isBooted' = [isBooted EXCEPT ![i] = TRUE]
    /\ isConnected' = [isConnected EXCEPT ![i] = TRUE]
    /\ IF mode = "oracle"
         THEN /\ pc' = "waitLoad"
              /\ state' = [state EXCEPT ![i] = "LOADING"]
              /\ LoadedModels' = [LoadedModels EXCEPT ![i] = ModelsFor(i)]
              /\ UNCHANGED left
         ELSE pc' = "boot" /\ left' = Tail(left) /\ UNCHANGED <<state, LoadedModels>>
    /\ UNCHANGED <<configVars, mNetNames, partitions, threadVars, netList, isSchedulable>>

\* loadModel_sync waits until the proxy says it is RUNNING again.
loadModel_sync ==
    /\ Goto("waitLoad", "boot")
    /\ Running(Head(left))
    /\ left' = Tail(left)
    /\ UNCHANGED <<configVars, mNetNames, partitions, threadVars, proxyVars>>

\* loadAllProxys requests the loads and waits for RUNNING, which the proxies
\* already are; applyRouting_sync installs the computed plan.
Loaded ==
    /\ left = <<>>
    /\ Goto("boot", "startServer")
    /\ \A i \in Index : netList[i] # {} => Running(i)
    /\ IF mode = "oracle"
         THEN /\ netList' = [i \in Index |-> ModelsFor(i)]
              /\ isSchedulable' = [i \in Index |-> ModelsFor(i) # {}]
              /\ UNCHANGED LoadedModels
         ELSE /\ LoadedModels' = netList
              /\ UNCHANGED <<netList, isSchedulable>>
    /\ UNCHANGED <<configVars, left, mNetNames, partitions, threadVars, isBooted, isConnected, state>>

\* initServerThread, and wait for its flag.
initServerThread ==
    /\ Goto("startServer", "waitServer")
    /\ READY_TO_EXEC' = FALSE
    /\ server' = TRUE
    /\ UNCHANGED <<configVars, left, mNetNames, partitions, appThread, thread, initMtx, setUps,
                   ReqMtxVec, outputs, finishedMPSProxyInit, monitor, PerTaskArrivUpdateMtx,
                   dropRatio, proxyVars>>

receiveClients ==
    /\ Goto("waitServer", "serve")
    /\ READY_TO_EXEC
    /\ UNCHANGED <<configVars, left, mNetNames, partitions, threadVars, proxyVars>>

MainStep ==
    \/ SetupModels \/ initAppThread \/ ConfigureProxys
    \/ setSchedulingMode \/ setupScheduler \/ setupMPSInfo
    \/ initProxyThreads \/ initProxyThread \/ WaitForInit \/ StartThreads
    \/ initDropThread \/ ReturnFromDrop \/ setupProxyTaskList \/ oneshotScheduling
    \/ startProxy \/ connectProxy \/ loadModel_sync \/ Loaded
    \/ initServerThread \/ receiveClients

-----------------------------------------------------------------------------
(* The threads main has started. *)

mainVars == <<configVars, pc, left, mNetNames, partitions, proxyVars>>

\* initApp makes the queue, the mutex and the condition variable.
initApp(a) ==
    /\ appThread[a] = "new"
    /\ appThread' = [appThread EXCEPT ![a] = "ready"]
    /\ UNCHANGED <<mainVars, thread, initMtx, setUps, ReqMtxVec, outputs, finishedMPSProxyInit,
                   READY_TO_EXEC, server, monitor, PerTaskArrivUpdateMtx, dropRatio>>

\* initProxy takes initMtx.
LockInit(i) ==
    /\ thread[i].at = "new"
    /\ initMtx = 0
    /\ initMtx' = i
    /\ thread' = [thread EXCEPT ![i].at = "locked"]
    /\ UNCHANGED <<mainVars, appThread, setUps, ReqMtxVec, outputs, finishedMPSProxyInit,
                   READY_TO_EXEC, server, monitor, PerTaskArrivUpdateMtx, dropRatio>>

isSetup(i) == setUps[i] > 0

\* initProxy: the first thread calls ProxyBasicSetup, which makes the tables
\* of the partition and the queues of models that have none.
ProxyBasicSetup(i) ==
    /\ thread[i].at = "locked"
    /\ IF isSetup(i)
         THEN UNCHANGED <<setUps, ReqMtxVec>>
         ELSE /\ setUps' = [setUps EXCEPT ![i] = @ + 1]
              /\ ReqMtxVec' = ReqMtxVec \cup Range(mNetNames)
    /\ initMtx' = 0
    /\ thread' = [thread EXCEPT ![i].at = "unlocked"]
    /\ UNCHANGED <<mainVars, appThread, outputs, finishedMPSProxyInit, READY_TO_EXEC, server,
                   monitor, PerTaskArrivUpdateMtx, dropRatio>>

\* Mutant: only the thread that sets its partition up tells main.
FinishInitFirst(i) ==
    /\ thread[i].at = "unlocked"
    /\ finishedMPSProxyInit' = (finishedMPSProxyInit \/ thread[i].n = 1)
    /\ thread' = [thread EXCEPT ![i].at = "batching"]
    /\ UNCHANGED <<mainVars, appThread, initMtx, setUps, ReqMtxVec, outputs, READY_TO_EXEC,
                   server, monitor, PerTaskArrivUpdateMtx, dropRatio>>

\* initProxy tells main, and goes on to wait for tasks.
FinishInit(i) ==
    /\ thread[i].at = "unlocked"
    /\ finishedMPSProxyInit' = TRUE
    /\ thread' = [thread EXCEPT ![i].at = "batching"]
    /\ UNCHANGED <<mainVars, appThread, initMtx, setUps, ReqMtxVec, outputs, READY_TO_EXEC,
                   server, monitor, PerTaskArrivUpdateMtx, dropRatio>>

\* initMonitor: initReqRate for every model.
initMonitor ==
    /\ monitor = "new"
    /\ monitor' = "ready"
    /\ PerTaskArrivUpdateMtx' = Range(mNetNames)
    /\ UNCHANGED <<mainVars, appThread, thread, initMtx, setUps, ReqMtxVec, outputs,
                   finishedMPSProxyInit, READY_TO_EXEC, server, dropRatio>>

\* initLazyDrop reads the ratio: garbage once main has left the function.
ReadDropRatio ==
    /\ dropRatio = "unread"
    /\ dropRatio' = IF pc = "dropReturn" THEN "given" ELSE "garbage"
    /\ UNCHANGED <<mainVars, appThread, thread, initMtx, setUps, ReqMtxVec, outputs,
                   finishedMPSProxyInit, READY_TO_EXEC, server, monitor, PerTaskArrivUpdateMtx>>

initServer ==
    /\ server /\ ~READY_TO_EXEC
    /\ READY_TO_EXEC' = TRUE
    /\ UNCHANGED <<mainVars, appThread, thread, initMtx, setUps, ReqMtxVec, outputs,
                   finishedMPSProxyInit, server, monitor, PerTaskArrivUpdateMtx, dropRatio>>

\* The proxy process has started, or has loaded what it was told to load.
ProxyRuns(i) ==
    /\ state[i] \in {"BOOTING", "LOADING"}
    /\ state' = [state EXCEPT ![i] = "RUNNING"]
    /\ UNCHANGED <<configVars, pc, left, mNetNames, partitions, threadVars, netList,
                   isSchedulable, isBooted, isConnected, LoadedModels>>

InitProxy(i) == LockInit(i) \/ ProxyBasicSetup(i) \/ FinishInit(i)

Next ==
    \/ MainStep
    \/ \E a \in Range(Apps) : initApp(a)
    \/ \E i \in Index : InitProxy(i) \/ ProxyRuns(i)
    \/ initMonitor \/ ReadDropRatio \/ initServer

-----------------------------------------------------------------------------
(* No two partitions have one address on a backend (device and number), or  *)
(* one name in a plan (device, size and copy), and each is set up at most   *)
(* once (createProxyInfos, initProxy).                                      *)
SetUpOnce ==
    /\ \A i, j \in DOMAIN partitions :
          i # j => /\ <<partitions[i].dev, partitions[i].num>> # <<partitions[j].dev, partitions[j].num>>
                   /\ <<partitions[i].dev, partitions[i].cap, partitions[i].dedup>>
                        # <<partitions[j].dev, partitions[j].cap, partitions[j].dedup>>
    /\ \A i \in Index : setUps[i] <= 1

(* Whatever a running thread may look up is there: the tables of a          *)
(* partition for its batching and output threads and for the scheduler, the *)
(* rate of a model for oneshotScheduling, the queues of models and          *)
(* applications for the handlers of clients; and the drop thread has read   *)
(* its ratio while it was there.                                            *)
EntriesExist ==
    /\ \A i \in Index : (i \in outputs \/ thread[i].at = "batching" \/ server) => setUps[i] > 0
    /\ (mode = "oracle" /\ pc \in {"boot", "startServer"})
          => Range(mNetNames) \subseteq PerTaskArrivUpdateMtx
    /\ pc = "serve" => /\ \A a \in Range(Apps) : appThread[a] = "ready"
                       /\ UNION {Range(ModelsOf[a]) : a \in Range(Apps)} \subseteq ReqMtxVec
    /\ dropRatio # "garbage"

(* When clients are accepted, every partition that a batch may be sent to   *)
(* is booted, connected and running, and every model of the plan has been   *)
(* sent to one (readAndBoot, oneshotScheduling).                            *)
ReadyToServe ==
    pc = "serve" =>
        /\ \A i \in Index : isSchedulable[i] => /\ isBooted[i] /\ isConnected[i]
                                                /\ state[i] = "RUNNING"
                                                /\ netList[i] # {}
                                                /\ netList[i] \subseteq LoadedModels[i]
        /\ (mode = "mps_static" \/ \E i \in Index : isSchedulable[i])
              => \A r \in Range(plan) :
                    r.name = Reserved \/ \E i \in Index : r.name \in netList[i] /\ isSchedulable[i]

(* With a known mode and a plan that fits the partitions, the frontend      *)
(* gets to accepting clients: no thread waits for ever for a flag.          *)
BootCompletes ==
    (mode \in {"mps_static", "oracle"}
        /\ \A r \in Range(plan) : \E i \in Index :
              AllProxyInfos[i].dev = r.dev /\ AllProxyInfos[i].cap = r.cap
                /\ AllProxyInfos[i].dedup = r.dedup)
      => <>(pc = "serve")
=============================================================================
