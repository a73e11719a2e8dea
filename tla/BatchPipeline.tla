--------------------------- MODULE BatchPipeline ---------------------------
(***************************************************************************)
(* The request pipeline of the frontend, from a client's request to its    *)
(* reply, with the backend's data channel and the GPU proxy it feeds:      *)
(*                                                                         *)
(*   handleRequest -> ReqListHashTable[model] -> initProxy (batching)      *)
(*     -> PerProxyOutputQueue and the data channel -> backend in-thread    *)
(*     -> proxy process -> backend out-thread -> initOutput -> client      *)
(*                                                                         *)
(* The scheduler thread (initServer) fills the batch list of each proxy    *)
(* and, when the routing changes, starts unloadModel_async threads that    *)
(* wait for the pipeline to drain before they unload a model.              *)
(*                                                                         *)
(* A request is a pair <<task, node>>: the client task it belongs to and   *)
(* its node (cgid) in the application's computation graph.  Tensors are    *)
(* left out; a batch is its model and the requests in it.                  *)
(***************************************************************************)
EXTENDS Naturals, Sequences, FiniteSets, SequencesExt

CONSTANTS
    Proxies,      \* the GPU partitions (proxy_info objects)
    Models,       \* the networks that can be loaded
    Batchers,     \* the initProxy threads of all proxies
    Outputs,      \* the initOutput threads of all proxies
    ProxyOf,      \* the proxy each initProxy and initOutput thread serves
    BatchSize,    \* TaskSpec::BatchSize of each model
    Delayed,      \* duty_cycle # 0: a batch may be closed by a timeout
    Tasks,        \* the client tasks (AppInstance objects)
    Nodes,        \* the model nodes of the application graph
    ModelOf,      \* AppSpec::getModelName
    Entry,        \* the nodes fed by the application's inputs
    Succ,         \* AppSpec::getNextDsts without the output nodes
    OutputCheck,  \* AppSpec::getInputforOutput
    InitNets,     \* the models routed to, and loaded in, each proxy at first
    MaxReroutes,  \* bound on the calls of applyRouting_sync
    DropOn,       \* whether initDropThread was started
    NoModel       \* "no model"

ASSUME ConstantsAssumption ==
    /\ ProxyOf \in [Batchers \cup Outputs -> Proxies]
    /\ BatchSize \in [Models -> Nat \ {0}]
    /\ ModelOf \in [Nodes -> Models]
    /\ Succ \in [Nodes -> SUBSET Nodes]
    /\ Entry \subseteq Nodes
    /\ OutputCheck \subseteq Nodes
    /\ InitNets \in [Proxies -> SUBSET Models]
    /\ MaxReroutes \in Nat
    /\ Delayed \in BOOLEAN
    /\ DropOn \in BOOLEAN

ASSUME NoModelAssumption == NoModel \notin Models

Req == Tasks \X Nodes
Batch == [model : Models, reqs : Seq(Req)]
NoBatch == [model |-> NoModel, reqs |-> <<>>]
Free == "free"    \* a mutex nobody holds

ASSUME FreeAssumption == Free \notin Batchers \cup Outputs

-----------------------------------------------------------------------------
VARIABLES
    \* the application layer: AppInstance and the client connection
    received,        \* the entry nodes whose input tensor has been received
    scoreBoard,      \* the nodes of a task marked as finished
    reported,        \* AppInstance::_reported
    dropped,         \* AppInstance::_dropped
    appQueue,        \* PerAppQueue: tasks waiting for their reply
    replies,         \* how many replies the client got for a task
    reqDropped,      \* requests marked by the drop thread (request::setDropped)
    dropScan,        \* the copy of a queue the drop thread is looking at
    dpc, dnet,       \* the drop thread: program counter and model
    \* the frontend's shared state
    reqQueue,        \* ReqListHashTable
    netList,         \* PerProxyNetList: the models routed to a proxy
    isSchedulable,
    loadedModels,    \* proxy_info::LoadedModels
    batchList,       \* PerProxyBatchList
    isTaskBatching,
    isTaskExec,
    sendMtx,         \* proxy_info::sendMtx of the frontend
    outputMtx,       \* PerProxyOutputMtx
    outputQueue,     \* PerProxyOutputQueue
    \* threads
    bpc, task, batch,        \* initProxy: program counter and locals
    opc, obatch,             \* initOutput: program counter and locals
    decision,                \* the scheduler's decision, not yet handed over
    rerouting, reroutes,     \* applyRouting_sync in progress, and how many
    upc, umodel, uexempt,    \* unloadModel_async
    \* the data path behind the frontend
    dataIn,          \* data channel, frontend to backend
    forwarded,       \* the batch the backend's in-thread sent to the proxy
                     \*    and has not yet put on its output queue
    proxyIn,         \* unix socket, backend to proxy
    backendQueue,    \* MapProxytoOutputQueue
    awaited,         \* the batch whose output the backend's out-thread awaits
    proxyOut,        \* unix socket, proxy to backend
    dataOut          \* data channel, backend to frontend

appVars   == <<received, scoreBoard, reported, dropped, appQueue, replies,
               reqDropped, dropScan, dpc, dnet>>
routeVars == <<netList, isSchedulable, loadedModels, rerouting, reroutes,
               upc, umodel, uexempt>>
schedVars == <<batchList, decision>>
countVars == <<isTaskBatching, isTaskExec>>
batchVars == <<bpc, task, batch>>
outVars   == <<opc, obatch>>
lockVars  == <<sendMtx, outputMtx>>
wireVars  == <<dataIn, forwarded, proxyIn, backendQueue, awaited, proxyOut,
               dataOut>>
vars == <<appVars, reqQueue, routeVars, schedVars, countVars, batchVars,
          outVars, lockVars, outputQueue, wireVars>>

BatcherPC == {"idle", "popped", "batching", "formed", "handoff", "tosend",
              "pushing", "sending"}
OutputPC == {"idle", "recv", "endexec", "allocate", "deliver"}
UnloadPC == {"off", "next", "size", "batching", "exec"}

Init ==
    /\ received = [k \in Tasks |-> {}]
    /\ scoreBoard = [k \in Tasks |-> {}]
    /\ reported = [k \in Tasks |-> FALSE]
    /\ dropped = [k \in Tasks |-> FALSE]
    /\ appQueue = <<>>
    /\ replies = [k \in Tasks |-> 0]
    /\ reqDropped = {}
    /\ dropScan = <<>>
    /\ dpc = "idle"
    /\ dnet = NoModel
    /\ reqQueue = [m \in Models |-> <<>>]
    /\ netList = InitNets
    /\ isSchedulable = [p \in Proxies |-> InitNets[p] # {}]
    /\ loadedModels = InitNets
    /\ batchList = [p \in Proxies |-> <<>>]
    /\ isTaskBatching = [p \in Proxies |-> [m \in Models |-> 0]]
    /\ isTaskExec = [p \in Proxies |-> [m \in Models |-> 0]]
    /\ sendMtx = [p \in Proxies |-> Free]
    /\ outputMtx = [p \in Proxies |-> Free]
    /\ outputQueue = [p \in Proxies |-> <<>>]
    /\ bpc = [t \in Batchers |-> "idle"]
    /\ task = [t \in Batchers |-> NoModel]
    /\ batch = [t \in Batchers |-> <<>>]
    /\ opc = [o \in Outputs |-> "idle"]
    /\ obatch = [o \in Outputs |-> NoBatch]
    /\ decision = [p \in Proxies |-> {}]
    /\ rerouting = FALSE
    /\ reroutes = 0
    /\ upc = [p \in Proxies |-> "off"]
    /\ umodel = [p \in Proxies |-> NoModel]
    /\ uexempt = [p \in Proxies |-> {}]
    /\ dataIn = [p \in Proxies |-> <<>>]
    /\ forwarded = [p \in Proxies |-> NoBatch]
    /\ proxyIn = [p \in Proxies |-> <<>>]
    /\ backendQueue = [p \in Proxies |-> <<>>]
    /\ awaited = [p \in Proxies |-> NoBatch]
    /\ proxyOut = [p \in Proxies |-> <<>>]
    /\ dataOut = [p \in Proxies |-> <<>>]
-----------------------------------------------------------------------------
(***************************************************************************)
(* Helpers.                                                                *)
(***************************************************************************)

\* The drop thread holds ReqMtxVec of model m.
ReqLocked(m) == dpc = "locked" /\ dnet = m

\* addtoModelQueue for each of the nodes ns of task k.  Distinct nodes of one
\* application run distinct models.
addtoModelQueue(k, ns) ==
    /\ \A n \in ns : ~ReqLocked(ModelOf[n])
    /\ reqQueue' = [m \in Models |->
                       IF \E n \in ns : ModelOf[n] = m
                       THEN Append(reqQueue[m],
                                   <<k, CHOOSE n \in ns : ModelOf[n] = m>>)
                       ELSE reqQueue[m]]

\* The flag of the task is set or cleared and the task queued for its reply.
addtoAppQueue(k, isDrop) ==
    /\ dropped' = [dropped EXCEPT ![k] = isDrop]
    /\ appQueue' = Append(appQueue, k)

GoTo(t, from, to) ==
    /\ bpc[t] = from
    /\ bpc' = [bpc EXCEPT ![t] = to]

OGoTo(o, from, to) ==
    /\ opc[o] = from
    /\ opc' = [opc EXCEPT ![o] = to]

UGoTo(p, from, to) ==
    /\ upc[p] = from
    /\ upc' = [upc EXCEPT ![p] = to]

-----------------------------------------------------------------------------
(***************************************************************************)
(* The client connection and the application threads.                      *)
(***************************************************************************)

\* handleRequest / recvTensor: one input tensor of task k arrives for node n.
handleRequest(k, n) ==
    /\ n \in Entry \ received[k]
    /\ received' = [received EXCEPT ![k] = @ \cup {n}]
    /\ addtoModelQueue(k, {n})
    /\ UNCHANGED <<scoreBoard, reported, dropped, appQueue, replies,
                   reqDropped, dropScan, dpc, dnet>>
    /\ UNCHANGED <<routeVars, schedVars, countVars, batchVars, outVars,
                   lockVars, outputQueue, wireVars>>

\* initApp: the reply of the first task in the application's queue is sent.
initApp ==
    /\ appQueue # <<>>
    /\ replies' = [replies EXCEPT ![Head(appQueue)] = @ + 1]
    /\ appQueue' = Tail(appQueue)
    /\ UNCHANGED <<received, scoreBoard, reported, dropped, reqDropped,
                   dropScan, dpc, dnet>>
    /\ UNCHANGED <<reqQueue, routeVars, schedVars, countVars, batchVars,
                   outVars, lockVars, outputQueue, wireVars>>

DropRest == <<reqQueue, routeVars, schedVars, countVars, batchVars, outVars,
              lockVars, outputQueue, wireVars>>

\* initLazyDrop, initEagerDrop: the loop variable is a copy of the queue of m,
\* made before ReqMtxVec is locked.
DropCopy(m) ==
    /\ DropOn
    /\ dpc = "idle"
    /\ reqQueue[m] # <<>>
    /\ dpc' = "copied"
    /\ dnet' = m
    /\ dropScan' = reqQueue[m]
    /\ UNCHANGED <<received, scoreBoard, reported, dropped, appQueue, replies,
                   reqDropped>>
    /\ UNCHANGED DropRest

DropLock ==
    /\ dpc = "copied"
    /\ dpc' = "locked"
    /\ UNCHANGED <<received, scoreBoard, reported, dropped, appQueue, replies,
                   reqDropped, dropScan, dnet>>
    /\ UNCHANGED DropRest

\* The first request of the copy has exceeded its slack: it is marked, its
\* task is reported as dropped unless it already was, and it is popped from
\* the copy.
DropExpired ==
    /\ dpc = "locked"
    /\ dropScan # <<>>
    /\ LET r == Head(dropScan) IN
        /\ reqDropped' = reqDropped \cup {r}
        /\ IF dropped[r[1]]
           THEN UNCHANGED <<dropped, appQueue>>
           ELSE addtoAppQueue(r[1], TRUE)
    /\ dropScan' = Tail(dropScan)
    /\ UNCHANGED <<received, scoreBoard, reported, replies, dpc, dnet>>
    /\ UNCHANGED DropRest

\* The copy is empty or its first request within its slack: ReqMtxVec is
\* released.
DropScanEnd ==
    /\ dpc = "locked"
    /\ dpc' = "idle"
    /\ dnet' = NoModel
    /\ dropScan' = <<>>
    /\ UNCHANGED <<received, scoreBoard, reported, dropped, appQueue, replies,
                   reqDropped>>
    /\ UNCHANGED DropRest

-----------------------------------------------------------------------------
(***************************************************************************)
(* The scheduler thread: doMPSScheduling with staticMPSScheduler, and       *)
(* applyRouting_sync followed by unloadModels at the end of an epoch.      *)
(***************************************************************************)

\* A proxy is given tasks when it is schedulable, holds a model, has an empty
\* batch list and at least one routed model that has requests and is not
\* being batched.
AssignTask(p) ==
    /\ loadedModels[p] # {}
    /\ isSchedulable[p]
    /\ batchList[p] = <<>>
    /\ \E m \in netList[p] :
        /\ isTaskBatching[p][m] + isTaskExec[p][m] < 2
        /\ isTaskBatching[p][m] = 0
        /\ reqQueue[m] # <<>>

\* The decision covers every routed model that has requests, batching or not.
staticMPSScheduler ==
    /\ ~rerouting
    /\ \A p \in Proxies : decision[p] = {}
    /\ \E p \in Proxies : AssignTask(p)
    /\ decision' = [p \in Proxies |->
                       IF AssignTask(p)
                       THEN {m \in netList[p] : reqQueue[m] # <<>>}
                       ELSE {}]
    /\ UNCHANGED batchList
    /\ UNCHANGED <<appVars, reqQueue, routeVars, countVars, batchVars, outVars,
                   lockVars, outputQueue, wireVars>>

\* doMPSScheduling hands one task of the decision to the proxy's batch list.
doMPSScheduling(p, m) ==
    /\ m \in decision[p]
    /\ decision' = [decision EXCEPT ![p] = @ \ {m}]
    /\ batchList' = [batchList EXCEPT ![p] = Append(@, m)]
    /\ UNCHANGED <<appVars, reqQueue, routeVars, countVars, batchVars, outVars,
                   lockVars, outputQueue, wireVars>>

\* applyRouting_sync, first loop: the routing of every proxy is flushed.
applyRoutingFlush ==
    /\ ~rerouting
    /\ reroutes < MaxReroutes
    /\ \A p \in Proxies : decision[p] = {}
    /\ rerouting' = TRUE
    /\ reroutes' = reroutes + 1
    /\ netList' = [p \in Proxies |-> {}]
    /\ isSchedulable' = [p \in Proxies |-> FALSE]
    /\ UNCHANGED <<loadedModels, upc, umodel, uexempt>>
    /\ UNCHANGED <<appVars, reqQueue, schedVars, countVars, batchVars, outVars,
                   lockVars, outputQueue, wireVars>>

\* loadModel_sync, in a thread of its own: once the proxy's unloading is over,
\* a model of the next routing is loaded.  applyRouting_sync waits for it.
loadModel_sync(p, m) ==
    /\ ~rerouting
    /\ reroutes < MaxReroutes
    /\ upc[p] = "off"
    /\ m \notin loadedModels[p]
    /\ loadedModels' = [loadedModels EXCEPT ![p] = @ \cup {m}]
    /\ UNCHANGED <<netList, isSchedulable, rerouting, reroutes, upc, umodel,
                   uexempt>>
    /\ UNCHANGED <<appVars, reqQueue, schedVars, countVars, batchVars, outVars,
                   lockVars, outputQueue, wireVars>>

\* applyRouting_sync, second loop, and unloadModels: the new routing is
\* installed (its models are loaded already) and an unloadModel_async thread
\* is started for each proxy that holds a model it does not serve any more.
\* additionalLoad makes a proxy that keeps serving wait for its unloading;
\* for the others, an epoch is long enough for the unloading to be over.
applyRoutingInstall(nets) ==
    /\ rerouting
    /\ \A p \in Proxies : nets[p] \subseteq loadedModels[p]
    /\ \A p \in Proxies : upc[p] = "off"
    /\ rerouting' = FALSE
    /\ netList' = nets
    /\ isSchedulable' = [p \in Proxies |-> nets[p] # {}]
    /\ upc' = [p \in Proxies |->
                  IF loadedModels[p] \ nets[p] # {} THEN "next" ELSE "off"]
    /\ uexempt' = nets
    /\ UNCHANGED <<loadedModels, umodel, reroutes>>
    /\ UNCHANGED <<appVars, reqQueue, schedVars, countVars, batchVars, outVars,
                   lockVars, outputQueue, wireVars>>

-----------------------------------------------------------------------------
(***************************************************************************)
(* unloadModel_async on proxy p.  The three conditions of is_task_cleared  *)
(* are read one after the other, and read again from the first one when    *)
(* one of them does not hold.                                              *)
(***************************************************************************)
UnloadRest == <<appVars, reqQueue, schedVars, countVars, batchVars, outVars,
                lockVars, outputQueue, wireVars, netList, rerouting, reroutes,
                uexempt>>

UnloadNext(p, m) ==
    /\ m \in loadedModels[p] \ uexempt[p]
    /\ UGoTo(p, "next", "size")
    /\ umodel' = [umodel EXCEPT ![p] = m]
    /\ UNCHANGED <<loadedModels, isSchedulable>>
    /\ UNCHANGED UnloadRest

UnloadCheckSize(p) ==
    /\ batchList[p] = <<>>
    /\ UGoTo(p, "size", "batching")
    /\ UNCHANGED <<loadedModels, isSchedulable, umodel>>
    /\ UNCHANGED UnloadRest

UnloadCheckBatching(p) ==
    /\ UGoTo(p, "batching",
             IF isTaskBatching[p][umodel[p]] = 0 THEN "exec" ELSE "size")
    /\ UNCHANGED <<loadedModels, isSchedulable, umodel>>
    /\ UNCHANGED UnloadRest

\* The last condition: when it holds, the model is unloaded and erased.
UnloadCheckExec(p) ==
    /\ upc[p] = "exec"
    /\ IF isTaskExec[p][umodel[p]] = 0
       THEN /\ UGoTo(p, "exec", "next")
            /\ loadedModels' = [loadedModels EXCEPT ![p] = @ \ {umodel[p]}]
            /\ umodel' = [umodel EXCEPT ![p] = NoModel]
       ELSE /\ UGoTo(p, "exec", "size")
            /\ UNCHANGED <<loadedModels, umodel>>
    /\ UNCHANGED isSchedulable
    /\ UNCHANGED UnloadRest

\* No model is left to unload: an empty proxy is shut down.
UnloadEnd(p) ==
    /\ loadedModels[p] \subseteq uexempt[p]
    /\ UGoTo(p, "next", "off")
    /\ isSchedulable' = [isSchedulable EXCEPT
                            ![p] = @ /\ loadedModels[p] # {}]
    /\ UNCHANGED <<loadedModels, umodel>>
    /\ UNCHANGED UnloadRest

-----------------------------------------------------------------------------
(***************************************************************************)
(* initProxy: a batching thread t of the proxy p = ProxyOf[t].             *)
(***************************************************************************)
BatcherRest == <<appVars, routeVars, decision, outVars>>

\* Under PerProxyBatchMtx: the front task is removed.  It is skipped when its
\* model has no requests left or the proxy is not schedulable.
TakeTask(t) ==
    LET p == ProxyOf[t]
        m == Head(batchList[p])
    IN  /\ bpc[t] = "idle"
        /\ batchList[p] # <<>>
        /\ batchList' = [batchList EXCEPT ![p] = Tail(@)]
        /\ IF reqQueue[m] = <<>> \/ ~isSchedulable[p]
           THEN UNCHANGED batchVars
           ELSE /\ GoTo(t, "idle", "popped")
                /\ task' = [task EXCEPT ![t] = m]
                /\ UNCHANGED batch
        /\ UNCHANGED <<reqQueue, countVars, lockVars, outputQueue, wireVars>>
        /\ UNCHANGED BatcherRest

\* Mutant: the condition variable is not waited for.
StartBatchingNoWait(t) ==
    /\ GoTo(t, "popped", "batching")
    /\ isTaskBatching' = [isTaskBatching EXCEPT ![ProxyOf[t]][task[t]] = @ + 1]
    /\ UNCHANGED <<task, batch, isTaskExec, reqQueue, batchList, lockVars,
                   outputQueue, wireVars>>
    /\ UNCHANGED BatcherRest

\* Under PerTaskBatchMtx: waits until no thread batches this model.
StartBatching(t) ==
    LET p == ProxyOf[t] IN
    /\ GoTo(t, "popped", "batching")
    /\ isTaskBatching[p][task[t]] = 0
    /\ isTaskBatching' = [isTaskBatching EXCEPT ![p][task[t]] = @ + 1]
    /\ UNCHANGED <<task, batch, isTaskExec, reqQueue, batchList, lockVars,
                   outputQueue, wireVars>>
    /\ UNCHANGED BatcherRest

\* Mutant: the request is read and not popped.
AddRequestNoPop(t) ==
    LET m == task[t] IN
    /\ bpc[t] = "batching"
    /\ Len(batch[t]) < BatchSize[m]
    /\ reqQueue[m] # <<>>
    /\ ~ReqLocked(m)
    /\ batch' = [batch EXCEPT ![t] = Append(@, Head(reqQueue[m]))]
    /\ UNCHANGED <<reqQueue, bpc, task, countVars, batchList, lockVars,
                   outputQueue, wireVars>>
    /\ UNCHANGED BatcherRest

\* Under ReqMtxVec: one request is moved from the queue to the batch.  The
\* load balancer may refuse; the thread then tries again.
AddRequest(t) ==
    LET m == task[t] IN
    /\ bpc[t] = "batching"
    /\ Len(batch[t]) < BatchSize[m]
    /\ reqQueue[m] # <<>>
    /\ ~ReqLocked(m)
    /\ batch' = [batch EXCEPT ![t] = Append(@, Head(reqQueue[m]))]
    /\ reqQueue' = [reqQueue EXCEPT ![m] = Tail(@)]
    /\ UNCHANGED <<bpc, task, countVars, batchList, lockVars, outputQueue,
                   wireVars>>
    /\ UNCHANGED BatcherRest

\* The batching loop ends when the batch is full, when the delay is over, or,
\* without a delay, when the queue is empty.  An empty batch is given up.
CloseBatch(t) ==
    LET p == ProxyOf[t]
        m == task[t]
    IN  /\ bpc[t] = "batching"
        /\ \/ Len(batch[t]) = BatchSize[m]
           \/ Delayed
           \/ reqQueue[m] = <<>>
        /\ IF batch[t] = <<>>
           THEN /\ GoTo(t, "batching", "idle")
                /\ task' = [task EXCEPT ![t] = NoModel]
                /\ isTaskBatching' = [isTaskBatching EXCEPT ![p][m] = @ - 1]
           ELSE /\ GoTo(t, "batching", "formed")
                /\ UNCHANGED <<task, isTaskBatching>>
        /\ UNCHANGED <<batch, isTaskExec, reqQueue, batchList, lockVars,
                       outputQueue, wireVars>>
        /\ UNCHANGED BatcherRest

\* Mutant: the condition variable is not waited for.
StartExecNoWait(t) ==
    /\ GoTo(t, "formed", "handoff")
    /\ isTaskExec' = [isTaskExec EXCEPT ![ProxyOf[t]][task[t]] = @ + 1]
    /\ UNCHANGED <<task, batch, isTaskBatching, reqQueue, batchList, lockVars,
                   outputQueue, wireVars>>
    /\ UNCHANGED BatcherRest

\* Under PerTaskExecMtx: waits until no batch of this model executes.
StartExec(t) ==
    LET p == ProxyOf[t] IN
    /\ GoTo(t, "formed", "handoff")
    /\ isTaskExec[p][task[t]] = 0
    /\ isTaskExec' = [isTaskExec EXCEPT ![p][task[t]] = @ + 1]
    /\ UNCHANGED <<task, batch, isTaskBatching, reqQueue, batchList, lockVars,
                   outputQueue, wireVars>>
    /\ UNCHANGED BatcherRest

\* The next batch of the model may now be formed.
EndBatching(t) ==
    /\ GoTo(t, "handoff", "tosend")
    /\ isTaskBatching' = [isTaskBatching EXCEPT ![ProxyOf[t]][task[t]] = @ - 1]
    /\ UNCHANGED <<task, batch, isTaskExec, reqQueue, batchList, lockVars,
                   outputQueue, wireVars>>
    /\ UNCHANGED BatcherRest

\* Mutant: the batch is announced and sent without sendMtx.
LockSendNoLock(t) ==
    /\ GoTo(t, "tosend", "pushing")
    /\ UNCHANGED <<task, batch, countVars, reqQueue, batchList, lockVars,
                   outputQueue, wireVars>>
    /\ UNCHANGED BatcherRest

\* sendBatchedRequest: sendMtx is taken ...
LockSend(t) ==
    LET p == ProxyOf[t] IN
    /\ sendMtx[p] = Free
    /\ GoTo(t, "tosend", "pushing")
    /\ sendMtx' = [sendMtx EXCEPT ![p] = t]
    /\ UNCHANGED <<task, batch, countVars, reqQueue, batchList, outputMtx,
                   outputQueue, wireVars>>
    /\ UNCHANGED BatcherRest

\* ... the batch is announced to the output threads, under PerProxyOutputMtx ...
PushOutput(t) ==
    LET p == ProxyOf[t]
        b == [model |-> task[t], reqs |-> batch[t]]
    IN  /\ outputMtx[p] = Free
        /\ GoTo(t, "pushing", "sending")
        /\ outputQueue' = [outputQueue EXCEPT ![p] = Append(@, b)]
        /\ UNCHANGED <<task, batch, countVars, reqQueue, batchList, lockVars,
                       wireVars>>
        /\ UNCHANGED BatcherRest

\* Mutant: sendMtx is not released.
SendToBackendKeepsLock(t) ==
    LET p == ProxyOf[t]
        b == [model |-> task[t], reqs |-> batch[t]]
    IN  /\ GoTo(t, "sending", "idle")
        /\ dataIn' = [dataIn EXCEPT ![p] = Append(@, b)]
        /\ task' = [task EXCEPT ![t] = NoModel]
        /\ batch' = [batch EXCEPT ![t] = <<>>]
        /\ UNCHANGED <<countVars, reqQueue, batchList, lockVars, outputQueue,
                       forwarded, proxyIn, backendQueue, awaited, proxyOut,
                       dataOut>>
        /\ UNCHANGED BatcherRest

\* ... and sent to the backend, and sendMtx is released.
SendToBackend(t) ==
    LET p == ProxyOf[t]
        b == [model |-> task[t], reqs |-> batch[t]]
    IN  /\ GoTo(t, "sending", "idle")
        /\ dataIn' = [dataIn EXCEPT ![p] = Append(@, b)]
        /\ sendMtx' = [sendMtx EXCEPT ![p] = Free]
        /\ task' = [task EXCEPT ![t] = NoModel]
        /\ batch' = [batch EXCEPT ![t] = <<>>]
        /\ UNCHANGED <<countVars, reqQueue, batchList, outputMtx, outputQueue,
                       forwarded, proxyIn, backendQueue, awaited, proxyOut,
                       dataOut>>
        /\ UNCHANGED BatcherRest

-----------------------------------------------------------------------------
(***************************************************************************)
(* The backend's data threads of proxy p, and the proxy process.           *)
(***************************************************************************)
WireRest == <<appVars, reqQueue, routeVars, schedVars, countVars, batchVars,
              outVars, lockVars, outputQueue>>

\* recvBatchedTensor: a batch is read and sent to the proxy ...
recvBatchedTensor(p) ==
    /\ forwarded[p] = NoBatch
    /\ dataIn[p] # <<>>
    /\ dataIn' = [dataIn EXCEPT ![p] = Tail(@)]
    /\ proxyIn' = [proxyIn EXCEPT ![p] = Append(@, Head(dataIn[p]))]
    /\ forwarded' = [forwarded EXCEPT ![p] = Head(dataIn[p])]
    /\ UNCHANGED <<backendQueue, awaited, proxyOut, dataOut>>
    /\ UNCHANGED WireRest

\* ... and put on the out-thread's queue.
enqueueForwarded(p) ==
    /\ forwarded[p] # NoBatch
    /\ backendQueue' = [backendQueue EXCEPT ![p] = Append(@, forwarded[p])]
    /\ forwarded' = [forwarded EXCEPT ![p] = NoBatch]
    /\ UNCHANGED <<dataIn, proxyIn, awaited, proxyOut, dataOut>>
    /\ UNCHANGED WireRest

\* The proxy process runs one batch at a time, in order of arrival.
proxyCompute(p) ==
    /\ proxyIn[p] # <<>>
    /\ proxyIn' = [proxyIn EXCEPT ![p] = Tail(@)]
    /\ proxyOut' = [proxyOut EXCEPT ![p] = Append(@, Head(proxyIn[p]))]
    /\ UNCHANGED <<dataIn, forwarded, backendQueue, awaited, dataOut>>
    /\ UNCHANGED WireRest

\* Mutant: the newest batch is awaited instead of the oldest.
dequeueAwaitedNewest(p) ==
    /\ awaited[p] = NoBatch
    /\ backendQueue[p] # <<>>
    /\ awaited' = [awaited EXCEPT ![p] = Last(backendQueue[p])]
    /\ backendQueue' = [backendQueue EXCEPT ![p] = Front(@)]
    /\ UNCHANGED <<dataIn, forwarded, proxyIn, proxyOut, dataOut>>
    /\ UNCHANGED WireRest

\* initBackendData, output side: the next batch to wait for.
dequeueAwaited(p) ==
    /\ awaited[p] = NoBatch
    /\ backendQueue[p] # <<>>
    /\ awaited' = [awaited EXCEPT ![p] = Head(backendQueue[p])]
    /\ backendQueue' = [backendQueue EXCEPT ![p] = Tail(@)]
    /\ UNCHANGED <<dataIn, forwarded, proxyIn, proxyOut, dataOut>>
    /\ UNCHANGED WireRest

\* receiveandsendOutput: the proxy's next output goes to the frontend.
receiveandsendOutput(p) ==
    /\ awaited[p] # NoBatch
    /\ proxyOut[p] # <<>>
    /\ proxyOut' = [proxyOut EXCEPT ![p] = Tail(@)]
    /\ dataOut' = [dataOut EXCEPT ![p] = Append(@, Head(proxyOut[p]))]
    /\ awaited' = [awaited EXCEPT ![p] = NoBatch]
    /\ UNCHANGED <<dataIn, forwarded, proxyIn, backendQueue>>
    /\ UNCHANGED WireRest

-----------------------------------------------------------------------------
(***************************************************************************)
(* initOutput: an output thread o of the proxy p = ProxyOf[o].             *)
(***************************************************************************)
OutputRest == <<routeVars, schedVars, batchVars, isTaskBatching, sendMtx>>

\* PerProxyOutputMtx is taken, and kept while the result is awaited.
TakeOutput(o) ==
    LET p == ProxyOf[o] IN
    /\ outputMtx[p] = Free
    /\ outputQueue[p] # <<>>
    /\ OGoTo(o, "idle", "recv")
    /\ outputMtx' = [outputMtx EXCEPT ![p] = o]
    /\ obatch' = [obatch EXCEPT ![o] = Head(outputQueue[p])]
    /\ outputQueue' = [outputQueue EXCEPT ![p] = Tail(@)]
    /\ UNCHANGED <<appVars, reqQueue, isTaskExec, wireVars>>
    /\ UNCHANGED OutputRest

\* recvResult returns, and PerProxyOutputMtx is released.
RecvResult(o) ==
    LET p == ProxyOf[o] IN
    /\ dataOut[p] # <<>>
    /\ OGoTo(o, "recv", "endexec")
    /\ dataOut' = [dataOut EXCEPT ![p] = Tail(@)]
    /\ outputMtx' = [outputMtx EXCEPT ![p] = Free]
    /\ UNCHANGED <<obatch, appVars, reqQueue, isTaskExec, outputQueue, dataIn,
                   forwarded, proxyIn, backendQueue, awaited, proxyOut>>
    /\ UNCHANGED OutputRest

\* Mutant: the execution of the batch is never counted as over.
EndExecNoCount(o) ==
    /\ OGoTo(o, "endexec", "allocate")
    /\ UNCHANGED <<obatch, appVars, reqQueue, isTaskExec, outputMtx,
                   outputQueue, wireVars>>
    /\ UNCHANGED OutputRest

\* The next batch of the model may now be executed.
EndExec(o) ==
    /\ OGoTo(o, "endexec", "allocate")
    /\ isTaskExec' = [isTaskExec EXCEPT ![ProxyOf[o]][obatch[o].model] = @ - 1]
    /\ UNCHANGED <<obatch, appVars, reqQueue, outputMtx, outputQueue, wireVars>>
    /\ UNCHANGED OutputRest

\* allocateOutput: every request of the batch is marked finished.
AllocateOutput(o) ==
    /\ OGoTo(o, "allocate", "deliver")
    /\ scoreBoard' = [k \in Tasks |-> scoreBoard[k] \cup
                         {n \in Nodes : \E i \in DOMAIN obatch[o].reqs :
                                            obatch[o].reqs[i] = <<k, n>>}]
    /\ UNCHANGED <<obatch, received, reported, dropped, appQueue, replies,
                   reqDropped, dropScan, dpc, dnet, reqQueue, isTaskExec, outputMtx,
                   outputQueue, wireVars>>
    /\ UNCHANGED OutputRest

\* Mutant: _reported is not looked at.
isFinishedForAll(k) == OutputCheck \subseteq scoreBoard[k]

\* AppInstance::isFinished: true for the first caller that finds every node
\* that feeds an output finished.
isFinished(k) ==
    /\ ~reported[k]
    /\ OutputCheck \subseteq scoreBoard[k]

\* sendBatchedResults, for the first remaining request of the batch: its task
\* is reported when it is complete, otherwise its successors are queued.
sendBatchedResults(o) ==
    LET k == Head(obatch[o].reqs)[1]
        n == Head(obatch[o].reqs)[2]
    IN  /\ opc[o] = "deliver"
        /\ obatch[o].reqs # <<>>
        /\ IF isFinished(k)
           THEN /\ reported' = [reported EXCEPT ![k] = TRUE]
                /\ addtoAppQueue(k, FALSE)
                /\ UNCHANGED reqQueue
           ELSE /\ addtoModelQueue(k, Succ[n])
                /\ UNCHANGED <<reported, dropped, appQueue>>
        /\ obatch' = [obatch EXCEPT ![o].reqs = Tail(@)]
        /\ UNCHANGED <<opc, received, scoreBoard, replies, reqDropped, dropScan,
                       dpc, dnet, isTaskExec, outputMtx, outputQueue, wireVars>>
        /\ UNCHANGED OutputRest

DeliverEnd(o) ==
    /\ obatch[o].reqs = <<>>
    /\ OGoTo(o, "deliver", "idle")
    /\ obatch' = [obatch EXCEPT ![o] = NoBatch]
    /\ UNCHANGED <<appVars, reqQueue, isTaskExec, outputMtx, outputQueue,
                   wireVars>>
    /\ UNCHANGED OutputRest

-----------------------------------------------------------------------------
Batcher(t) ==
    \/ TakeTask(t)
    \/ StartBatching(t)
    \/ AddRequest(t)
    \/ CloseBatch(t)
    \/ StartExec(t)
    \/ EndBatching(t)
    \/ LockSend(t)
    \/ PushOutput(t)
    \/ SendToBackend(t)

Output(o) ==
    \/ TakeOutput(o)
    \/ RecvResult(o)
    \/ EndExec(o)
    \/ AllocateOutput(o)
    \/ sendBatchedResults(o)
    \/ DeliverEnd(o)

Unloader(p) ==
    \/ \E m \in Models : UnloadNext(p, m)
    \/ UnloadCheckSize(p)
    \/ UnloadCheckBatching(p)
    \/ UnloadCheckExec(p)
    \/ UnloadEnd(p)

Scheduler ==
    \/ staticMPSScheduler
    \/ \E p \in Proxies, m \in Models : doMPSScheduling(p, m)
    \/ applyRoutingFlush
    \/ \E nets \in [Proxies -> SUBSET Models] : applyRoutingInstall(nets)

Loader == \E p \in Proxies, m \in Models : loadModel_sync(p, m)

Dropper ==
    \/ \E m \in Models : DropCopy(m)
    \/ DropLock
    \/ DropExpired
    \/ DropScanEnd

Next ==
    \/ \E k \in Tasks, n \in Nodes : handleRequest(k, n)
    \/ initApp
    \/ Dropper
    \/ Scheduler
    \/ Loader
    \/ \E p \in Proxies : Unloader(p)
    \/ \E t \in Batchers : Batcher(t)
    \/ \E p \in Proxies : recvBatchedTensor(p)
    \/ \E p \in Proxies : enqueueForwarded(p)
    \/ \E p \in Proxies : proxyCompute(p)
    \/ \E p \in Proxies : dequeueAwaited(p)
    \/ \E p \in Proxies : receiveandsendOutput(p)
    \/ \E o \in Outputs : Output(o)

Spec == Init /\ [][Next]_vars

(***************************************************************************)
(* Every thread is an operating-system thread that keeps running, and a    *)
(* thread woken by a condition variable re-acquires its mutex, which no    *)
(* thread keeps for ever.  Nothing is assumed of the client, of the drop   *)
(* thread or of the routing decisions.                                     *)
(***************************************************************************)
Fairness ==
    /\ WF_vars(initApp)
    /\ WF_vars(staticMPSScheduler)
    /\ WF_vars(\E p \in Proxies, m \in Models : doMPSScheduling(p, m))
    /\ WF_vars(\E nets \in [Proxies -> SUBSET Models] : applyRoutingInstall(nets))
    /\ \A p \in Proxies : WF_vars(Unloader(p))
    /\ \A t \in Batchers : WF_vars(Batcher(t))
    /\ \A o \in Outputs : WF_vars(Output(o))
    /\ \A p \in Proxies : /\ WF_vars(recvBatchedTensor(p))
                          /\ WF_vars(enqueueForwarded(p))
                          /\ WF_vars(proxyCompute(p))
                          /\ WF_vars(dequeueAwaited(p))
                          /\ WF_vars(receiveandsendOutput(p))

FairSpec == Spec /\ Fairness

-----------------------------------------------------------------------------
(***************************************************************************)
(* Properties.                                                             *)
(***************************************************************************)

AppTypeOK ==
    /\ received \in [Tasks -> SUBSET Nodes]
    /\ scoreBoard \in [Tasks -> SUBSET Nodes]
    /\ reported \in [Tasks -> BOOLEAN]
    /\ dropped \in [Tasks -> BOOLEAN]
    /\ appQueue \in Seq(Tasks)
    /\ replies \in [Tasks -> Nat]
    /\ reqDropped \subseteq Req
    /\ dropScan \in Seq(Req)
    /\ dpc \in {"idle", "copied", "locked"}
    /\ dnet \in Models \cup {NoModel}

RouteTypeOK ==
    /\ netList \in [Proxies -> SUBSET Models]
    /\ isSchedulable \in [Proxies -> BOOLEAN]
    /\ loadedModels \in [Proxies -> SUBSET Models]
    /\ rerouting \in BOOLEAN
    /\ reroutes \in 0 .. MaxReroutes
    /\ upc \in [Proxies -> UnloadPC]
    /\ umodel \in [Proxies -> Models \cup {NoModel}]
    /\ uexempt \in [Proxies -> SUBSET Models]
    /\ \A p \in Proxies : upc[p] \in {"size", "batching", "exec"}
                             => umodel[p] \in Models

SchedTypeOK ==
    /\ batchList \in [Proxies -> Seq(Models)]
    /\ decision \in [Proxies -> SUBSET Models]

CountTypeOK ==
    /\ isTaskBatching \in [Proxies -> [Models -> {0, 1}]]
    /\ isTaskExec \in [Proxies -> [Models -> {0, 1}]]

BatcherTypeOK ==
    /\ bpc \in [Batchers -> BatcherPC]
    /\ task \in [Batchers -> Models \cup {NoModel}]
    /\ batch \in [Batchers -> Seq(Req)]
    /\ \A t \in Batchers : bpc[t] # "idle" => task[t] \in Models

OutputTypeOK ==
    /\ opc \in [Outputs -> OutputPC]
    /\ obatch \in [Outputs -> Batch \cup {NoBatch}]
    /\ \A o \in Outputs : opc[o] # "idle" => obatch[o] \in Batch

LockTypeOK ==
    /\ sendMtx \in [Proxies -> Batchers \cup {Free}]
    /\ outputMtx \in [Proxies -> Outputs \cup {Free}]

WireTypeOK ==
    /\ dataIn \in [Proxies -> Seq(Batch)]
    /\ forwarded \in [Proxies -> Batch \cup {NoBatch}]
    /\ proxyIn \in [Proxies -> Seq(Batch)]
    /\ backendQueue \in [Proxies -> Seq(Batch)]
    /\ awaited \in [Proxies -> Batch \cup {NoBatch}]
    /\ proxyOut \in [Proxies -> Seq(Batch)]
    /\ dataOut \in [Proxies -> Seq(Batch)]

\* The type of every variable (proxy_info, SysMonitor and AppInstance fields,
\* the queues between the threads and the threads' locals).  The counters
\* isTaskBatching and isTaskExec never leave {0, 1}.
TypeOK ==
    /\ AppTypeOK
    /\ reqQueue \in [Models -> Seq(Req)]
    /\ RouteTypeOK
    /\ SchedTypeOK
    /\ CountTypeOK
    /\ BatcherTypeOK
    /\ OutputTypeOK
    /\ LockTypeOK
    /\ outputQueue \in [Proxies -> Seq(Batch)]
    /\ WireTypeOK

\* The threads that form a batch of model m on proxy p.
Forming(p, m) ==
    {t \in Batchers : /\ ProxyOf[t] = p
                      /\ task[t] = m
                      /\ bpc[t] \in {"batching", "formed", "handoff"}}

\* The threads that hand over a batch of m admitted for execution on p.
Sending(p, m) ==
    {t \in Batchers : /\ ProxyOf[t] = p
                      /\ task[t] = m
                      /\ bpc[t] \in {"handoff", "tosend", "pushing"}}

\* The batches of m announced to the output threads of p.
Announced(p, m) == {i \in DOMAIN outputQueue[p] : outputQueue[p][i].model = m}

\* The output threads of p that own a batch of m that is still executing.
Awaiting(p, m) ==
    {o \in Outputs : /\ ProxyOf[o] = p
                     /\ obatch[o].model = m
                     /\ opc[o] \in {"recv", "endexec"}}

AtMostOne(S) == \A x, y \in S : x = y

\* On each proxy at most one thread forms a batch of a model (PerTaskBatchMtx
\* and isTaskBatching, initProxy): two threads never share out one queue.
OneBatching ==
    \A p \in Proxies, m \in Models :
        /\ AtMostOne(Forming(p, m))
        /\ Forming(p, m) # {} <=> isTaskBatching[p][m] = 1

\* On each proxy at most one batch of a model is between its admission by
\* initProxy (isTaskExec++) and the end of its execution in initOutput
\* (isTaskExec--), wherever it is: with the thread that sends it, in
\* PerProxyOutputQueue or with the output thread that awaits its result.
OneExecution ==
    \A p \in Proxies, m \in Models :
        /\ AtMostOne(Sending(p, m))
        /\ AtMostOne(Announced(p, m))
        /\ AtMostOne(Awaiting(p, m))
        /\ Sending(p, m) # {} => Announced(p, m) = {} /\ Awaiting(p, m) = {}
        /\ Announced(p, m) # {} => Awaiting(p, m) = {}
        /\ (Sending(p, m) \cup Announced(p, m) \cup Awaiting(p, m) # {})
               <=> isTaskExec[p][m] = 1

\* The batch that the thread holding sendMtx has announced and not yet sent.
Unsent(p) ==
    LET S == {t \in Batchers : ProxyOf[t] = p /\ bpc[t] = "sending"} IN
    IF S = {} THEN <<>>
    ELSE LET t == CHOOSE t \in S : TRUE
         IN  << [model |-> task[t], reqs |-> batch[t]] >>

\* The batch whose result the output thread holding PerProxyOutputMtx awaits.
Awaited(p) ==
    LET S == {o \in Outputs : ProxyOf[o] = p /\ opc[o] = "recv"} IN
    IF S = {} THEN <<>> ELSE << obatch[CHOOSE o \in S : TRUE] >>

\* The output threads of a proxy (initOutput) receive results in the order in
\* which sendBatchedRequest sends the batches: no result is ever given to the
\* requests of another batch, although batch and result are matched by their
\* position in two unrelated streams only.
ResultsMatch ==
    \A p \in Proxies :
        Awaited(p) \o outputQueue[p] =
            dataOut[p] \o proxyOut[p] \o proxyIn[p] \o dataIn[p] \o Unsent(p)

Single(b) == IF b = NoBatch THEN <<>> ELSE <<b>>

\* The backend's out-thread awaits the outputs of a proxy in the order in
\* which the in-thread forwarded the batches to it (recvBatchedTensor,
\* receiveandsendOutput): the task id it attaches to an output is right.
BackendMatch ==
    \A p \in Proxies :
        Single(awaited[p]) \o backendQueue[p] \o Single(forwarded[p]) =
            proxyOut[p] \o proxyIn[p]

Positions(s, r) == {i \in DOMAIN s : s[i] = r}

\* Where request r is: queued, in a batch, announced, or with an output thread.
Places(r) ==
    (UNION {{<<"queued", m, i>> : i \in Positions(reqQueue[m], r)} : m \in Models})
    \cup (UNION {{<<"batched", t, i>> : i \in Positions(batch[t], r)} :
                     t \in {u \in Batchers : bpc[u] # "sending"}})
    \cup (UNION {UNION {{<<"announced", p, j, i>> :
                             i \in Positions(outputQueue[p][j].reqs, r)} :
                     j \in DOMAIN outputQueue[p]} : p \in Proxies})
    \cup (UNION {{<<"executed", o, i>> : i \in Positions(obatch[o].reqs, r)} :
                     o \in {u \in Outputs : opc[u] \in {"recv", "endexec", "allocate"}}})

\* The application graph is a forest whose roots are the inputs, and the
\* successors of a node run distinct models.
TreeApplication ==
    /\ \A m, n \in Nodes : Succ[m] \cap Succ[n] # {} => m = n
    /\ \A n \in Nodes : Succ[n] \cap Entry = {}
    /\ \A n \in Nodes : \A a, b \in Succ[n] : ModelOf[a] = ModelOf[b] => a = b

\* From its arrival (addtoModelQueue) to its completion (markFinished) a
\* request is in exactly one place of the pipeline, and a finished request is
\* nowhere: none is lost, duplicated or executed twice, whichever threads and
\* proxies share its queue.  (For applications whose graph is a tree.)
NoRequestLost ==
    \A k \in Tasks, n \in Nodes :
        /\ Cardinality(Places(<<k, n>>)) <= 1
        /\ n \in scoreBoard[k] => Places(<<k, n>>) = {}
        /\ n \in received[k] => n \in scoreBoard[k] \/ Places(<<k, n>>) # {}

\* A task none of whose requests was dropped gets exactly one reply, and only
\* when every node that feeds an output is finished: isFinished is true for
\* one caller, although several output threads may ask at once.  A task that
\* was reported as dropped may get more replies, never fewer.
RepliesAccounted ==
    \A k \in Tasks :
        LET sent == replies[k] + Cardinality(Positions(appQueue, k))
        IN  /\ reported[k] => sent >= 1 /\ OutputCheck \subseteq scoreBoard[k]
            /\ (\A n \in Nodes : <<k, n>> \notin reqDropped)
                   => sent = IF reported[k] THEN 1 ELSE 0

\* Every model of the application is routed to a proxy that takes tasks.
Routed == \A n \in Nodes : \E p \in Proxies : /\ ModelOf[n] \in netList[p]
                                               /\ isSchedulable[p]

\* Every task whose inputs have arrived (handleRequest) is answered, if its
\* models are eventually routed for good: no thread of the pipeline waits for
\* ever on a mutex, a condition variable or a result, and no request is
\* forgotten when applyRouting_sync changes the routing under way.
EveryTaskReplied ==
    \A k \in Tasks : received[k] = Entry /\ <>[]Routed ~> replies[k] > 0

\* An unloadModel_async thread ends: the pipeline of its proxy drains.
UnloadCompletes == \A p \in Proxies : upc[p] = "next" ~> upc[p] = "off"
=============================================================================
