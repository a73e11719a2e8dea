------------------------------ MODULE GpuProxy ------------------------------
(***************************************************************************)
(* The life of one GPU partition: the process that serves it (proxy.cpp),  *)
(* and the threads of the frontend that boot it, make it load and unload   *)
(* models and shut it down (global_scheduler_proxy.cpp), for as many       *)
(* epochs of the scheduler as MaxEpochs allows.                            *)
(*                                                                         *)
(* The two sides share one word, the state of the partition in shared      *)
(* memory, and a socket.  The frontend writes LOADING before each request  *)
(* to load or unload and EXITING to end the process, and then polls for    *)
(* the state it hopes for; the process writes RUNNING when its control     *)
(* queue is empty.  Nobody writes the word with a lock.                    *)
(*                                                                         *)
(* Left out: the batches (BatchPipeline has them; so the wait of the       *)
(* unloader for them, and compute's queue), the RPC that carries the       *)
(* frontend's reads and writes to the backend (one step each), and the     *)
(* output socket.  Assumed: a thread starts within an epoch, an unloader   *)
(* ends within one, and a process is gone before its successor starts.     *)
(***************************************************************************)
EXTENDS Naturals, Sequences, FiniteSets

CONSTANTS
    Models,      \* the models that can be loaded
    MaxEpochs,   \* bound on the decisions of the scheduler
    MaxChange    \* most models one decision adds, and most it takes away

ASSUME GpuProxyAssumption ==
    /\ MaxEpochs \in Nat
    /\ MaxChange \in Nat
    /\ IsFiniteSet(Models)

VARIABLES
    \* The scheduler thread (OracleScheduler)
    epoch,        \* the number of decisions so far
    mNeedUpdate,  \* a decision waits to be installed
    next,         \* the partition's tasks in mNextState
    applying,     \* inside applyRouting_sync, waiting for the loader
    curr,         \* the partition's tasks in mCurrState
    netList,      \* the routing: the ProxyNetList of the partition
    \* The frontend's record of the partition (proxy_info)
    isLoading, isUnloading, isConnected, isBooted, LoadedModels,
    \* The threads loadModel_sync and unloadModel_async
    lpc, lmodels, lmodel,
    upc, exempting, umodel,
    \* Shared by both sides
    shm,          \* the state in shared memory
    conn,         \* the input socket is connected
    inbox,        \* what was sent on it and not yet read
    \* The process (proxy.cpp)
    mpc,          \* main, with the threads compute and control that it joins
    rpc, held,    \* recvInput, and the message it is about to queue
    cpc, job,     \* loadControl, and the element it handles
    g_ControlQueue, g_exitFlag, g_input_closed,
    g_loadedModelIDs

schedVars == <<epoch, mNeedUpdate, next, applying, curr, netList>>
infoVars == <<isLoading, isUnloading, isConnected, isBooted, LoadedModels>>
loaderVars == <<lpc, lmodels, lmodel>>
unloaderVars == <<upc, exempting, umodel>>
frontVars == <<schedVars, infoVars, loaderVars, unloaderVars>>
procVars == <<mpc, rpc, held, cpc, job, g_ControlQueue, g_exitFlag,
              g_input_closed, g_loadedModelIDs>>

vars == <<frontVars, shm, conn, inbox, procVars>>

-----------------------------------------------------------------------------
\* enum proxy_state
proxy_state == {"COLD", "BOOTING", "RUNNING", "LOADING", "EXITING", "FLUSHED"}

\* The word in shared memory is written and polled without a lock.
markProxy(state) == shm' = state
waitProxy(state) == shm = state

NoModel == "no model"

Message == [act : {"LOAD", "UNLOAD"}, model : Models]
CloseSocket == [act |-> "CLOSE", model |-> NoModel]
NoMessage == [act |-> "none", model |-> NoModel]

TypeOK ==
    /\ epoch \in 0 .. MaxEpochs
    /\ mNeedUpdate \in BOOLEAN
    /\ next \subseteq Models
    /\ applying \in BOOLEAN
    /\ curr \subseteq Models
    /\ netList \subseteq Models
    /\ isLoading \in BOOLEAN
    /\ isUnloading \in BOOLEAN
    /\ isConnected \in BOOLEAN
    /\ isBooted \in BOOLEAN
    /\ LoadedModels \subseteq Models
    /\ lpc \in {"off", "spawned", "wait", "start", "boot", "load", "send"}
    /\ lmodels \subseteq Models
    /\ lmodel \in Models \cup {NoModel}
    /\ upc \in {"off", "unload", "send", "end", "flush", "cold"}
    /\ exempting \subseteq Models
    /\ umodel \in Models \cup {NoModel}
    /\ shm \in proxy_state
    /\ conn \in BOOLEAN
    /\ inbox \in Seq(Message \cup {CloseSocket})
    /\ mpc \in {"off", "boot", "run", "exit", "flushed", "return"}
    /\ rpc \in {"off", "accept", "read", "push"}
    /\ held \in Message \cup {NoMessage}
    /\ cpc \in {"off", "wait", "handle", "check", "mark"}
    /\ job \in Message \cup {NoMessage}
    /\ g_ControlQueue \in Seq(Message)
    /\ g_exitFlag \in BOOLEAN
    /\ g_input_closed \in BOOLEAN
    /\ g_loadedModelIDs \subseteq Models

Init ==
    /\ epoch = 0 /\ mNeedUpdate = FALSE /\ next = {} /\ applying = FALSE
    /\ curr = {} /\ netList = {}
    /\ isLoading = FALSE /\ isUnloading = FALSE
    /\ isConnected = FALSE /\ isBooted = FALSE /\ LoadedModels = {}
    /\ lpc = "off" /\ lmodels = {} /\ lmodel = NoModel
    /\ upc = "off" /\ exempting = {} /\ umodel = NoModel
    /\ shm = "COLD" /\ conn = FALSE /\ inbox = <<>>
    /\ mpc = "off" /\ rpc = "off" /\ held = NoMessage
    /\ cpc = "off" /\ job = NoMessage
    /\ g_ControlQueue = <<>> /\ g_exitFlag = FALSE
    /\ g_input_closed = TRUE /\ g_loadedModelIDs = {}

-----------------------------------------------------------------------------
(***************************************************************************)
(* The scheduler thread.  In an epoch it installs the previous decision    *)
(* and makes the next one.                                                 *)
(***************************************************************************)

\* A partition that has tasks gets a loader.
additionalLoad(S) ==
    IF S = {}
    THEN UNCHANGED <<lpc, lmodels>>
    ELSE /\ lpc' = "spawned"
         /\ lmodels' = S

\* A decision is the scheduling algorithm's; here it is any.
Decide(S) ==
    /\ epoch < MaxEpochs
    /\ ~mNeedUpdate
    /\ Cardinality(S \ curr) <= MaxChange
    /\ Cardinality(curr \ S) <= MaxChange
    /\ epoch' = epoch + 1
    /\ mNeedUpdate' = TRUE
    /\ next' = S
    /\ additionalLoad(S)
    /\ UNCHANGED <<applying, curr, netList, infoVars, lmodel, unloaderVars,
                   shm, conn, inbox, procVars>>

\* applyRouting_sync clears the routing, and then waits for ~isLoading.
FlushRouting ==
    /\ mNeedUpdate
    /\ ~applying
    /\ lpc # "spawned"
    /\ applying' = TRUE
    /\ netList' = {}
    /\ UNCHANGED <<epoch, mNeedUpdate, next, curr, infoVars, loaderVars,
                   unloaderVars, shm, conn, inbox, procVars>>

\* The partition holds a model that is not among its tasks.
needToUnload(S) == LoadedModels \ S # {}

\* A partition that had tasks gets an unloader if it needs one.
unloadModels(S) ==
    IF curr # {} /\ needToUnload(S)
    THEN /\ isUnloading' = TRUE
         /\ upc' = "unload"
         /\ exempting' = S
    ELSE UNCHANGED <<isUnloading, upc, exempting>>

\* applyRouting_sync installs the routing, and OracleScheduler, in the same
\* breath, goes on to unloadModels.
InstallRouting ==
    /\ applying
    /\ ~isLoading
    /\ upc = "off"
    /\ applying' = FALSE
    /\ netList' = next
    /\ curr' = next
    /\ mNeedUpdate' = FALSE
    /\ next' = {}
    /\ unloadModels(next)
    /\ UNCHANGED <<epoch, isLoading, isConnected, isBooted, LoadedModels,
                   loaderVars, umodel, shm, conn, inbox, procVars>>

-----------------------------------------------------------------------------
(***************************************************************************)
(* loadModel_sync, in a thread of its own                                  *)
(***************************************************************************)

\* The thread starts: only now is isLoading set.
LoaderStart ==
    /\ lpc = "spawned"
    /\ lpc' = "wait"
    /\ isLoading' = TRUE
    /\ UNCHANGED <<schedVars, isUnloading, isConnected, isBooted,
                   LoadedModels, lmodels, lmodel, unloaderVars, shm, conn,
                   inbox, procVars>>

\* The unloader, if there is one, has ended; is there a process?
LoaderCheck ==
    /\ lpc = "wait"
    /\ ~isUnloading
    /\ lpc' = IF shm = "COLD" THEN "start" ELSE "load"
    /\ UNCHANGED <<schedVars, infoVars, lmodels, lmodel, unloaderVars, shm,
                   conn, inbox, procVars>>

\* startProxy boots a process and waits for it to report BOOTING.  (Its
\* early return for a partition that is BOOTING already never happens:
\* LoaderCheck has just seen it COLD.)
startProxy ==
    /\ lpc = "start"
    /\ shm = "COLD"
    /\ mpc = "off"
    /\ lpc' = "boot"
    /\ markProxy("BOOTING")
    /\ mpc' = "boot"
    /\ rpc' = "accept"
    /\ cpc' = "wait"
    /\ UNCHANGED <<schedVars, infoVars, lmodels, lmodel, unloaderVars, conn,
                   inbox, held, job, g_ControlQueue, g_exitFlag,
                   g_input_closed, g_loadedModelIDs>>

\* bootProxy_sync sees RUNNING and connects.
connectProxy ==
    /\ lpc = "boot"
    /\ waitProxy("RUNNING")
    /\ lpc' = "load"
    /\ isBooted' = TRUE
    /\ isConnected' = TRUE
    /\ conn' = TRUE
    /\ inbox' = <<>>
    /\ UNCHANGED <<schedVars, isLoading, isUnloading, LoadedModels, lmodels,
                   lmodel, unloaderVars, shm, procVars>>

\* For a model that is not loaded yet: markProxy(LOADING) ...
MarkBeforeLoad ==
    /\ lpc = "load"
    /\ \E m \in lmodels \ LoadedModels : lmodel' = m
    /\ lpc' = "send"
    /\ markProxy("LOADING")
    /\ UNCHANGED <<schedVars, infoVars, lmodels, unloaderVars, conn, inbox,
                   procVars>>

\* ... and makeProxyLoadModel, which marks LOADING again and sends.  Nobody
\* reads LoadedModels while isLoading, so it is updated here.
makeProxyLoadModel ==
    /\ lpc = "send"
    /\ lpc' = "load"
    /\ markProxy("LOADING")
    /\ inbox' = Append(inbox, [act |-> "LOAD", model |-> lmodel])
    /\ LoadedModels' = LoadedModels \cup {lmodel}
    /\ lmodel' = NoModel
    /\ UNCHANGED <<schedVars, isLoading, isUnloading, isConnected, isBooted,
                   lmodels, unloaderVars, conn, procVars>>

\* waitProxy(RUNNING)
LoaderEnd ==
    /\ lpc = "load"
    /\ lmodels \subseteq LoadedModels
    /\ waitProxy("RUNNING")
    /\ lpc' = "off"
    /\ lmodels' = {}
    /\ isLoading' = FALSE
    /\ UNCHANGED <<schedVars, isUnloading, isConnected, isBooted,
                   LoadedModels, lmodel, unloaderVars, shm, conn, inbox,
                   procVars>>

Loader == \/ LoaderStart \/ LoaderCheck \/ startProxy \/ connectProxy
          \/ MarkBeforeLoad \/ makeProxyLoadModel \/ LoaderEnd

-----------------------------------------------------------------------------
(***************************************************************************)
(* unloadModel_async, in a thread of its own                               *)
(***************************************************************************)

\* Mutant: unloads the exempt models too.
MarkBeforeUnloadAll ==
    /\ upc = "unload"
    /\ \E m \in LoadedModels : umodel' = m
    /\ upc' = "send"
    /\ markProxy("LOADING")
    /\ UNCHANGED <<schedVars, infoVars, loaderVars, exempting, conn, inbox,
                   procVars>>

\* For a loaded model that is not exempt: markProxy(LOADING) ...
MarkBeforeUnload ==
    /\ upc = "unload"
    /\ \E m \in LoadedModels \ exempting : umodel' = m
    /\ upc' = "send"
    /\ markProxy("LOADING")
    /\ UNCHANGED <<schedVars, infoVars, loaderVars, exempting, conn, inbox,
                   procVars>>

\* ... and makeProxyUnloadModel.
makeProxyUnloadModel ==
    /\ upc = "send"
    /\ upc' = "unload"
    /\ markProxy("LOADING")
    /\ inbox' = Append(inbox, [act |-> "UNLOAD", model |-> umodel])
    /\ LoadedModels' = LoadedModels \ {umodel}
    /\ umodel' = NoModel
    /\ UNCHANGED <<schedVars, isLoading, isUnloading, isConnected, isBooted,
                   loaderVars, exempting, conn, procVars>>

\* Mutant: does not wait for RUNNING.
UnloaderEndNoWait ==
    /\ upc = "unload"
    /\ LoadedModels \subseteq exempting
    /\ IF LoadedModels = {}
       THEN /\ upc' = "end"
            /\ UNCHANGED <<isUnloading, exempting>>
       ELSE /\ upc' = "off"
            /\ exempting' = {}
            /\ isUnloading' = FALSE
    /\ UNCHANGED <<schedVars, isLoading, isConnected, isBooted, LoadedModels,
                   loaderVars, umodel, shm, conn, inbox, procVars>>

\* waitProxy(RUNNING); without a model left, the process is shut down.
UnloaderEnd ==
    /\ upc = "unload"
    /\ LoadedModels \subseteq exempting
    /\ waitProxy("RUNNING")
    /\ IF LoadedModels = {}
       THEN /\ upc' = "end"
            /\ UNCHANGED <<isUnloading, exempting>>
       ELSE /\ upc' = "off"
            /\ exempting' = {}
            /\ isUnloading' = FALSE
    /\ UNCHANGED <<schedVars, isLoading, isConnected, isBooted, LoadedModels,
                   loaderVars, umodel, shm, conn, inbox, procVars>>

\* shutdownProxy_sync: endProxy ...
endProxy ==
    /\ upc = "end"
    /\ upc' = "flush"
    /\ markProxy("EXITING")
    /\ isBooted' = FALSE
    /\ UNCHANGED <<schedVars, isLoading, isUnloading, isConnected,
                   LoadedModels, loaderVars, exempting, umodel, conn, inbox,
                   procVars>>

\* ... waitProxy(FLUSHED) and disconnectProxy ...
disconnectProxy ==
    /\ upc = "flush"
    /\ waitProxy("FLUSHED")
    /\ upc' = "cold"
    /\ isConnected' = FALSE
    /\ inbox' = Append(inbox, CloseSocket)
    /\ UNCHANGED <<schedVars, isLoading, isUnloading, isBooted, LoadedModels,
                   loaderVars, exempting, umodel, shm, conn, procVars>>

\* ... and waitProxy(COLD).
ShutdownEnd ==
    /\ upc = "cold"
    /\ waitProxy("COLD")
    /\ upc' = "off"
    /\ exempting' = {}
    /\ isUnloading' = FALSE
    /\ UNCHANGED <<schedVars, isLoading, isConnected, isBooted, LoadedModels,
                   loaderVars, umodel, shm, conn, inbox, procVars>>

Unloader == \/ MarkBeforeUnload \/ makeProxyUnloadModel \/ UnloaderEnd
            \/ endProxy \/ disconnectProxy \/ ShutdownEnd

-----------------------------------------------------------------------------
(***************************************************************************)
(* The process: main, compute and control                                  *)
(***************************************************************************)

\* compute has initialised PyTorch and marks the partition RUNNING.
ComputeReady ==
    /\ mpc = "boot"
    /\ mpc' = "run"
    /\ markProxy("RUNNING")
    /\ UNCHANGED <<frontVars, conn, inbox, rpc, held, cpc, job,
                   g_ControlQueue, g_exitFlag, g_input_closed,
                   g_loadedModelIDs>>

\* control polls the state until it is EXITING.
control ==
    /\ mpc = "run"
    /\ shm = "EXITING"
    /\ mpc' = "exit"
    /\ g_exitFlag' = TRUE
    /\ UNCHANGED <<frontVars, shm, conn, inbox, rpc, held, cpc, job,
                   g_ControlQueue, g_input_closed, g_loadedModelIDs>>

\* main has joined control and compute.
MainFlushed ==
    /\ mpc = "exit"
    /\ mpc' = "flushed"
    /\ markProxy("FLUSHED")
    /\ UNCHANGED <<frontVars, conn, inbox, rpc, held, cpc, job,
                   g_ControlQueue, g_exitFlag, g_input_closed,
                   g_loadedModelIDs>>

\* main has waited for the input socket to be closed.
MainCold ==
    /\ mpc = "flushed"
    /\ g_input_closed
    /\ mpc' = "return"
    /\ markProxy("COLD")
    /\ UNCHANGED <<frontVars, conn, inbox, rpc, held, cpc, job,
                   g_ControlQueue, g_exitFlag, g_input_closed,
                   g_loadedModelIDs>>

\* main returns, and its detached threads end with it.  The memory of the
\* next process is a fresh one.
MainReturn ==
    /\ mpc = "return"
    /\ mpc' = "off"
    /\ rpc' = "off" /\ held' = NoMessage
    /\ cpc' = "off" /\ job' = NoMessage
    /\ g_ControlQueue' = <<>> /\ g_exitFlag' = FALSE
    /\ g_input_closed' = TRUE /\ g_loadedModelIDs' = {}
    /\ UNCHANGED <<frontVars, shm, conn, inbox>>

Main == ComputeReady \/ control \/ MainFlushed \/ MainCold \/ MainReturn

-----------------------------------------------------------------------------
(***************************************************************************)
(* The process: recvInput                                                  *)
(***************************************************************************)

Accept ==
    /\ rpc = "accept"
    /\ conn
    /\ rpc' = "read"
    /\ g_input_closed' = FALSE
    /\ UNCHANGED <<frontVars, shm, conn, inbox, mpc, held, cpc, job,
                   g_ControlQueue, g_exitFlag, g_loadedModelIDs>>

\* Mutant: g_input_closed is not set.
ReadInputNotClosed ==
    /\ rpc = "read"
    /\ inbox # <<>>
    /\ inbox' = Tail(inbox)
    /\ IF Head(inbox) = CloseSocket
       THEN /\ conn' = FALSE
            /\ UNCHANGED g_input_closed
            /\ rpc' = IF g_exitFlag THEN "off" ELSE "accept"
            /\ UNCHANGED held
       ELSE /\ rpc' = "push"
            /\ held' = Head(inbox)
            /\ UNCHANGED <<conn, g_input_closed>>
    /\ UNCHANGED <<frontVars, shm, mpc, cpc, job, g_ControlQueue,
                   g_exitFlag, g_loadedModelIDs>>

\* A message to load or unload, or CLOSE_SOCKET: then the thread ends if
\* g_exitFlag is set, and waits for another connection otherwise.
ReadInput ==
    /\ rpc = "read"
    /\ inbox # <<>>
    /\ inbox' = Tail(inbox)
    /\ IF Head(inbox) = CloseSocket
       THEN /\ conn' = FALSE
            /\ g_input_closed' = TRUE
            /\ rpc' = IF g_exitFlag THEN "off" ELSE "accept"
            /\ UNCHANGED held
       ELSE /\ rpc' = "push"
            /\ held' = Head(inbox)
            /\ UNCHANGED <<conn, g_input_closed>>
    /\ UNCHANGED <<frontVars, shm, mpc, cpc, job, g_ControlQueue,
                   g_exitFlag, g_loadedModelIDs>>

\* g_CqueueMtx is free while loadControl waits for its condition, and after
\* it has ended.
CqueueFree == cpc \in {"wait", "off"}

\* pushToQueue
pushToQueue ==
    /\ rpc = "push"
    /\ CqueueFree
    /\ rpc' = "read"
    /\ held' = NoMessage
    /\ g_ControlQueue' = Append(g_ControlQueue, held)
    /\ UNCHANGED <<frontVars, shm, conn, inbox, mpc, cpc, job, g_exitFlag,
                   g_input_closed, g_loadedModelIDs>>

recvInput == Accept \/ ReadInput \/ pushToQueue

-----------------------------------------------------------------------------
(***************************************************************************)
(* The process: loadControl, which holds g_CqueueMtx from the pop to the   *)
(* mark                                                                    *)
(***************************************************************************)

ControlPop ==
    /\ cpc = "wait"
    /\ IF g_exitFlag
       THEN /\ cpc' = "off"
            /\ UNCHANGED <<job, g_ControlQueue>>
       ELSE /\ g_ControlQueue # <<>>
            /\ cpc' = "handle"
            /\ job' = Head(g_ControlQueue)
            /\ g_ControlQueue' = Tail(g_ControlQueue)
    /\ UNCHANGED <<frontVars, shm, conn, inbox, mpc, rpc, held, g_exitFlag,
                   g_input_closed, g_loadedModelIDs>>

\* Both skip a model that is loaded already, or is not loaded.
loadModel(id) == g_loadedModelIDs' = g_loadedModelIDs \cup {id}
unloadModel(id) == g_loadedModelIDs' = g_loadedModelIDs \ {id}

ControlHandle ==
    /\ cpc = "handle"
    /\ cpc' = "check"
    /\ IF job.act = "LOAD" THEN loadModel(job.model)
                           ELSE unloadModel(job.model)
    /\ UNCHANGED <<frontVars, shm, conn, inbox, mpc, rpc, held, job,
                   g_ControlQueue, g_exitFlag, g_input_closed>>

\* Mutant: the test for EXITING is inverted.
ControlCheckExiting ==
    /\ cpc = "check"
    /\ cpc' = IF g_ControlQueue = <<>> /\ shm = "EXITING"
              THEN "mark" ELSE "wait"
    /\ job' = NoMessage
    /\ UNCHANGED <<frontVars, shm, conn, inbox, mpc, rpc, held,
                   g_ControlQueue, g_exitFlag, g_input_closed,
                   g_loadedModelIDs>>

\* Nothing more to do, and the partition not about to exit: ...
ControlCheck ==
    /\ cpc = "check"
    /\ cpc' = IF g_ControlQueue = <<>> /\ shm # "EXITING"
              THEN "mark" ELSE "wait"
    /\ job' = NoMessage
    /\ UNCHANGED <<frontVars, shm, conn, inbox, mpc, rpc, held,
                   g_ControlQueue, g_exitFlag, g_input_closed,
                   g_loadedModelIDs>>

\* ... markProxy(RUNNING), whatever the state has become.
ControlMark ==
    /\ cpc = "mark"
    /\ cpc' = "wait"
    /\ markProxy("RUNNING")
    /\ UNCHANGED <<frontVars, conn, inbox, mpc, rpc, held, job,
                   g_ControlQueue, g_exitFlag, g_input_closed,
                   g_loadedModelIDs>>

loadControl == ControlPop \/ ControlHandle \/ ControlCheck \/ ControlMark

-----------------------------------------------------------------------------
Next == \/ \E S \in SUBSET Models : Decide(S)
        \/ FlushRouting
        \/ InstallRouting
        \/ Loader
        \/ Unloader
        \/ Main
        \/ recvInput
        \/ loadControl

Spec == Init /\ [][Next]_vars

(***************************************************************************)
(* Fairness: the operating system keeps running every thread that can take *)
(* a step.  Nothing is assumed of what the scheduling algorithm decides.   *)
(***************************************************************************)
Fairness == /\ WF_vars(FlushRouting) /\ WF_vars(InstallRouting)
            /\ WF_vars(Loader) /\ WF_vars(Unloader)
            /\ WF_vars(Main) /\ WF_vars(recvInput) /\ WF_vars(loadControl)

FairSpec == Spec /\ Fairness
-----------------------------------------------------------------------------
(***************************************************************************)
(* What the partition promises                                             *)
(***************************************************************************)

\* The assertions of bootProxy_sync and shutdownProxy_sync hold.
AssertsHold ==
    /\ lpc = "start" => ~isConnected
    /\ upc = "end" => LoadedModels = {} /\ isConnected /\ isBooted

\* The frontend's record of the partition is right over many epochs: while
\* nobody loads or unloads, LoadedModels is what the process holds (the next
\* decision is taken from it), and a boot or a shutdown finds the flags of
\* the connection as it asserts them.
RecordAgrees ==
    /\ lpc = "off" /\ upc = "off" => LoadedModels = g_loadedModelIDs
    /\ AssertsHold

\* With the models of the process and the routing of the frontend as its
\* state, the partition implements ModelHost: a model is never unloaded
\* under a routing, and never routed to before it is loaded.
Host == INSTANCE ModelHost
            WITH served <- netList, loaded <- g_loadedModelIDs
ImplementsHost == Host!Spec

\* Every decision of the scheduler is installed: no loader waits for ever
\* in waitProxy, and applyRouting_sync not for ever for a loader.
DecisionApplied == mNeedUpdate ~> ~mNeedUpdate

\* Every unloader ends, the shutdown of a partition without models
\* included: endProxy's EXITING always leads to FLUSHED and to COLD.
UnloaderEnds == isUnloading ~> ~isUnloading
=============================================================================
