--------------------------- MODULE GpuProxy_proofs ---------------------------
(***************************************************************************)
(* Proofs about GpuProxy, for any set of models and any number of epochs:  *)
(* the frontend's record of a partition agrees with its process, and the   *)
(* partition implements ModelHost, when a decision of the scheduler adds   *)
(* one model at most and takes away one at most.                           *)
(***************************************************************************)
EXTENDS GpuProxy, FiniteSetTheorems, SequenceTheorems, TLAPS

\* A decision changes the tasks of the partition by one model either way.
\* With more, ControlMark may answer the first request of a thread after the
\* second was sent, and the thread takes it for the answer to both.
OneChange == MaxChange = 1

AtMostOne(S) == \A x, y \in S : x = y

-----------------------------------------------------------------------------
(***************************************************************************)
(* The inductive invariant.                                                *)
(***************************************************************************)

\* What the flags, the threads and the decision say of each other.
ThreadsInv ==
    /\ isLoading <=> lpc \notin {"off", "spawned"}
    /\ isUnloading <=> upc # "off"
    /\ upc # "off" => lpc \in {"off", "spawned", "wait"} /\ exempting = curr
    /\ lpc # "off" => mNeedUpdate /\ lmodels = next /\ next # {}
    /\ applying => mNeedUpdate /\ lpc # "spawned"
    /\ netList \in {curr, {}}
    /\ lpc = "send" => lmodel \in lmodels \ LoadedModels
    /\ upc = "send" => umodel \in LoadedModels \ exempting

\* LoadedModels holds the tasks of the installed schedule; an unloader has one
\* model at most to unload and a loader one at most to load.
PlanInv ==
    /\ mNeedUpdate => AtMostOne(next \ curr) /\ AtMostOne(curr \ next)
    /\ curr \subseteq LoadedModels
    /\ upc # "off" /\ lpc = "off" /\ mNeedUpdate => next = {}
    /\ upc \in {"unload", "send"} => AtMostOne(LoadedModels \ curr)
    /\ upc \in {"end", "flush", "cold"} => LoadedModels = {}
    /\ upc = "off" =>
        /\ lpc \in {"load", "send"} => LoadedModels \subseteq curr \cup next
        /\ lpc = "off" /\ mNeedUpdate => LoadedModels = curr \cup next
        /\ lpc = "off" /\ ~mNeedUpdate => LoadedModels = curr
        /\ lpc \in {"spawned", "wait", "start", "boot"} => LoadedModels = curr

\* No message is in the process, or one.
NoneInside == /\ held = NoMessage /\ g_ControlQueue = <<>> /\ job = NoMessage
              /\ rpc # "push" /\ cpc \in {"wait", "off"}
Idle == inbox = <<>> /\ NoneInside

\* The message M is on its way to loadControl: on the socket, with recvInput,
\* in the control queue or with loadControl.
OnSocket(M) == /\ inbox = <<M>> /\ rpc \in {"accept", "read"}
               /\ NoneInside /\ cpc = "wait"
Read(M) == /\ inbox = <<>> /\ rpc = "push" /\ held = M
           /\ g_ControlQueue = <<>> /\ job = NoMessage /\ cpc = "wait"
InQueue(M) == /\ inbox = <<>> /\ rpc = "read" /\ held = NoMessage
              /\ g_ControlQueue = <<M>> /\ job = NoMessage /\ cpc = "wait"
Popped(M) == /\ inbox = <<>> /\ rpc = "read" /\ held = NoMessage
             /\ g_ControlQueue = <<>> /\ job = M /\ cpc = "handle"
Carried(M) == OnSocket(M) \/ Read(M) \/ InQueue(M) \/ Popped(M)

\* The thread that sent it has nothing more to send, and waits; the record is
\* a step ahead of the process.
Asked(M) ==
    \/ /\ M.act = "LOAD" /\ lpc = "load" /\ lmodels \subseteq LoadedModels
       /\ LoadedModels = g_loadedModelIDs \cup {M.model}
    \/ /\ M.act = "UNLOAD" /\ upc = "unload" /\ LoadedModels \subseteq curr
       /\ M.model \notin curr
       /\ LoadedModels = g_loadedModelIDs \ {M.model}

\* The message was handled, RUNNING not yet marked.
Handled ==
    /\ inbox = <<>> /\ held = NoMessage /\ rpc = "read" /\ g_ControlQueue = <<>>
    /\ \/ cpc = "check"
       \/ cpc = "mark" /\ job = NoMessage
    /\ \/ lpc = "load" /\ lmodels \subseteq LoadedModels
       \/ upc = "unload" /\ LoadedModels \subseteq curr

\* The life of the process: there is none, ...
Down ==
    /\ mpc \in {"off", "return"} /\ shm = "COLD" /\ ~conn /\ ~isConnected /\ ~isBooted
    /\ LoadedModels = {} /\ g_loadedModelIDs = {} /\ Idle /\ rpc = "off"
    /\ mpc = "off" => ~g_exitFlag /\ cpc = "off"
    /\ lpc \in {"off", "spawned", "wait", "start"} /\ upc \in {"off", "cold"}

\* ... it starts, ...
Booting ==
    /\ lpc = "boot" /\ upc = "off"
    /\ \/ mpc = "boot" /\ shm = "BOOTING"
       \/ mpc = "run" /\ shm = "RUNNING"
    /\ ~conn /\ ~isConnected /\ ~isBooted /\ ~g_exitFlag
    /\ LoadedModels = {} /\ g_loadedModelIDs = {}
    /\ Idle /\ cpc = "wait" /\ rpc = "accept"

\* ... serves, ...
Serving ==
    /\ mpc = "run" /\ conn /\ isConnected /\ isBooted /\ ~g_exitFlag
    /\ lpc \in {"off", "spawned", "wait", "load", "send"}
    /\ upc \in {"off", "unload", "send", "end"}
    /\ rpc = "accept" => lpc \in {"load", "send"} /\ (LoadedModels # {} => inbox # <<>>)
    /\ rpc # "accept" => ~g_input_closed
    /\ rpc # "off"
Resting ==
    /\ Idle /\ cpc = "wait" /\ g_loadedModelIDs = LoadedModels
    /\ shm = IF lpc = "send" \/ upc = "send" THEN "LOADING" ELSE "RUNNING"
Busy ==
    /\ shm = "LOADING"
    /\ \/ \E M \in Message : Carried(M) /\ Asked(M)
       \/ Handled /\ g_loadedModelIDs = LoadedModels
Up == Serving /\ (Resting \/ Busy)

\* ... is told to exit, ...
Exiting ==
    /\ upc = "flush" /\ conn /\ isConnected /\ ~isBooted
    /\ LoadedModels = {} /\ g_loadedModelIDs = {}
    /\ Idle /\ rpc = "read" /\ ~g_input_closed
    /\ \/ mpc = "run" /\ shm = "EXITING" /\ ~g_exitFlag
       \/ mpc = "exit" /\ shm = "EXITING" /\ g_exitFlag
       \/ mpc = "flushed" /\ shm = "FLUSHED" /\ g_exitFlag

\* ... and is disconnected.
Closing ==
    /\ upc = "cold" /\ mpc = "flushed" /\ shm = "FLUSHED" /\ g_exitFlag
    /\ ~isConnected /\ ~isBooted /\ LoadedModels = {} /\ g_loadedModelIDs = {}
    /\ NoneInside
    /\ \/ inbox = <<CloseSocket>> /\ rpc = "read" /\ conn /\ ~g_input_closed
       \/ inbox = <<>> /\ rpc = "off" /\ ~conn /\ g_input_closed

ProcessInv == Down \/ Booting \/ Up \/ Exiting \/ Closing

IInv == TypeOK /\ ThreadsInv /\ PlanInv /\ ProcessInv

-----------------------------------------------------------------------------
(***************************************************************************)
(* Facts about the data.                                                   *)
(***************************************************************************)

\* A queue of one message.
LEMMA OneMessage ==
    \A M : /\ <<M>> # <<>> /\ Head(<<M>>) = M /\ Tail(<<M>>) = <<>>
           /\ Append(<<>>, M) = <<M>>
  OBVIOUS

\* The messages, the closing of the socket and "none" are different.
LEMMA MessageKinds ==
    /\ NoMessage \notin Message /\ CloseSocket \notin Message
    /\ \A M \in Message : M.act \in {"LOAD", "UNLOAD"} /\ M.model \in Models
    /\ \A m \in Models : /\ [act |-> "LOAD", model |-> m] \in Message
                         /\ [act |-> "UNLOAD", model |-> m] \in Message
  BY DEF Message, NoMessage, CloseSocket

\* Decide's bounds on a decision.
LEMMA OneAtMost ==
    ASSUME OneChange, NEW S \in SUBSET Models, Cardinality(S) <= MaxChange
    PROVE  AtMostOne(S)
<1>1. IsFiniteSet(S)
  BY GpuProxyAssumption, FS_Subset
<1>2. Cardinality(S) \in Nat
  BY <1>1, FS_CardinalityType
<1>3. Cardinality(S) = 0 \/ Cardinality(S) = 1
  BY <1>2 DEF OneChange
<1>4. S = {} \/ \E x : S = {x}
  BY <1>1, <1>3, FS_EmptySet, FS_Singleton
<1> QED
  BY <1>4 DEF AtMostOne

\* The invariant holds at the start.
LEMMA InitIInv == Init => IInv
<1> SUFFICES ASSUME Init PROVE IInv
  OBVIOUS
<1>1. TypeOK
  <2>1. epoch \in 0 .. MaxEpochs
    BY GpuProxyAssumption DEF Init
  <2>2. inbox \in Seq(Message \cup {CloseSocket}) /\ g_ControlQueue \in Seq(Message)
    BY DEF Init
  <2> QED
    BY <2>1, <2>2 DEF Init, TypeOK, proxy_state
<1>2. ThreadsInv /\ PlanInv
  BY DEF Init, ThreadsInv, PlanInv, AtMostOne
<1>3. Down
  BY DEF Init, Down, Idle, NoneInside
<1> QED
  BY <1>1, <1>2, <1>3 DEF IInv, ProcessInv

-----------------------------------------------------------------------------
(***************************************************************************)
(* The scheduler thread.                                                   *)
(***************************************************************************)

\* A decision: a loader is started if there are tasks.
LEMMA DecideStep ==
    ASSUME OneChange, IInv, NEW S \in SUBSET Models, Decide(S)
    PROVE  IInv'
<1> USE DEF IInv
<1>1. /\ ~mNeedUpdate /\ epoch < MaxEpochs /\ epoch' = epoch + 1
      /\ mNeedUpdate' = TRUE /\ next' = S
      /\ S = {} => UNCHANGED <<lpc, lmodels>>
      /\ S # {} => lpc' = "spawned" /\ lmodels' = S
      /\ UNCHANGED <<applying, curr, netList, infoVars, lmodel, unloaderVars,
                     shm, conn, inbox, procVars>>
  BY DEF Decide, additionalLoad
<1>2. lpc = "off" /\ ~isLoading /\ ~applying
  BY <1>1 DEF ThreadsInv
<1>3. AtMostOne(S \ curr) /\ AtMostOne(curr \ S)
  <2>1. S \ curr \in SUBSET Models /\ curr \ S \in SUBSET Models
    BY DEF TypeOK
  <2> QED
    BY <2>1, OneAtMost DEF Decide
<1>4. TypeOK'
  BY <1>1, GpuProxyAssumption DEF TypeOK, infoVars, unloaderVars, procVars
<1>5. ThreadsInv'
  BY <1>1, <1>2 DEF ThreadsInv, infoVars, unloaderVars
<1>6. PlanInv'
  BY <1>1, <1>2, <1>3 DEF PlanInv, infoVars, unloaderVars
<1>7. ProcessInv'
  <2>1. CASE Down
    BY <1>1, <2>1 DEF Down, Idle, NoneInside, infoVars, unloaderVars, procVars, ProcessInv
  <2>2. CASE Up
    <3>1. Serving'
      BY <1>1, <1>2, <2>2 DEF Up, Serving, infoVars, unloaderVars, procVars
    <3>2. CASE Resting
      BY <1>1, <1>2, <3>1, <3>2 DEF Up, Resting, Idle, NoneInside, infoVars,
         unloaderVars, procVars, ProcessInv
    <3>3. CASE Busy
      <4>1. (\A M : Carried(M)' <=> Carried(M)) /\ (Handled => Handled')
        BY <1>1, <1>2 DEF Carried, OnSocket, Read, InQueue, Popped, NoneInside,
           Handled, infoVars, unloaderVars, procVars
      <4>2. \A M : Asked(M) => Asked(M)'
        BY <1>1, <1>2 DEF Asked, infoVars, unloaderVars, procVars
      <4>3. Busy'
        BY <1>1, <3>3, <4>1, <4>2 DEF Busy, infoVars, procVars
      <4> QED
        BY <3>1, <4>3 DEF Up, ProcessInv
    <3> QED
      BY <2>2, <3>2, <3>3 DEF Up
  <2>3. CASE Exiting \/ Closing
    BY <1>1, <2>3 DEF Exiting, Closing, Idle, NoneInside, infoVars, unloaderVars,
       procVars, ProcessInv
  <2>4. ~Booting
    BY <1>2 DEF Booting
  <2> QED
    BY <2>1, <2>2, <2>3, <2>4 DEF ProcessInv
<1> QED
  BY <1>4, <1>5, <1>6, <1>7

\* The routing is cleared.
LEMMA FlushRoutingStep ==
    ASSUME IInv, FlushRouting
    PROVE  IInv'
<1> USE DEF IInv
<1>1. /\ mNeedUpdate /\ lpc # "spawned" /\ applying' = TRUE /\ netList' = {}
      /\ UNCHANGED <<epoch, mNeedUpdate, next, curr, infoVars, loaderVars,
                     unloaderVars, shm, conn, inbox, procVars>>
  BY DEF FlushRouting
<1>2. TypeOK' /\ ThreadsInv' /\ PlanInv'
  BY <1>1 DEF TypeOK, ThreadsInv, PlanInv, infoVars, loaderVars, unloaderVars, procVars
<1>3. ProcessInv'
  BY <1>1 DEF ProcessInv, Down, Booting, Up, Serving, Resting, Busy, Exiting, Closing,
     Carried, OnSocket, Read, InQueue, Popped, Asked, Handled, Idle, NoneInside,
     infoVars, loaderVars, unloaderVars, procVars
<1> QED
  BY <1>2, <1>3

\* The routing is installed, and an unloader started if it is needed.  The
\* loader has ended, so what is routed to is loaded.
LEMMA InstallRoutingStep ==
    ASSUME IInv, InstallRouting
    PROVE  IInv'
<1> USE DEF IInv
<1>1. /\ applying /\ ~isLoading /\ upc = "off" /\ applying' = FALSE
      /\ netList' = next /\ curr' = next /\ mNeedUpdate' = FALSE /\ next' = {}
      /\ UNCHANGED <<epoch, isLoading, isConnected, isBooted, LoadedModels,
                     loaderVars, umodel, shm, conn, inbox, procVars>>
  BY DEF InstallRouting
<1>2. \/ /\ curr # {} /\ LoadedModels \ next # {}
         /\ isUnloading' = TRUE /\ upc' = "unload" /\ exempting' = next
      \/ /\ curr = {} \/ LoadedModels \ next = {}
         /\ UNCHANGED <<isUnloading, upc, exempting>>
  BY DEF InstallRouting, unloadModels, needToUnload
<1>3. /\ lpc = "off" /\ mNeedUpdate /\ LoadedModels = curr \cup next
      /\ AtMostOne(LoadedModels \ next)
  BY <1>1 DEF ThreadsInv, PlanInv, AtMostOne
<1>4. TypeOK'
  <2>1. UNCHANGED <<epoch, isLoading, isConnected, isBooted, LoadedModels, lpc, lmodels,
                    lmodel, umodel, shm, conn, inbox, mpc, rpc, held, cpc, job,
                    g_ControlQueue, g_exitFlag, g_input_closed, g_loadedModelIDs>>
    BY <1>1 DEF loaderVars, procVars
  <2>2. /\ mNeedUpdate' \in BOOLEAN /\ applying' \in BOOLEAN /\ next' \subseteq Models
        /\ curr' \subseteq Models /\ netList' \subseteq Models
    BY <1>1 DEF TypeOK
  <2>3. /\ isUnloading' \in BOOLEAN /\ exempting' \subseteq Models
        /\ upc' \in {"off", "unload", "send", "end", "flush", "cold"}
    BY <1>2 DEF TypeOK
  <2> QED
    BY <2>1, <2>2, <2>3 DEF TypeOK
<1>5. ThreadsInv'
  BY <1>1, <1>2, <1>3 DEF ThreadsInv, loaderVars
<1>6. PlanInv'
  BY <1>1, <1>2, <1>3 DEF PlanInv, loaderVars
<1>7. ProcessInv'
  <2>1. CASE Down
    <3>1. Down'
      BY <1>1, <1>2, <1>3, <2>1 DEF Down, Idle, NoneInside, loaderVars, procVars
    <3> QED
      BY <3>1 DEF ProcessInv
  <2>2. CASE Up
    <3>1. Serving'
      BY <1>1, <1>2, <1>3, <2>2 DEF Up, Serving, loaderVars, procVars
    <3>2. Resting
      BY <1>1, <1>3, <2>2 DEF Up, Busy, Asked, Handled
    <3>3. Resting'
      BY <1>1, <1>2, <1>3, <3>2 DEF Resting, Idle, NoneInside, loaderVars, procVars
    <3> QED
      BY <3>1, <3>3 DEF Up, ProcessInv
  <2> QED
    BY <1>1, <1>3, <2>1, <2>2 DEF ProcessInv, Booting, Exiting, Closing
<1> QED
  BY <1>4, <1>5, <1>6, <1>7

-----------------------------------------------------------------------------
(***************************************************************************)
(* The loader.                                                             *)
(***************************************************************************)

\* The loader starts, perhaps while the unloader is still at work.
LEMMA LoaderStartStep ==
    ASSUME IInv, LoaderStart
    PROVE  IInv'
<1> USE DEF IInv
<1>1. /\ lpc = "spawned" /\ lpc' = "wait" /\ isLoading' = TRUE
      /\ UNCHANGED <<schedVars, isUnloading, isConnected, isBooted, LoadedModels,
                     lmodels, lmodel, unloaderVars, shm, conn, inbox, procVars>>
  BY DEF LoaderStart
<1>2. TypeOK' /\ ThreadsInv' /\ PlanInv'
  BY <1>1 DEF TypeOK, ThreadsInv, PlanInv, schedVars, unloaderVars, procVars
<1>3. ProcessInv'
  BY <1>1 DEF ProcessInv, Down, Booting, Up, Serving, Resting, Busy, Exiting, Closing,
     Carried, OnSocket, Read, InQueue, Popped, Asked, Handled, Idle, NoneInside,
     schedVars, unloaderVars, procVars
<1> QED
  BY <1>2, <1>3

\* The unloader has ended: the process is at rest, or there is none.
LEMMA LoaderCheckStep ==
    ASSUME IInv, LoaderCheck
    PROVE  IInv'
<1> USE DEF IInv
<1>1. /\ lpc = "wait" /\ ~isUnloading
      /\ lpc' = IF shm = "COLD" THEN "start" ELSE "load"
      /\ UNCHANGED <<schedVars, infoVars, lmodels, lmodel, unloaderVars, shm,
                     conn, inbox, procVars>>
  BY DEF LoaderCheck
<1>2. upc = "off" /\ LoadedModels = curr /\ lmodels = next
  BY <1>1 DEF ThreadsInv, PlanInv
<1>3. TypeOK'
  BY <1>1 DEF TypeOK, schedVars, infoVars, unloaderVars, procVars
<1>4. ThreadsInv' /\ PlanInv'
  BY <1>1, <1>2 DEF ThreadsInv, PlanInv, schedVars, infoVars, unloaderVars
<1>5. CASE Down
  BY <1>1, <1>3, <1>4, <1>5 DEF ProcessInv, Down, Idle, NoneInside, schedVars,
     infoVars, unloaderVars, procVars
<1>6. CASE Up
  <2>1. Resting
    BY <1>1, <1>2, <1>6 DEF Up, Busy, Asked, Handled
  <2>2. Serving' /\ Resting'
    BY <1>1, <1>2, <1>6, <2>1 DEF Up, Serving, Resting, Idle, NoneInside,
       infoVars, unloaderVars, procVars
  <2> QED
    BY <1>3, <1>4, <2>2 DEF Up, ProcessInv
<1> QED
  BY <1>1, <1>2, <1>5, <1>6 DEF ProcessInv, Booting, Exiting, Closing

\* A process is started where there is none.
LEMMA startProxyStep ==
    ASSUME IInv, startProxy
    PROVE  IInv'
<1> USE DEF IInv
<1>1. /\ lpc = "start" /\ shm = "COLD" /\ mpc = "off" /\ lpc' = "boot" /\ shm' = "BOOTING"
      /\ mpc' = "boot" /\ rpc' = "accept" /\ cpc' = "wait"
      /\ UNCHANGED <<schedVars, infoVars, lmodels, lmodel, unloaderVars, conn,
                     inbox, held, job, g_ControlQueue, g_exitFlag,
                     g_input_closed, g_loadedModelIDs>>
  BY DEF startProxy, markProxy
<1>2. TypeOK'
  BY <1>1 DEF TypeOK, proxy_state, schedVars, infoVars, unloaderVars
<1>3. ThreadsInv' /\ PlanInv'
  BY <1>1 DEF ThreadsInv, PlanInv, schedVars, infoVars, unloaderVars
<1>4. Down /\ upc = "off"
  BY <1>1 DEF ProcessInv, Booting, Up, Serving, Exiting, Closing, ThreadsInv
<1>5. Booting'
  BY <1>1, <1>4 DEF Down, Booting, Idle, NoneInside, infoVars, unloaderVars
<1> QED
  BY <1>2, <1>3, <1>5 DEF ProcessInv

\* The process runs, and is connected.
LEMMA connectProxyStep ==
    ASSUME IInv, connectProxy
    PROVE  IInv'
<1> USE DEF IInv
<1>1. /\ lpc = "boot" /\ shm = "RUNNING" /\ lpc' = "load" /\ isBooted' = TRUE
      /\ isConnected' = TRUE /\ conn' = TRUE /\ inbox' = <<>>
      /\ UNCHANGED <<schedVars, isLoading, isUnloading, LoadedModels, lmodels,
                     lmodel, unloaderVars, shm, procVars>>
  BY DEF connectProxy, waitProxy
<1>2. TypeOK'
  BY <1>1 DEF TypeOK, schedVars, unloaderVars, procVars
<1>3. ThreadsInv' /\ PlanInv'
  BY <1>1 DEF ThreadsInv, PlanInv, schedVars, unloaderVars
<1>4. Booting
  BY <1>1 DEF ProcessInv, Down, Up, Serving, Exiting, Closing, ThreadsInv
<1>5. Serving' /\ Resting'
  BY <1>1, <1>4 DEF Booting, Serving, Resting, Idle, NoneInside, unloaderVars, procVars
<1> QED
  BY <1>2, <1>3, <1>5 DEF ProcessInv, Up

\* There is a model to load: nothing was asked of the process before.
LEMMA MarkBeforeLoadStep ==
    ASSUME IInv, MarkBeforeLoad
    PROVE  IInv'
<1> USE DEF IInv
<1>1. /\ lpc = "load" /\ lmodel' \in lmodels \ LoadedModels /\ lpc' = "send"
      /\ shm' = "LOADING"
      /\ UNCHANGED <<schedVars, infoVars, lmodels, unloaderVars, conn, inbox, procVars>>
  BY DEF MarkBeforeLoad, markProxy
<1>2. TypeOK'
  BY <1>1 DEF TypeOK, proxy_state, schedVars, infoVars, unloaderVars, procVars
<1>3. ThreadsInv' /\ PlanInv'
  BY <1>1 DEF ThreadsInv, PlanInv, schedVars, infoVars, unloaderVars
<1>4. upc = "off" /\ Up
  BY <1>1 DEF ProcessInv, Down, Booting, Exiting, Closing, ThreadsInv
<1>5. Resting
  BY <1>1, <1>4 DEF Up, Busy, Asked, Handled
<1>6. Serving' /\ Resting'
  BY <1>1, <1>4, <1>5 DEF Up, Serving, Resting, Idle, NoneInside, infoVars,
     unloaderVars, procVars
<1> QED
  BY <1>2, <1>3, <1>6 DEF ProcessInv, Up

\* The process is asked to load the model, the only one the loader has to.
LEMMA makeProxyLoadModelStep ==
    ASSUME IInv, makeProxyLoadModel
    PROVE  IInv'
<1> USE DEF IInv
<1>. PICK M : M = [act |-> "LOAD", model |-> lmodel]
  OBVIOUS
<1>1. /\ lpc = "send" /\ lpc' = "load" /\ shm' = "LOADING" /\ inbox' = Append(inbox, M)
      /\ LoadedModels' = LoadedModels \cup {lmodel} /\ lmodel' = NoModel
      /\ UNCHANGED <<schedVars, isLoading, isUnloading, isConnected, isBooted,
                     lmodels, unloaderVars, conn, procVars>>
  BY DEF makeProxyLoadModel, markProxy
<1>2. /\ lmodel \in lmodels \ LoadedModels /\ lmodels = next /\ mNeedUpdate
      /\ upc = "off" /\ lmodel \in Models
  BY <1>1 DEF ThreadsInv, TypeOK
<1>3. M \in Message /\ M.act = "LOAD" /\ M.model = lmodel
  BY <1>2, MessageKinds
<1>4. TypeOK'
  BY <1>1, <1>2, <1>3 DEF TypeOK, proxy_state, schedVars, unloaderVars, procVars
<1>5. lmodels \subseteq LoadedModels'
  BY <1>1, <1>2 DEF PlanInv, AtMostOne
<1>6. ThreadsInv'
  BY <1>1, <1>2 DEF ThreadsInv, schedVars, unloaderVars
<1>7. PlanInv'
  BY <1>1, <1>2 DEF PlanInv, schedVars, unloaderVars
<1>8. Up
  BY <1>1, <1>2 DEF ProcessInv, Down, Booting, Exiting, Closing
<1>9. Resting
  BY <1>1, <1>2, <1>8 DEF Up, Busy, Asked, Handled
<1>10. inbox' = <<M>> /\ inbox' # <<>>
  BY <1>1, <1>9, OneMessage DEF Resting, Idle
<1>11. Serving'
  BY <1>1, <1>2, <1>8, <1>10 DEF Up, Serving, unloaderVars, procVars
<1>12. OnSocket(M)'
  <2>1. rpc \in {"accept", "read"}
    BY <1>8, <1>9 DEF Up, Serving, Resting, Idle, NoneInside, TypeOK
  <2> QED
    BY <1>1, <1>9, <1>10, <2>1 DEF OnSocket, Resting, Idle, NoneInside, procVars
<1>13. Asked(M)'
  BY <1>1, <1>2, <1>3, <1>5, <1>9 DEF Asked, Resting, procVars
<1> QED
  BY <1>1, <1>3, <1>4, <1>6, <1>7, <1>11, <1>12, <1>13 DEF ProcessInv, Up, Busy, Carried

\* RUNNING answers the request of the loader: its model is loaded.
LEMMA LoaderEndStep ==
    ASSUME IInv, LoaderEnd
    PROVE  IInv'
<1> USE DEF IInv
<1>1. /\ lpc = "load" /\ lmodels \subseteq LoadedModels /\ shm = "RUNNING"
      /\ lpc' = "off" /\ lmodels' = {} /\ isLoading' = FALSE
      /\ UNCHANGED <<schedVars, isUnloading, isConnected, isBooted, LoadedModels,
                     lmodel, unloaderVars, shm, conn, inbox, procVars>>
  BY DEF LoaderEnd, waitProxy
<1>2. TypeOK'
  <2>1. UNCHANGED <<epoch, mNeedUpdate, next, applying, curr, netList, isUnloading,
                    isConnected, isBooted, LoadedModels, lmodel, upc, exempting, umodel,
                    shm, conn, inbox, mpc, rpc, held, cpc, job, g_ControlQueue,
                    g_exitFlag, g_input_closed, g_loadedModelIDs>>
    BY <1>1 DEF schedVars, unloaderVars, procVars
  <2>2. isLoading' \in BOOLEAN /\ lmodels' \subseteq Models /\ lpc' = "off"
    BY <1>1
  <2> QED
    BY <2>1, <2>2 DEF TypeOK
<1>3. lmodels = next /\ next # {} /\ upc = "off" /\ mNeedUpdate
  BY <1>1 DEF ThreadsInv
<1>4. ThreadsInv' /\ PlanInv'
  BY <1>1, <1>3 DEF ThreadsInv, PlanInv, schedVars, unloaderVars
<1>5. Up
  BY <1>1, <1>3 DEF ProcessInv, Down, Booting, Exiting, Closing
<1>6. Resting
  BY <1>1, <1>5 DEF Up, Busy
<1>7. rpc # "accept"
  BY <1>1, <1>3, <1>5, <1>6 DEF Up, Serving, Resting, Idle
<1>8. Serving' /\ Resting'
  BY <1>1, <1>3, <1>5, <1>6, <1>7 DEF Up, Serving, Resting, Idle, NoneInside,
     unloaderVars, procVars
<1> QED
  BY <1>2, <1>4, <1>8 DEF ProcessInv, Up

-----------------------------------------------------------------------------
(***************************************************************************)
(* The unloader.                                                           *)
(***************************************************************************)

\* There is a model to unload: nothing was asked of the process before.
LEMMA MarkBeforeUnloadStep ==
    ASSUME IInv, MarkBeforeUnload
    PROVE  IInv'
<1> USE DEF IInv
<1>1. /\ upc = "unload" /\ umodel' \in LoadedModels \ exempting /\ upc' = "send"
      /\ shm' = "LOADING"
      /\ UNCHANGED <<schedVars, infoVars, loaderVars, exempting, conn, inbox, procVars>>
  BY DEF MarkBeforeUnload, markProxy
<1>2. TypeOK'
  BY <1>1 DEF TypeOK, proxy_state, schedVars, infoVars, loaderVars, procVars
<1>3. ThreadsInv' /\ PlanInv'
  BY <1>1 DEF ThreadsInv, PlanInv, schedVars, infoVars, loaderVars
<1>4. Up /\ lpc \in {"off", "spawned", "wait"} /\ exempting = curr
  BY <1>1 DEF ProcessInv, Down, Booting, Exiting, Closing, ThreadsInv
<1>5. Resting
  BY <1>1, <1>4 DEF Up, Busy, Asked, Handled
<1>6. Serving' /\ Resting'
  BY <1>1, <1>4, <1>5 DEF Up, Serving, Resting, Idle, NoneInside, infoVars,
     loaderVars, procVars
<1> QED
  BY <1>2, <1>3, <1>6 DEF ProcessInv, Up

\* The process is asked to unload the model, the only one that has to go.
LEMMA makeProxyUnloadModelStep ==
    ASSUME IInv, makeProxyUnloadModel
    PROVE  IInv'
<1> USE DEF IInv
<1>. PICK M : M = [act |-> "UNLOAD", model |-> umodel]
  OBVIOUS
<1>1. /\ upc = "send" /\ upc' = "unload" /\ shm' = "LOADING" /\ inbox' = Append(inbox, M)
      /\ LoadedModels' = LoadedModels \ {umodel} /\ umodel' = NoModel
      /\ UNCHANGED <<schedVars, isLoading, isUnloading, isConnected, isBooted,
                     loaderVars, exempting, conn, procVars>>
  BY DEF makeProxyUnloadModel, markProxy
<1>2. /\ umodel \in LoadedModels \ curr /\ exempting = curr
      /\ lpc \in {"off", "spawned", "wait"} /\ umodel \in Models
  BY <1>1 DEF ThreadsInv, TypeOK
<1>3. M \in Message /\ M.act = "UNLOAD" /\ M.model = umodel
  BY <1>2, MessageKinds
<1>4. TypeOK'
  BY <1>1, <1>2, <1>3 DEF TypeOK, proxy_state, schedVars, loaderVars, procVars
<1>5. LoadedModels' \subseteq curr
  BY <1>1, <1>2 DEF PlanInv, AtMostOne
<1>6. ThreadsInv'
  BY <1>1, <1>2 DEF ThreadsInv, schedVars, loaderVars
<1>7. PlanInv'
  BY <1>1, <1>2 DEF PlanInv, AtMostOne, schedVars, loaderVars
<1>8. Up
  BY <1>1, <1>2 DEF ProcessInv, Down, Booting, Exiting, Closing
<1>9. Resting
  BY <1>1, <1>2, <1>8 DEF Up, Busy, Asked, Handled
<1>10. inbox' = <<M>> /\ inbox' # <<>>
  BY <1>1, <1>9, OneMessage DEF Resting, Idle
<1>11. Serving'
  BY <1>1, <1>2, <1>8, <1>10 DEF Up, Serving, loaderVars, procVars
<1>12. OnSocket(M)'
  <2>1. rpc \in {"accept", "read"}
    BY <1>8, <1>9 DEF Up, Serving, Resting, Idle, NoneInside, TypeOK
  <2> QED
    BY <1>1, <1>9, <1>10, <2>1 DEF OnSocket, Resting, Idle, NoneInside, procVars
<1>13. Asked(M)'
  BY <1>1, <1>2, <1>3, <1>5, <1>9 DEF Asked, Resting, schedVars, procVars
<1> QED
  BY <1>1, <1>3, <1>4, <1>6, <1>7, <1>11, <1>12, <1>13 DEF ProcessInv, Up, Busy, Carried

\* RUNNING answers the request of the unloader: its model is gone.
LEMMA UnloaderEndStep ==
    ASSUME IInv, UnloaderEnd
    PROVE  IInv'
<1> USE DEF IInv
<1>1. /\ upc = "unload" /\ LoadedModels \subseteq exempting /\ shm = "RUNNING"
      /\ UNCHANGED <<schedVars, isLoading, isConnected, isBooted, LoadedModels,
                     loaderVars, umodel, shm, conn, inbox, procVars>>
  BY DEF UnloaderEnd, waitProxy
<1>2. \/ LoadedModels = {} /\ upc' = "end" /\ UNCHANGED <<isUnloading, exempting>>
      \/ LoadedModels # {} /\ upc' = "off" /\ exempting' = {} /\ isUnloading' = FALSE
  BY DEF UnloaderEnd
<1>3. /\ LoadedModels = curr /\ exempting = curr
      /\ lpc \in {"off", "spawned", "wait"}
  BY <1>1 DEF ThreadsInv, PlanInv
<1>4. TypeOK'
  <2>1. UNCHANGED <<epoch, mNeedUpdate, next, applying, curr, netList, isLoading,
                    isConnected, isBooted, LoadedModels, lpc, lmodels, lmodel, umodel,
                    shm, conn, inbox, mpc, rpc, held, cpc, job, g_ControlQueue,
                    g_exitFlag, g_input_closed, g_loadedModelIDs>>
    BY <1>1 DEF schedVars, loaderVars, procVars
  <2>2. /\ isUnloading' \in BOOLEAN /\ exempting' \subseteq Models
        /\ upc' \in {"off", "unload", "send", "end", "flush", "cold"}
    BY <1>2 DEF TypeOK
  <2> QED
    BY <2>1, <2>2 DEF TypeOK
<1>5. ThreadsInv'
  BY <1>1, <1>2, <1>3 DEF ThreadsInv, schedVars, loaderVars
<1>6. PlanInv'
  BY <1>1, <1>2, <1>3 DEF PlanInv, schedVars, loaderVars
<1>7. Up /\ Resting
  BY <1>1 DEF ProcessInv, Down, Booting, Exiting, Closing, Up, Busy
<1>8. Serving' /\ Resting'
  BY <1>1, <1>2, <1>3, <1>7 DEF Up, Serving, Resting, Idle, NoneInside, loaderVars, procVars
<1> QED
  BY <1>4, <1>5, <1>6, <1>8 DEF ProcessInv, Up

\* The process has no model left, and is told to exit.
LEMMA endProxyStep ==
    ASSUME IInv, endProxy
    PROVE  IInv'
<1> USE DEF IInv
<1>1. /\ upc = "end" /\ upc' = "flush" /\ shm' = "EXITING" /\ isBooted' = FALSE
      /\ UNCHANGED <<schedVars, isLoading, isUnloading, isConnected, LoadedModels,
                     loaderVars, exempting, umodel, conn, inbox, procVars>>
  BY DEF endProxy, markProxy
<1>2. TypeOK'
  <2>1. UNCHANGED <<epoch, mNeedUpdate, next, applying, curr, netList, isLoading,
                    isUnloading, isConnected, LoadedModels, lpc, lmodels, lmodel,
                    exempting, umodel, conn, inbox, mpc, rpc, held, cpc, job,
                    g_ControlQueue, g_exitFlag, g_input_closed, g_loadedModelIDs>>
    BY <1>1 DEF schedVars, loaderVars, procVars
  <2>2. upc' = "flush" /\ shm' \in proxy_state /\ isBooted' \in BOOLEAN
    BY <1>1 DEF proxy_state
  <2> QED
    BY <2>1, <2>2 DEF TypeOK
<1>3. ThreadsInv' /\ PlanInv'
  BY <1>1 DEF ThreadsInv, PlanInv, schedVars, loaderVars
<1>4. Up /\ lpc \in {"off", "spawned", "wait"} /\ LoadedModels = {}
  BY <1>1 DEF ProcessInv, Down, Booting, Exiting, Closing, ThreadsInv, PlanInv
<1>5. Resting
  BY <1>1, <1>4 DEF Up, Busy, Asked, Handled
<1>6. rpc = "read"
  BY <1>4, <1>5 DEF Up, Serving, Resting, Idle, NoneInside, TypeOK
<1>7. Exiting'
  BY <1>1, <1>4, <1>5, <1>6 DEF Up, Serving, Exiting, Resting, Idle, NoneInside,
     loaderVars, procVars
<1> QED
  BY <1>2, <1>3, <1>7 DEF ProcessInv

\* The process has flushed its batches: the socket is closed.
LEMMA disconnectProxyStep ==
    ASSUME IInv, disconnectProxy
    PROVE  IInv'
<1> USE DEF IInv
<1>1. /\ upc = "flush" /\ shm = "FLUSHED" /\ upc' = "cold" /\ isConnected' = FALSE
      /\ inbox' = Append(inbox, CloseSocket)
      /\ UNCHANGED <<schedVars, isLoading, isUnloading, isBooted, LoadedModels,
                     loaderVars, exempting, umodel, shm, conn, procVars>>
  BY DEF disconnectProxy, waitProxy
<1>2. TypeOK'
  <2>1. UNCHANGED <<epoch, mNeedUpdate, next, applying, curr, netList, isLoading,
                    isUnloading, isBooted, LoadedModels, lpc, lmodels, lmodel,
                    exempting, umodel, shm, conn, mpc, rpc, held, cpc, job,
                    g_ControlQueue, g_exitFlag, g_input_closed, g_loadedModelIDs>>
    BY <1>1 DEF schedVars, loaderVars, procVars
  <2>2. upc' = "cold" /\ isConnected' \in BOOLEAN
    BY <1>1
  <2>3. inbox' \in Seq(Message \cup {CloseSocket})
    BY <1>1 DEF TypeOK
  <2> QED
    BY <2>1, <2>2, <2>3 DEF TypeOK
<1>3. ThreadsInv' /\ PlanInv'
  BY <1>1 DEF ThreadsInv, PlanInv, schedVars, loaderVars
<1>4. Exiting
  BY <1>1 DEF ProcessInv, Down, Booting, Up, Serving, Closing
<1>5. inbox' = <<CloseSocket>>
  BY <1>1, <1>4, OneMessage DEF Exiting, Idle
<1>6. Closing'
  BY <1>1, <1>4, <1>5 DEF Exiting, Closing, Idle, NoneInside, procVars
<1> QED
  BY <1>2, <1>3, <1>6 DEF ProcessInv

\* The process has reported COLD: the unloader ends.
LEMMA ShutdownEndStep ==
    ASSUME IInv, ShutdownEnd
    PROVE  IInv'
<1> USE DEF IInv
<1>1. /\ upc = "cold" /\ shm = "COLD" /\ upc' = "off" /\ exempting' = {}
      /\ isUnloading' = FALSE
      /\ UNCHANGED <<schedVars, isLoading, isConnected, isBooted, LoadedModels,
                     loaderVars, umodel, shm, conn, inbox, procVars>>
  BY DEF ShutdownEnd, waitProxy
<1>2. TypeOK'
  <2>1. UNCHANGED <<epoch, mNeedUpdate, next, applying, curr, netList, isLoading,
                    isConnected, isBooted, LoadedModels, lpc, lmodels, lmodel, umodel,
                    shm, conn, inbox, mpc, rpc, held, cpc, job, g_ControlQueue,
                    g_exitFlag, g_input_closed, g_loadedModelIDs>>
    BY <1>1 DEF schedVars, loaderVars, procVars
  <2>2. isUnloading' \in BOOLEAN /\ exempting' \subseteq Models /\ upc' = "off"
    BY <1>1
  <2> QED
    BY <2>1, <2>2 DEF TypeOK
<1>3. Down
  BY <1>1 DEF ProcessInv, Booting, Up, Serving, Exiting, Closing
<1>4. LoadedModels = {} /\ curr = {} /\ lpc \in {"off", "spawned", "wait"}
  BY <1>1, <1>3 DEF Down, PlanInv, ThreadsInv
<1>5. ThreadsInv' /\ PlanInv'
  BY <1>1, <1>4 DEF ThreadsInv, PlanInv, schedVars, loaderVars
<1>6. Down'
  BY <1>1, <1>3 DEF Down, Idle, NoneInside, loaderVars, procVars
<1> QED
  BY <1>2, <1>5, <1>6 DEF ProcessInv

-----------------------------------------------------------------------------
(***************************************************************************)
(* The process: main.                                                      *)
(***************************************************************************)

\* The process leaves the frontend's threads and its record alone.
LEMMA ProcessStep ==
    ASSUME ThreadsInv, PlanInv, UNCHANGED frontVars
    PROVE  ThreadsInv' /\ PlanInv'
  BY DEF ThreadsInv, PlanInv, frontVars, schedVars, infoVars, loaderVars, unloaderVars

\* compute is ready: RUNNING.
LEMMA ComputeReadyStep ==
    ASSUME IInv, ComputeReady
    PROVE  IInv'
<1> USE DEF IInv
<1>1. /\ mpc = "boot" /\ mpc' = "run" /\ shm' = "RUNNING" /\ UNCHANGED frontVars
      /\ UNCHANGED <<conn, inbox, rpc, held, cpc, job, g_ControlQueue, g_exitFlag,
                     g_input_closed, g_loadedModelIDs>>
  BY DEF ComputeReady, markProxy
<1>2. TypeOK'
  BY <1>1 DEF TypeOK, proxy_state, frontVars, schedVars, infoVars, loaderVars, unloaderVars
<1>3. ThreadsInv' /\ PlanInv'
  BY <1>1, ProcessStep
<1>4. Booting
  BY <1>1 DEF ProcessInv, Down, Up, Serving, Exiting, Closing
<1>5. Booting'
  BY <1>1, <1>4 DEF Booting, Idle, NoneInside, frontVars, infoVars, loaderVars, unloaderVars
<1> QED
  BY <1>2, <1>3, <1>5 DEF ProcessInv

\* control sees EXITING.
LEMMA controlStep ==
    ASSUME IInv, control
    PROVE  IInv'
<1> USE DEF IInv
<1>1. /\ mpc = "run" /\ shm = "EXITING" /\ mpc' = "exit" /\ g_exitFlag' = TRUE
      /\ UNCHANGED frontVars
      /\ UNCHANGED <<shm, conn, inbox, rpc, held, cpc, job, g_ControlQueue,
                     g_input_closed, g_loadedModelIDs>>
  BY DEF control
<1>2. TypeOK'
  BY <1>1 DEF TypeOK, frontVars, schedVars, infoVars, loaderVars, unloaderVars
<1>3. ThreadsInv' /\ PlanInv'
  BY <1>1, ProcessStep
<1>4. Exiting
  BY <1>1 DEF ProcessInv, Down, Booting, Up, Resting, Busy, Closing
<1>5. Exiting'
  BY <1>1, <1>4 DEF Exiting, Idle, NoneInside, frontVars, infoVars, unloaderVars
<1> QED
  BY <1>2, <1>3, <1>5 DEF ProcessInv

\* main has joined the threads: FLUSHED.
LEMMA MainFlushedStep ==
    ASSUME IInv, MainFlushed
    PROVE  IInv'
<1> USE DEF IInv
<1>1. /\ mpc = "exit" /\ mpc' = "flushed" /\ shm' = "FLUSHED" /\ UNCHANGED frontVars
      /\ UNCHANGED <<conn, inbox, rpc, held, cpc, job, g_ControlQueue, g_exitFlag,
                     g_input_closed, g_loadedModelIDs>>
  BY DEF MainFlushed, markProxy
<1>2. TypeOK'
  BY <1>1 DEF TypeOK, proxy_state, frontVars, schedVars, infoVars, loaderVars, unloaderVars
<1>3. ThreadsInv' /\ PlanInv'
  BY <1>1, ProcessStep
<1>4. Exiting
  BY <1>1 DEF ProcessInv, Down, Booting, Up, Serving, Closing
<1>5. Exiting'
  BY <1>1, <1>4 DEF Exiting, Idle, NoneInside, frontVars, infoVars, unloaderVars
<1> QED
  BY <1>2, <1>3, <1>5 DEF ProcessInv

\* The socket was closed: COLD.
LEMMA MainColdStep ==
    ASSUME IInv, MainCold
    PROVE  IInv'
<1> USE DEF IInv
<1>1. /\ mpc = "flushed" /\ g_input_closed /\ mpc' = "return" /\ shm' = "COLD"
      /\ UNCHANGED frontVars
      /\ UNCHANGED <<conn, inbox, rpc, held, cpc, job, g_ControlQueue, g_exitFlag,
                     g_input_closed, g_loadedModelIDs>>
  BY DEF MainCold, markProxy
<1>2. TypeOK'
  BY <1>1 DEF TypeOK, proxy_state, frontVars, schedVars, infoVars, loaderVars, unloaderVars
<1>3. ThreadsInv' /\ PlanInv'
  BY <1>1, ProcessStep
<1>4. Closing
  BY <1>1 DEF ProcessInv, Down, Booting, Up, Serving, Exiting
<1>5. Down'
  BY <1>1, <1>4 DEF Closing, Down, Idle, NoneInside, ThreadsInv, frontVars, infoVars,
     loaderVars, unloaderVars
<1> QED
  BY <1>2, <1>3, <1>5 DEF ProcessInv

\* The process is gone.
LEMMA MainReturnStep ==
    ASSUME IInv, MainReturn
    PROVE  IInv'
<1> USE DEF IInv
<1>1. /\ mpc = "return" /\ mpc' = "off" /\ rpc' = "off" /\ held' = NoMessage
      /\ cpc' = "off" /\ job' = NoMessage /\ g_ControlQueue' = <<>>
      /\ g_exitFlag' = FALSE /\ g_input_closed' = TRUE /\ g_loadedModelIDs' = {}
      /\ UNCHANGED frontVars /\ UNCHANGED <<shm, conn, inbox>>
  BY DEF MainReturn
<1>2. TypeOK'
  <2>1. UNCHANGED <<epoch, mNeedUpdate, next, applying, curr, netList, isLoading,
                    isUnloading, isConnected, isBooted, LoadedModels, lpc, lmodels,
                    lmodel, upc, exempting, umodel, shm, conn, inbox>>
    BY <1>1 DEF frontVars, schedVars, infoVars, loaderVars, unloaderVars
  <2>2. /\ held' \in Message \cup {NoMessage} /\ job' \in Message \cup {NoMessage}
        /\ g_ControlQueue' \in Seq(Message) /\ g_loadedModelIDs' \subseteq Models
        /\ g_exitFlag' \in BOOLEAN /\ g_input_closed' \in BOOLEAN
        /\ mpc' = "off" /\ rpc' = "off" /\ cpc' = "off"
    <3>1. <<>> \in Seq(Message)
      OBVIOUS
    <3> QED
      BY <1>1, <3>1, Zenon
  <2> QED
    BY <2>1, <2>2 DEF TypeOK
<1>3. ThreadsInv' /\ PlanInv'
  BY <1>1, ProcessStep
<1>4. Down
  BY <1>1 DEF ProcessInv, Booting, Up, Serving, Exiting, Closing
<1>5. Down'
  BY <1>1, <1>4 DEF Down, Idle, NoneInside, frontVars, infoVars, loaderVars, unloaderVars
<1> QED
  BY <1>2, <1>3, <1>5 DEF ProcessInv

-----------------------------------------------------------------------------
(***************************************************************************)
(* The process: recvInput.                                                 *)
(***************************************************************************)

\* The connection is accepted.
LEMMA AcceptStep ==
    ASSUME IInv, Accept
    PROVE  IInv'
<1> USE DEF IInv
<1>1. /\ rpc = "accept" /\ conn /\ rpc' = "read" /\ g_input_closed' = FALSE
      /\ UNCHANGED frontVars
      /\ UNCHANGED <<shm, conn, inbox, mpc, held, cpc, job, g_ControlQueue,
                     g_exitFlag, g_loadedModelIDs>>
  BY DEF Accept
<1>2. TypeOK'
  <2>1. UNCHANGED <<epoch, mNeedUpdate, next, applying, curr, netList, isLoading,
                    isUnloading, isConnected, isBooted, LoadedModels, lpc, lmodels,
                    lmodel, upc, exempting, umodel, shm, conn, inbox, mpc, held, cpc,
                    job, g_ControlQueue, g_exitFlag, g_loadedModelIDs>>
    BY <1>1 DEF frontVars, schedVars, infoVars, loaderVars, unloaderVars
  <2>2. rpc' = "read" /\ g_input_closed' \in BOOLEAN
    BY <1>1
  <2> QED
    BY <2>1, <2>2 DEF TypeOK
<1>3. ThreadsInv' /\ PlanInv'
  BY <1>1, ProcessStep
<1>4. Up
  BY <1>1 DEF ProcessInv, Down, Booting, Exiting, Closing
<1>5. Serving'
  BY <1>1, <1>4 DEF Up, Serving, frontVars, infoVars, loaderVars, unloaderVars
<1>6. CASE Resting
  <2>1. Resting'
    BY <1>1, <1>6 DEF Resting, Idle, NoneInside, frontVars, infoVars, loaderVars,
       unloaderVars
  <2> QED
    BY <1>2, <1>3, <1>5, <2>1 DEF ProcessInv, Up
<1>7. CASE Busy
  <2>1. PICK M \in Message : OnSocket(M) /\ Asked(M)
    BY <1>1, <1>7 DEF Busy, Carried, Read, InQueue, Popped, Handled
  <2>2. OnSocket(M)'
    BY <1>1, <2>1 DEF OnSocket, NoneInside
  <2>3. Asked(M)'
    BY <1>1, <2>1 DEF Asked, frontVars, schedVars, infoVars, loaderVars, unloaderVars
  <2>4. Busy'
    BY <1>1, <1>7, <2>2, <2>3 DEF Busy, Carried
  <2> QED
    BY <1>2, <1>3, <1>5, <2>4 DEF ProcessInv, Up
<1> QED
  BY <1>4, <1>6, <1>7 DEF Up

\* recvInput reads the one message there is, or that the socket was closed.
LEMMA ReadInputStep ==
    ASSUME IInv, ReadInput
    PROVE  IInv'
<1> USE DEF IInv
<1>1. /\ rpc = "read" /\ inbox # <<>> /\ inbox' = Tail(inbox) /\ UNCHANGED frontVars
      /\ UNCHANGED <<shm, mpc, cpc, job, g_ControlQueue, g_exitFlag, g_loadedModelIDs>>
  BY DEF ReadInput
<1>2. \/ /\ Head(inbox) = CloseSocket /\ conn' = FALSE /\ g_input_closed' = TRUE
         /\ rpc' = (IF g_exitFlag THEN "off" ELSE "accept") /\ UNCHANGED held
      \/ /\ Head(inbox) # CloseSocket /\ rpc' = "push" /\ held' = Head(inbox)
         /\ UNCHANGED <<conn, g_input_closed>>
  BY DEF ReadInput
<1>3. TypeOK'
  <2>1. UNCHANGED <<epoch, mNeedUpdate, next, applying, curr, netList, isLoading,
                    isUnloading, isConnected, isBooted, LoadedModels, lpc, lmodels,
                    lmodel, upc, exempting, umodel, shm, mpc, cpc, job, g_ControlQueue,
                    g_exitFlag, g_loadedModelIDs>>
    BY <1>1 DEF frontVars, schedVars, infoVars, loaderVars, unloaderVars
  <2>2. /\ Head(inbox) \in Message \cup {CloseSocket}
        /\ inbox' \in Seq(Message \cup {CloseSocket})
    BY <1>1 DEF TypeOK
  <2>3. /\ conn' \in BOOLEAN /\ g_input_closed' \in BOOLEAN
        /\ rpc' \in {"off", "accept", "read", "push"}
        /\ held' \in Message \cup {NoMessage}
    BY <1>2, <2>2 DEF TypeOK
  <2> QED
    BY <2>1, <2>2, <2>3 DEF TypeOK
<1>4. ThreadsInv' /\ PlanInv'
  BY <1>1, ProcessStep
<1>5. CASE Up
  <2>1. PICK M \in Message : OnSocket(M) /\ Asked(M)
    BY <1>1, <1>5 DEF Up, Resting, Idle, Busy, Carried, Read, InQueue, Popped, Handled
  <2>2. Head(inbox) = M /\ inbox' = <<>> /\ M # CloseSocket
    BY <1>1, <2>1, OneMessage, MessageKinds DEF OnSocket
  <2>3. Read(M)'
    BY <1>1, <1>2, <2>1, <2>2 DEF OnSocket, Read, NoneInside
  <2>4. Asked(M)'
    BY <1>1, <2>1 DEF Asked, frontVars, schedVars, infoVars, loaderVars, unloaderVars
  <2>5. shm = "LOADING"
    BY <1>1, <1>5 DEF Up, Resting, Idle, Busy
  <2>6. Busy'
    BY <1>1, <2>3, <2>4, <2>5 DEF Busy, Carried
  <2>7. Serving'
    <3>1. rpc' = "push" /\ UNCHANGED <<conn, g_input_closed>>
      BY <1>2, <2>2
    <3>2. UNCHANGED <<isConnected, isBooted, lpc, upc, mpc, g_exitFlag>>
      BY <1>1 DEF frontVars, infoVars, loaderVars, unloaderVars
    <3> QED
      BY <1>1, <1>5, <3>1, <3>2 DEF Up, Serving
  <2> QED
    BY <1>3, <1>4, <2>6, <2>7 DEF ProcessInv, Up
<1>6. CASE Closing
  <2>1. Head(inbox) = CloseSocket /\ inbox' = <<>>
    BY <1>1, <1>6, OneMessage DEF Closing
  <2>2. Closing'
    BY <1>1, <1>2, <1>6, <2>1 DEF Closing, NoneInside, frontVars, infoVars, unloaderVars
  <2> QED
    BY <1>3, <1>4, <2>2 DEF ProcessInv
<1> QED
  BY <1>1, <1>5, <1>6 DEF ProcessInv, Down, Booting, Exiting, Idle

\* The message is put into the control queue.
LEMMA pushToQueueStep ==
    ASSUME IInv, pushToQueue
    PROVE  IInv'
<1> USE DEF IInv
<1>1. /\ rpc = "push" /\ rpc' = "read" /\ held' = NoMessage
      /\ g_ControlQueue' = Append(g_ControlQueue, held) /\ UNCHANGED frontVars
      /\ UNCHANGED <<shm, conn, inbox, mpc, cpc, job, g_exitFlag, g_input_closed,
                     g_loadedModelIDs>>
  BY DEF pushToQueue
<1>2. Up
  BY <1>1 DEF ProcessInv, Down, Booting, Exiting, Closing, Idle, NoneInside
<1>3. PICK M \in Message : Read(M) /\ Asked(M)
  BY <1>1, <1>2 DEF Up, Resting, Idle, NoneInside, Busy, Carried, OnSocket, InQueue,
     Popped, Handled
<1>4. g_ControlQueue' = <<M>>
  BY <1>1, <1>3, OneMessage DEF Read
<1>5. TypeOK'
  <2>1. UNCHANGED <<epoch, mNeedUpdate, next, applying, curr, netList, isLoading,
                    isUnloading, isConnected, isBooted, LoadedModels, lpc, lmodels,
                    lmodel, upc, exempting, umodel, shm, conn, inbox, mpc, cpc, job,
                    g_exitFlag, g_input_closed, g_loadedModelIDs>>
    BY <1>1 DEF frontVars, schedVars, infoVars, loaderVars, unloaderVars
  <2>2. /\ rpc' = "read" /\ held' \in Message \cup {NoMessage}
        /\ g_ControlQueue' \in Seq(Message)
    BY <1>1, <1>4
  <2> QED
    BY <2>1, <2>2 DEF TypeOK
<1>6. ThreadsInv' /\ PlanInv'
  BY <1>1, ProcessStep
<1>7. Serving'
  BY <1>1, <1>2 DEF Up, Serving, frontVars, infoVars, loaderVars, unloaderVars
<1>8. InQueue(M)'
  BY <1>1, <1>3, <1>4 DEF Read, InQueue
<1>9. Asked(M)'
  BY <1>1, <1>3 DEF Asked, frontVars, schedVars, infoVars, loaderVars, unloaderVars
<1>10. shm = "LOADING"
  BY <1>1, <1>2 DEF Up, Resting, Idle, NoneInside, Busy
<1>11. Busy'
  BY <1>1, <1>8, <1>9, <1>10 DEF Busy, Carried
<1> QED
  BY <1>5, <1>6, <1>7, <1>11 DEF ProcessInv, Up

-----------------------------------------------------------------------------
(***************************************************************************)
(* The process: loadControl.                                               *)
(***************************************************************************)

\* loadControl ends, when the process exits, or takes the message there is.
LEMMA ControlPopStep ==
    ASSUME IInv, ControlPop
    PROVE  IInv'
<1> USE DEF IInv
<1>1. /\ cpc = "wait" /\ UNCHANGED frontVars
      /\ UNCHANGED <<shm, conn, inbox, mpc, rpc, held, g_exitFlag, g_input_closed,
                     g_loadedModelIDs>>
  BY DEF ControlPop
<1>2. ThreadsInv' /\ PlanInv'
  BY <1>1, ProcessStep
<1>3. UNCHANGED <<epoch, mNeedUpdate, next, applying, curr, netList, isLoading,
                  isUnloading, isConnected, isBooted, LoadedModels, lpc, lmodels,
                  lmodel, upc, exempting, umodel, shm, conn, inbox, mpc, rpc, held,
                  g_exitFlag, g_input_closed, g_loadedModelIDs>>
  BY <1>1 DEF frontVars, schedVars, infoVars, loaderVars, unloaderVars
<1>4. CASE g_exitFlag
  <2>1. cpc' = "off" /\ UNCHANGED <<job, g_ControlQueue>>
    BY <1>4 DEF ControlPop
  <2>2. TypeOK'
    BY <1>3, <2>1 DEF TypeOK
  <2>3. ProcessInv'
    BY <1>1, <1>3, <1>4, <2>1 DEF ProcessInv, Down, Booting, Up, Serving, Exiting,
       Closing, Idle, NoneInside
  <2> QED
    BY <1>2, <2>2, <2>3
<1>5. CASE ~g_exitFlag
  <2>1. /\ g_ControlQueue # <<>> /\ cpc' = "handle" /\ job' = Head(g_ControlQueue)
        /\ g_ControlQueue' = Tail(g_ControlQueue)
    BY <1>5 DEF ControlPop
  <2>2. Up
    BY <2>1 DEF ProcessInv, Down, Booting, Exiting, Closing, Idle, NoneInside
  <2>3. PICK M \in Message : InQueue(M) /\ Asked(M)
    BY <2>1, <2>2 DEF Up, Resting, Idle, NoneInside, Busy, Carried, OnSocket, Read,
       Popped, Handled
  <2>4. job' = M /\ g_ControlQueue' = <<>>
    BY <2>1, <2>3, OneMessage DEF InQueue
  <2>5. TypeOK'
    <3>1. /\ cpc' = "handle" /\ job' \in Message \cup {NoMessage}
          /\ g_ControlQueue' \in Seq(Message)
      <4>1. <<>> \in Seq(Message)
        OBVIOUS
      <4> QED
        BY <2>1, <2>4, <4>1, Zenon
    <3> QED
      BY <1>3, <3>1 DEF TypeOK
  <2>6. Serving'
    BY <1>3, <2>2 DEF Up, Serving
  <2>7. Popped(M)'
    BY <1>3, <2>1, <2>3, <2>4 DEF InQueue, Popped
  <2>8. Asked(M)'
    BY <1>3, <2>3 DEF Asked
  <2>9. shm = "LOADING"
    BY <2>1, <2>2 DEF Up, Resting, Idle, NoneInside, Busy
  <2>10. Busy'
    BY <1>3, <2>7, <2>8, <2>9 DEF Busy, Carried
  <2> QED
    BY <1>2, <2>5, <2>6, <2>10 DEF ProcessInv, Up
<1> QED
  BY <1>4, <1>5

\* A message is handled in a process that serves, and is the one asked for.
LEMMA HandledMessage ==
    ASSUME IInv, cpc = "handle"
    PROVE  /\ Up /\ Busy
           /\ \E M \in Message : Popped(M) /\ Asked(M)
<1>1. Up
  BY DEF IInv, ProcessInv, Down, Booting, Exiting, Closing, Idle, NoneInside
<1>2. Busy
  BY <1>1 DEF Up, Resting
<1> QED
  BY <1>1, <1>2 DEF Busy, Carried, OnSocket, Read, InQueue, Handled

\* The model is loaded or unloaded: the process is what the record says.
LEMMA ControlHandleStep ==
    ASSUME IInv, ControlHandle
    PROVE  IInv'
<1> USE DEF IInv
<1>1. /\ cpc = "handle" /\ cpc' = "check" /\ UNCHANGED frontVars
      /\ UNCHANGED <<shm, conn, inbox, mpc, rpc, held, job, g_ControlQueue, g_exitFlag,
                     g_input_closed>>
  BY DEF ControlHandle
<1>2. PICK M \in Message : Popped(M) /\ Asked(M)
  BY <1>1, HandledMessage
<1>3. g_loadedModelIDs' = IF M.act = "LOAD" THEN g_loadedModelIDs \cup {M.model}
                                            ELSE g_loadedModelIDs \ {M.model}
  BY <1>2 DEF ControlHandle, Popped, loadModel, unloadModel
<1>4. UNCHANGED <<epoch, mNeedUpdate, next, applying, curr, netList, isLoading,
                  isUnloading, isConnected, isBooted, LoadedModels, lpc, lmodels,
                  lmodel, upc, exempting, umodel, shm, conn, inbox, mpc, rpc, held, job,
                  g_ControlQueue, g_exitFlag, g_input_closed>>
  BY <1>1 DEF frontVars, schedVars, infoVars, loaderVars, unloaderVars
<1>5. g_loadedModelIDs' = LoadedModels
  BY <1>2, <1>3 DEF Asked
<1>6. TypeOK'
  <2>1. g_loadedModelIDs' \subseteq Models
    BY <1>5 DEF TypeOK
  <2> QED
    BY <1>1, <1>4, <2>1 DEF TypeOK
<1>7. ThreadsInv' /\ PlanInv'
  BY <1>1, ProcessStep
<1>8. Serving'
  BY <1>1, <1>4, HandledMessage DEF Up, Serving
<1>9. Handled'
  BY <1>1, <1>2, <1>4 DEF Handled, Popped, Asked
<1>10. Busy'
  BY <1>1, <1>4, <1>5, <1>9, HandledMessage DEF Busy
<1> QED
  BY <1>6, <1>7, <1>8, <1>10 DEF ProcessInv, Up

\* After a message the process is as the record says, and its sender waits.
LEMMA AfterMessage ==
    ASSUME IInv, cpc \in {"check", "mark"}
    PROVE  Up /\ Handled /\ shm = "LOADING" /\ g_loadedModelIDs = LoadedModels
<1>1. Up
  BY DEF IInv, ProcessInv, Down, Booting, Exiting, Closing, Idle, NoneInside
<1>2. Busy
  BY <1>1 DEF Up, Resting
<1> QED
  BY <1>1, <1>2 DEF Busy, Carried, OnSocket, Read, InQueue, Popped

\* loadControl sees an empty queue, and is about to mark RUNNING.
LEMMA ControlCheckStep ==
    ASSUME IInv, ControlCheck
    PROVE  IInv'
<1> USE DEF IInv
<1>1. /\ cpc = "check" /\ job' = NoMessage /\ UNCHANGED frontVars
      /\ cpc' = IF g_ControlQueue = <<>> /\ shm # "EXITING" THEN "mark" ELSE "wait"
      /\ UNCHANGED <<shm, conn, inbox, mpc, rpc, held, g_ControlQueue, g_exitFlag,
                     g_input_closed, g_loadedModelIDs>>
  BY DEF ControlCheck
<1>2. Up /\ Handled /\ shm = "LOADING" /\ g_loadedModelIDs = LoadedModels
  BY <1>1, AfterMessage
<1>3. cpc' = "mark"
  BY <1>1, <1>2 DEF Handled
<1>4. UNCHANGED <<epoch, mNeedUpdate, next, applying, curr, netList, isLoading,
                  isUnloading, isConnected, isBooted, LoadedModels, lpc, lmodels,
                  lmodel, upc, exempting, umodel, shm, conn, inbox, mpc, rpc, held,
                  g_ControlQueue, g_exitFlag, g_input_closed, g_loadedModelIDs>>
  BY <1>1 DEF frontVars, schedVars, infoVars, loaderVars, unloaderVars
<1>5. TypeOK'
  BY <1>1, <1>3, <1>4 DEF TypeOK
<1>6. ThreadsInv' /\ PlanInv'
  BY <1>1, ProcessStep
<1>7. Serving' /\ Handled'
  BY <1>1, <1>2, <1>3, <1>4 DEF Up, Serving, Handled
<1> QED
  BY <1>2, <1>4, <1>5, <1>6, <1>7 DEF ProcessInv, Up, Busy

\* RUNNING is marked: the thread that asked can go on.
LEMMA ControlMarkStep ==
    ASSUME IInv, ControlMark
    PROVE  IInv'
<1> USE DEF IInv
<1>1. /\ cpc = "mark" /\ cpc' = "wait" /\ shm' = "RUNNING" /\ UNCHANGED frontVars
      /\ UNCHANGED <<conn, inbox, mpc, rpc, held, job, g_ControlQueue, g_exitFlag,
                     g_input_closed, g_loadedModelIDs>>
  BY DEF ControlMark, markProxy
<1>2. Up /\ Handled /\ g_loadedModelIDs = LoadedModels
  BY <1>1, AfterMessage
<1>3. UNCHANGED <<epoch, mNeedUpdate, next, applying, curr, netList, isLoading,
                  isUnloading, isConnected, isBooted, LoadedModels, lpc, lmodels,
                  lmodel, upc, exempting, umodel, conn, inbox, mpc, rpc, held, job,
                  g_ControlQueue, g_exitFlag, g_input_closed, g_loadedModelIDs>>
  BY <1>1 DEF frontVars, schedVars, infoVars, loaderVars, unloaderVars
<1>4. TypeOK'
  <2>1. shm' \in proxy_state
    BY <1>1 DEF proxy_state
  <2> QED
    BY <1>1, <1>3, <2>1 DEF TypeOK
<1>5. ThreadsInv' /\ PlanInv'
  BY <1>1, ProcessStep
<1>6. lpc # "send" /\ upc # "send"
  BY <1>2 DEF Handled, ThreadsInv
<1>7. Serving'
  BY <1>2, <1>3 DEF Up, Serving
<1>8. Resting'
  BY <1>1, <1>2, <1>3, <1>6 DEF Handled, Resting, Idle, NoneInside
<1> QED
  BY <1>4, <1>5, <1>7, <1>8 DEF ProcessInv, Up

-----------------------------------------------------------------------------
(***************************************************************************)
(* The theorems.                                                           *)
(***************************************************************************)

\* Every step keeps the invariant.
LEMMA NextIInv ==
    ASSUME OneChange, IInv, [Next]_vars
    PROVE  IInv'
<1>1. ASSUME NEW S \in SUBSET Models, Decide(S) PROVE IInv'
  BY <1>1, DecideStep
<1>2. CASE FlushRouting \/ InstallRouting
  BY <1>2, FlushRoutingStep, InstallRoutingStep
<1>3. CASE Loader
  BY <1>3, LoaderStartStep, LoaderCheckStep, startProxyStep, connectProxyStep,
     MarkBeforeLoadStep, makeProxyLoadModelStep, LoaderEndStep DEF Loader
<1>4. CASE Unloader
  BY <1>4, MarkBeforeUnloadStep, makeProxyUnloadModelStep, UnloaderEndStep,
     endProxyStep, disconnectProxyStep, ShutdownEndStep DEF Unloader
<1>5. CASE Main
  BY <1>5, ComputeReadyStep, controlStep, MainFlushedStep, MainColdStep,
     MainReturnStep DEF Main
<1>6. CASE recvInput
  BY <1>6, AcceptStep, ReadInputStep, pushToQueueStep DEF recvInput
<1>7. CASE loadControl
  BY <1>7, ControlPopStep, ControlHandleStep, ControlCheckStep, ControlMarkStep
     DEF loadControl
<1>8. CASE UNCHANGED vars
  <2>1. TypeOK' /\ ThreadsInv' /\ PlanInv'
    BY <1>8 DEF IInv, TypeOK, ThreadsInv, PlanInv, vars, frontVars, schedVars, infoVars,
       loaderVars, unloaderVars, procVars
  <2>2. ProcessInv'
    BY <1>8 DEF IInv, ProcessInv, Down, Booting, Up, Serving, Resting, Busy, Exiting,
       Closing, Carried, OnSocket, Read, InQueue, Popped, Asked, Handled, Idle,
       NoneInside, vars, frontVars, schedVars, infoVars, loaderVars, unloaderVars,
       procVars
  <2> QED
    BY <2>1, <2>2 DEF IInv
<1> QED
  BY <1>1, <1>2, <1>3, <1>4, <1>5, <1>6, <1>7, <1>8 DEF Next

\* The invariant holds in every state of the partition: it is in one of the
\* phases of its life, and at most one request is under way in it.
THEOREM ProxyInvariance ==
    ASSUME OneChange
    PROVE  Spec => []IInv
  BY InitIInv, NextIInv, PTL DEF Spec

\* While nobody loads or unloads, LoadedModels (proxy_info) is what the
\* process holds, and the assertions of bootProxy_sync and shutdownProxy_sync
\* hold.
THEOREM RecordIsRight ==
    ASSUME OneChange
    PROVE  Spec => []RecordAgrees
<1>1. ASSUME IInv PROVE RecordAgrees
  <2>1. ASSUME lpc = "off", upc = "off" PROVE LoadedModels = g_loadedModelIDs
    BY <1>1, <2>1 DEF IInv, ProcessInv, Down, Booting, Up, Resting, Busy, Asked, Handled,
       Exiting, Closing
  <2>2. lpc = "start" => ~isConnected
    BY <1>1 DEF IInv, ThreadsInv, ProcessInv, Down, Booting, Up, Serving, Exiting, Closing
  <2>3. upc = "end" => LoadedModels = {} /\ isConnected /\ isBooted
    BY <1>1 DEF IInv, PlanInv, ProcessInv, Down, Booting, Up, Serving, Exiting, Closing
  <2> QED
    BY <2>1, <2>2, <2>3 DEF RecordAgrees, AssertsHold
<1> QED
  BY <1>1, ProxyInvariance, PTL

\* The partition implements ModelHost: control unloads a model only while
\* nothing is routed to it, and applyRouting_sync installs a routing only to
\* models the process has loaded.
THEOREM ProxyImplementsHost ==
    ASSUME OneChange
    PROVE  Spec => ImplementsHost
<1>1. Init => Host!Init
  BY DEF Init, Host!Init
<1>2. ASSUME IInv, [Next]_vars PROVE [Host!Next]_(Host!vars)
  <2> USE <1>2 DEF Host!vars
  <2>1. CASE \/ \E S \in SUBSET Models : Decide(S)
             \/ Loader \/ Unloader \/ recvInput \/ UNCHANGED vars
    BY <2>1 DEF Decide, Loader, LoaderStart, LoaderCheck, startProxy, connectProxy,
       MarkBeforeLoad, makeProxyLoadModel, LoaderEnd, Unloader, MarkBeforeUnload,
       makeProxyUnloadModel, UnloaderEnd, endProxy, disconnectProxy, ShutdownEnd,
       recvInput, Accept, ReadInput, pushToQueue, vars, frontVars, schedVars, procVars
  <2>2. CASE FlushRouting
    <3>1. Host!Route({})
      BY <2>2 DEF FlushRouting, procVars, Host!Route
    <3> QED
      BY <3>1 DEF Host!Next
  <2>3. CASE InstallRouting
    <3>1. /\ applying /\ ~isLoading /\ upc = "off" /\ netList' = next
          /\ UNCHANGED g_loadedModelIDs
      BY <2>3 DEF InstallRouting, procVars
    <3>2. lpc = "off" /\ LoadedModels = curr \cup next /\ next \in SUBSET Models
      BY <3>1 DEF IInv, ThreadsInv, PlanInv, TypeOK
    <3>3. LoadedModels = g_loadedModelIDs
      BY <3>1, <3>2 DEF IInv, ProcessInv, Down, Booting, Up, Resting, Busy, Asked,
         Handled, Exiting, Closing
    <3>4. Host!Route(next)
      BY <3>1, <3>2, <3>3 DEF Host!Route
    <3> QED
      BY <3>2, <3>4 DEF Host!Next
  <2>4. CASE Main
    <3>1. CASE MainReturn
      <4>1. g_loadedModelIDs = {}
        BY <3>1 DEF MainReturn, IInv, ProcessInv, Down, Booting, Up, Serving, Exiting,
           Closing
      <4> QED
        BY <3>1, <4>1 DEF MainReturn, frontVars, schedVars
    <3> QED
      BY <2>4, <3>1 DEF Main, ComputeReady, control, MainFlushed, MainCold, frontVars,
         schedVars
  <2>5. CASE loadControl
    <3>1. CASE ControlHandle
      <4>1. UNCHANGED netList /\ cpc = "handle"
        BY <3>1 DEF ControlHandle, frontVars, schedVars
      <4>2. PICK M \in Message : Popped(M) /\ Asked(M)
        BY <4>1, HandledMessage
      <4>3. M.model \in Models /\ M.act \in {"LOAD", "UNLOAD"}
        BY MessageKinds
      <4>4. g_loadedModelIDs' = IF M.act = "LOAD" THEN g_loadedModelIDs \cup {M.model}
                                                  ELSE g_loadedModelIDs \ {M.model}
        BY <3>1, <4>2 DEF ControlHandle, Popped, loadModel, unloadModel
      <4>5. CASE M.act = "LOAD"
        BY <4>1, <4>3, <4>4, <4>5 DEF Host!Next, Host!Load
      <4>6. CASE M.act = "UNLOAD"
        <5>1. M.model \notin netList
          BY <4>2, <4>6 DEF Asked, IInv, ThreadsInv
        <5>2. Host!Unload(M.model)
          BY <4>1, <4>4, <4>6, <5>1 DEF Host!Unload
        <5> QED
          BY <4>3, <5>2 DEF Host!Next
      <4> QED
        BY <4>3, <4>5, <4>6
    <3> QED
      BY <2>5, <3>1 DEF loadControl, ControlPop, ControlCheck, ControlMark, frontVars,
         schedVars
  <2> QED
    BY <2>1, <2>2, <2>3, <2>4, <2>5 DEF Next
<1> QED
  BY <1>1, <1>2, ProxyInvariance, PTL DEF Spec, ImplementsHost, Host!Spec
=============================================================================
