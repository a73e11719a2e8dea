------------------------ MODULE BatchPipeline_proofs ------------------------
(***************************************************************************)
(* Proofs about BatchPipeline, for every number of proxies, models,        *)
(* threads, tasks and every application graph: the type invariant; that at *)
(* most one batch of a model is formed, and at most one executed, on a     *)
(* proxy at any time; that the two streams of a proxy hold the same        *)
(* batches in the same order; and that no request of a task is lost or     *)
(* executed twice and a task gets one reply.                               *)
(***************************************************************************)
EXTENDS BatchPipeline, SequenceTheorems, FiniteSetTheorems, TLAPS

\* The inductive invariant.  OneBatching and OneExecution tie each counter to
\* the thread or queue entry that will decrement it, which is what keeps the
\* counters in {0, 1}; the types keep the model of a batch a member of Models
\* wherever it is used as an index.
IInv ==
    /\ TypeOK
    /\ OneBatching
    /\ OneExecution

\* The initial state has the type the invariant states.
LEMMA InitTypeOK == Init => TypeOK
<1> SUFFICES ASSUME Init PROVE TypeOK
  OBVIOUS
<1>1. AppTypeOK
  BY DEF Init, AppTypeOK
<1>2. reqQueue \in [Models -> Seq(Req)]
  BY DEF Init
<1>3. RouteTypeOK
  <2>1. isSchedulable \in [Proxies -> BOOLEAN]
    <3>1. isSchedulable = [p \in Proxies |-> InitNets[p] # {}]
      BY DEF Init
    <3> QED
      BY <3>1, Zenon
  <2>2. rerouting \in BOOLEAN
    BY DEF Init
  <2>3. reroutes \in 0 .. MaxReroutes
    BY ConstantsAssumption DEF Init
  <2>4. /\ netList \in [Proxies -> SUBSET Models]
        /\ loadedModels \in [Proxies -> SUBSET Models]
        /\ uexempt \in [Proxies -> SUBSET Models]
        /\ upc \in [Proxies -> UnloadPC]
        /\ umodel \in [Proxies -> Models \cup {NoModel}]
    BY ConstantsAssumption DEF Init, UnloadPC
  <2>5. \A p \in Proxies : upc[p] = "off"
    BY DEF Init
  <2> QED
    BY <2>1, <2>2, <2>3, <2>4, <2>5 DEF RouteTypeOK
<1>4. SchedTypeOK
  BY DEF Init, SchedTypeOK
<1>5. CountTypeOK
  BY DEF Init, CountTypeOK
<1>6. BatcherTypeOK
  BY DEF Init, BatcherTypeOK, BatcherPC
<1>7. OutputTypeOK
  BY DEF Init, OutputTypeOK, OutputPC
<1>8. LockTypeOK
  BY DEF Init, LockTypeOK
<1>9. outputQueue \in [Proxies -> Seq(Batch)]
  BY DEF Init
<1>10. WireTypeOK
  BY DEF Init, WireTypeOK
<1> QED
  BY <1>1, <1>2, <1>3, <1>4, <1>5, <1>6, <1>7, <1>8, <1>9, <1>10 DEF TypeOK


\* Nothing is formed or executed at first.
LEMMA InitIInv == Init => IInv
<1> SUFFICES ASSUME Init PROVE IInv
  OBVIOUS
<1>1. TypeOK
  BY InitTypeOK
<1>2. OneBatching
  BY DEF Init, OneBatching, Forming, AtMostOne
<1>3. OneExecution
  BY DEF Init, OneExecution, Sending, Announced, Awaiting, AtMostOne
<1> QED
  BY <1>1, <1>2, <1>3 DEF IInv

\* What a step does not change keeps its part of the invariant.
LEMMA Frame ==
    ASSUME IInv
    PROVE  /\ UNCHANGED appVars => AppTypeOK'
           /\ UNCHANGED reqQueue => (reqQueue \in [Models -> Seq(Req)])'
           /\ UNCHANGED routeVars => RouteTypeOK'
           /\ UNCHANGED schedVars => SchedTypeOK'
           /\ UNCHANGED countVars => CountTypeOK'
           /\ UNCHANGED batchVars => BatcherTypeOK'
           /\ UNCHANGED outVars => OutputTypeOK'
           /\ UNCHANGED lockVars => LockTypeOK'
           /\ UNCHANGED outputQueue => (outputQueue \in [Proxies -> Seq(Batch)])'
           /\ UNCHANGED wireVars => WireTypeOK'
           /\ UNCHANGED <<bpc, task, isTaskBatching>> => OneBatching'
           /\ UNCHANGED <<bpc, task, outputQueue, outVars, isTaskExec>>
                  => OneExecution'
<1>1. UNCHANGED appVars => AppTypeOK'
  BY DEF IInv, TypeOK, appVars, AppTypeOK
<1>2. UNCHANGED reqQueue => (reqQueue \in [Models -> Seq(Req)])'
  BY DEF IInv, TypeOK
<1>3. UNCHANGED routeVars => RouteTypeOK'
  BY DEF IInv, TypeOK, routeVars, RouteTypeOK
<1>4. UNCHANGED schedVars => SchedTypeOK'
  BY DEF IInv, TypeOK, schedVars, SchedTypeOK
<1>5. UNCHANGED countVars => CountTypeOK'
  BY DEF IInv, TypeOK, countVars, CountTypeOK
<1>6. UNCHANGED batchVars => BatcherTypeOK'
  BY DEF IInv, TypeOK, batchVars, BatcherTypeOK
<1>7. UNCHANGED outVars => OutputTypeOK'
  BY DEF IInv, TypeOK, outVars, OutputTypeOK
<1>8. UNCHANGED lockVars => LockTypeOK'
  BY DEF IInv, TypeOK, lockVars, LockTypeOK
<1>9. UNCHANGED outputQueue => (outputQueue \in [Proxies -> Seq(Batch)])'
  BY DEF IInv, TypeOK
<1>10. UNCHANGED wireVars => WireTypeOK'
  BY DEF IInv, TypeOK, wireVars, WireTypeOK
<1>11. UNCHANGED <<bpc, task, isTaskBatching>> => OneBatching'
  BY DEF IInv, OneBatching, Forming, AtMostOne
<1>12. UNCHANGED <<bpc, task, outputQueue, outVars, isTaskExec>>
           => OneExecution'
  BY DEF IInv, OneExecution, outVars, Sending, Announced, Awaiting, AtMostOne
<1> QED
  BY <1>1, <1>2, <1>3, <1>4, <1>5, <1>6, <1>7, <1>8, <1>9, <1>10, <1>11, <1>12

\* One batching thread moves: it joins the sets it is now in and leaves the
\* others; nobody else does.
LEMMA BatcherMoves ==
    ASSUME NEW t \in Batchers,
           \A u \in Batchers \ {t} : bpc'[u] = bpc[u] /\ task'[u] = task[u],
           NEW p \in Proxies, NEW m \in Models
    PROVE  /\ t \in Forming(p, m) <=>
                /\ ProxyOf[t] = p /\ task[t] = m
                /\ bpc[t] \in {"batching", "formed", "handoff"}
           /\ t \in Sending(p, m) <=>
                /\ ProxyOf[t] = p /\ task[t] = m
                /\ bpc[t] \in {"handoff", "tosend", "pushing"}
           /\ Forming(p, m)' =
                IF /\ ProxyOf[t] = p /\ task'[t] = m
                   /\ bpc'[t] \in {"batching", "formed", "handoff"}
                THEN Forming(p, m) \cup {t} ELSE Forming(p, m) \ {t}
           /\ Sending(p, m)' =
                IF /\ ProxyOf[t] = p /\ task'[t] = m
                   /\ bpc'[t] \in {"handoff", "tosend", "pushing"}
                THEN Sending(p, m) \cup {t} ELSE Sending(p, m) \ {t}
  BY DEF Forming, Sending

\* A set a batching thread is in before and after its step, or neither, does
\* not change.
LEMMA BatcherStays ==
    ASSUME NEW t \in Batchers,
           \A u \in Batchers \ {t} : bpc'[u] = bpc[u] /\ task'[u] = task[u],
           NEW p \in Proxies, NEW m \in Models
    PROVE  /\ ((/\ ProxyOf[t] = p /\ task[t] = m
                /\ bpc[t] \in {"batching", "formed", "handoff"}) <=>
               (/\ ProxyOf[t] = p /\ task'[t] = m
                /\ bpc'[t] \in {"batching", "formed", "handoff"}))
               => Forming(p, m)' = Forming(p, m)
           /\ ((/\ ProxyOf[t] = p /\ task[t] = m
                /\ bpc[t] \in {"handoff", "tosend", "pushing"}) <=>
               (/\ ProxyOf[t] = p /\ task'[t] = m
                /\ bpc'[t] \in {"handoff", "tosend", "pushing"}))
               => Sending(p, m)' = Sending(p, m)
  BY DEF Forming, Sending

\* The same for an output thread.
LEMMA OutputMoves ==
    ASSUME NEW o \in Outputs,
           \A u \in Outputs \ {o} : opc'[u] = opc[u] /\ obatch'[u] = obatch[u],
           NEW p \in Proxies, NEW m \in Models
    PROVE  /\ o \in Awaiting(p, m) <=>
                /\ ProxyOf[o] = p /\ obatch[o].model = m
                /\ opc[o] \in {"recv", "endexec"}
           /\ Awaiting(p, m)' =
                IF /\ ProxyOf[o] = p /\ obatch'[o].model = m
                   /\ opc'[o] \in {"recv", "endexec"}
                THEN Awaiting(p, m) \cup {o} ELSE Awaiting(p, m) \ {o}
  BY DEF Awaiting

\* An output thread that stays where it is, with its batch, owns what it did.
LEMMA OutputStays ==
    ASSUME NEW o \in Outputs,
           \A u \in Outputs \ {o} : opc'[u] = opc[u] /\ obatch'[u] = obatch[u],
           NEW p \in Proxies, NEW m \in Models
    PROVE  ((/\ ProxyOf[o] = p /\ obatch[o].model = m
             /\ opc[o] \in {"recv", "endexec"}) <=>
            (/\ ProxyOf[o] = p /\ obatch'[o].model = m
             /\ opc'[o] \in {"recv", "endexec"}))
               => Awaiting(p, m)' = Awaiting(p, m)
  BY DEF Awaiting

\* A batch appended to the output queue is announced for its model.
LEMMA AnnouncedPush ==
    ASSUME IInv, NEW q \in Proxies, NEW b \in Batch,
           outputQueue'[q] = Append(outputQueue[q], b),
           \A r \in Proxies \ {q} : outputQueue'[r] = outputQueue[r],
           NEW p \in Proxies, NEW m \in Models
    PROVE  Announced(p, m)' =
               Announced(p, m) \cup
                   (IF p = q /\ b.model = m THEN {Len(outputQueue[q]) + 1} ELSE {})
<1>1. outputQueue \in [Proxies -> Seq(Batch)]
  BY DEF IInv, TypeOK
<1>2. CASE p = q
  <2>1. outputQueue[q] \in Seq(Batch)
    BY <1>1
  <2>2. outputQueue'[p] = Append(outputQueue[q], b)
    BY <1>1, <1>2
  <2>3. DOMAIN outputQueue'[p] = 1 .. Len(outputQueue[q]) + 1
    BY <2>1, <2>2
  <2>4. \A i \in 1 .. Len(outputQueue[q]) : outputQueue'[p][i] = outputQueue[q][i]
    BY <2>1, <2>2
  <2>5. outputQueue'[p][Len(outputQueue[q]) + 1] = b
    BY <2>1, <2>2
  <2>6. DOMAIN outputQueue[q] = 1 .. Len(outputQueue[q]) /\ Len(outputQueue[q]) \in Nat
    BY <2>1
  <2> QED
    BY <1>2, <2>3, <2>4, <2>5, <2>6, SMTT(40) DEF Announced
<1>3. CASE p # q
  BY <1>1, <1>3 DEF Announced
<1> QED
  BY <1>2, <1>3

\* When the head of the output queue is taken, the others move up by one.
LEMMA AnnouncedPop ==
    ASSUME IInv, NEW q \in Proxies, outputQueue[q] # <<>>,
           outputQueue' = [outputQueue EXCEPT ![q] = Tail(@)],
           NEW p \in Proxies, NEW m \in Models
    PROVE  Announced(p, m)' =
               IF p = q THEN {i \in 1 .. Len(outputQueue[q]) - 1 :
                                  i + 1 \in Announced(p, m)}
               ELSE Announced(p, m)
<1>1. outputQueue \in [Proxies -> Seq(Batch)]
  BY DEF IInv, TypeOK
<1>2. CASE p = q
  <2>1. outputQueue[q] \in Seq(Batch)
    BY <1>1
  <2> DEFINE u == Tail(outputQueue[q])
  <2>2. outputQueue'[p] = u
    BY <1>1, <1>2
  <2>3. /\ u \in Seq(Batch)
        /\ Len(u) = Len(outputQueue[q]) - 1
        /\ \A i \in 1 .. Len(u) : u[i] = outputQueue[q][i + 1]
    BY <2>1, HeadTailProperties
  <2> HIDE DEF u
  <2>4. /\ DOMAIN outputQueue'[p] = 1 .. Len(outputQueue[q]) - 1
        /\ \A i \in 1 .. Len(outputQueue[q]) - 1 :
              outputQueue'[p][i] = outputQueue[q][i + 1]
    BY <2>2, <2>3
  <2>5. DOMAIN outputQueue[q] = 1 .. Len(outputQueue[q]) /\ Len(outputQueue[q]) \in Nat
    BY <2>1
  <2> QED
    BY <1>2, <2>4, <2>5 DEF Announced
<1>3. CASE p # q
  BY <1>1, <1>3 DEF Announced
<1> QED
  BY <1>2, <1>3

\* addtoModelQueue appends requests.
LEMMA ModelQueueType ==
    ASSUME IInv, NEW k \in Tasks, NEW ns \in SUBSET Nodes, addtoModelQueue(k, ns)
    PROVE  (reqQueue \in [Models -> Seq(Req)])'
<1> SUFFICES ASSUME NEW m \in Models, \E n \in ns : ModelOf[n] = m
             PROVE  Append(reqQueue[m], <<k, CHOOSE n \in ns : ModelOf[n] = m>>)
                        \in Seq(Req)
  BY DEF addtoModelQueue, IInv, TypeOK
<1>1. (CHOOSE n \in ns : ModelOf[n] = m) \in ns
  OBVIOUS
<1>2. <<k, CHOOSE n \in ns : ModelOf[n] = m>> \in Req
  BY <1>1 DEF Req
<1> QED
  BY <1>2, AppendProperties DEF IInv, TypeOK

\* A tensor arrives: the queue and the received inputs change.
LEMMA handleRequestStep ==
    ASSUME IInv, NEW k \in Tasks, NEW n \in Nodes, handleRequest(k, n)
    PROVE  IInv'
<1>1. /\ UNCHANGED <<routeVars, schedVars, countVars, batchVars, outVars,
                     lockVars, outputQueue, wireVars>>
  BY DEF handleRequest, addtoModelQueue
<1>2. AppTypeOK'
  BY ConstantsAssumption DEF IInv, TypeOK, AppTypeOK, handleRequest,
         addtoModelQueue
<1>3. (reqQueue \in [Models -> Seq(Req)])'
  BY ModelQueueType DEF handleRequest
<1> QED
  BY Frame, <1>1, <1>2, <1>3 DEF IInv, TypeOK, batchVars, countVars

\* A reply is sent: the application queue changes.
LEMMA initAppStep ==
    ASSUME IInv, initApp
    PROVE  IInv'
<1>1. /\ UNCHANGED <<reqQueue, routeVars, schedVars, countVars, batchVars,
                     outVars, lockVars, outputQueue, wireVars>>
  BY DEF initApp
<1>2. AppTypeOK'
  BY ConstantsAssumption DEF IInv, TypeOK, AppTypeOK, initApp
<1> QED
  BY Frame, <1>1, <1>2 DEF IInv, TypeOK, batchVars, countVars

\* The drop thread touches its own state only, ...
LEMMA DropCopyStep ==
    ASSUME IInv, NEW m \in Models, DropCopy(m)
    PROVE  IInv'
<1>1. /\ UNCHANGED <<reqQueue, routeVars, schedVars, countVars, batchVars,
                     outVars, lockVars, outputQueue, wireVars>>
  BY DEF DropCopy, DropRest
<1>2. AppTypeOK'
  BY ConstantsAssumption DEF IInv, TypeOK, AppTypeOK, DropCopy, DropRest
<1> QED
  BY Frame, <1>1, <1>2 DEF IInv, TypeOK, batchVars, countVars

\* ... ReqMtxVec ...
LEMMA DropLockStep ==
    ASSUME IInv, DropLock
    PROVE  IInv'
<1>1. /\ UNCHANGED <<reqQueue, routeVars, schedVars, countVars, batchVars,
                     outVars, lockVars, outputQueue, wireVars>>
  BY DEF DropLock, DropRest
<1>2. AppTypeOK'
  BY ConstantsAssumption DEF IInv, TypeOK, AppTypeOK, DropLock, DropRest
<1> QED
  BY Frame, <1>1, <1>2 DEF IInv, TypeOK, batchVars, countVars

\* ... and the application layer.
LEMMA DropExpiredStep ==
    ASSUME IInv, DropExpired
    PROVE  IInv'
<1>1. /\ UNCHANGED <<reqQueue, routeVars, schedVars, countVars, batchVars,
                     outVars, lockVars, outputQueue, wireVars>>
  BY DEF DropExpired, addtoAppQueue, DropRest
<1>2. AppTypeOK'
  <2>1. dropScan \in Seq(Req) /\ dropScan # <<>>
    BY DEF IInv, TypeOK, AppTypeOK, DropExpired
  <2>2. Head(dropScan) \in Req /\ dropScan' \in Seq(Req)
    BY <2>1, HeadTailProperties DEF DropExpired
  <2>3. PICK k \in Tasks, n \in Nodes : Head(dropScan) = <<k, n>>
    BY <2>2 DEF Req
  <2>4. reqDropped' \subseteq Req
    BY <2>2 DEF IInv, TypeOK, AppTypeOK, DropExpired
  <2>5. \/ UNCHANGED <<dropped, appQueue>>
        \/ /\ dropped' = [dropped EXCEPT ![k] = TRUE]
           /\ appQueue' = Append(appQueue, k)
    BY <2>3 DEF DropExpired, addtoAppQueue
  <2>6. appQueue' \in Seq(Tasks)
    <3>1. appQueue \in Seq(Tasks) /\ Append(appQueue, k) \in Seq(Tasks)
      BY AppendProperties DEF IInv, TypeOK, AppTypeOK
    <3>2. appQueue' = appQueue \/ appQueue' = Append(appQueue, k)
      BY <2>5
    <3> QED
      BY <3>1, <3>2
  <2>7. dropped' \in [Tasks -> BOOLEAN]
    BY <2>5 DEF IInv, TypeOK, AppTypeOK
  <2>8. UNCHANGED <<received, scoreBoard, reported, replies, dpc, dnet>>
    BY DEF DropExpired
  <2> QED
    BY <2>2, <2>4, <2>6, <2>7, <2>8 DEF IInv, TypeOK, AppTypeOK
<1> QED
  BY Frame, <1>1, <1>2 DEF IInv, TypeOK, batchVars, countVars

\* The copy is discarded.
LEMMA DropScanEndStep ==
    ASSUME IInv, DropScanEnd
    PROVE  IInv'
<1>1. /\ UNCHANGED <<reqQueue, routeVars, schedVars, countVars, batchVars,
                     outVars, lockVars, outputQueue, wireVars>>
  BY DEF DropScanEnd, DropRest
<1>2. AppTypeOK'
  BY ConstantsAssumption DEF IInv, TypeOK, AppTypeOK, DropScanEnd,
         DropRest
<1> QED
  BY Frame, <1>1, <1>2 DEF IInv, TypeOK, batchVars, countVars

\* A decision holds routed models only.
LEMMA staticMPSSchedulerStep ==
    ASSUME IInv, staticMPSScheduler
    PROVE  IInv'
<1>1. /\ UNCHANGED <<appVars, reqQueue, routeVars, countVars, batchVars,
                     outVars, lockVars, outputQueue, wireVars>>
  BY DEF staticMPSScheduler
<1>2. SchedTypeOK'
  <2>1. /\ batchList' = batchList
        /\ decision' = [p \in Proxies |->
                IF AssignTask(p) THEN {m \in netList[p] : reqQueue[m] # <<>>} ELSE {}]
    BY DEF staticMPSScheduler
  <2>2. \A p \in Proxies : netList[p] \subseteq Models
    BY DEF IInv, TypeOK, RouteTypeOK
  <2>3. \A p \in Proxies : {m \in netList[p] : reqQueue[m] # <<>>} \subseteq Models
    BY <2>2
  <2> QED
    BY <2>1, <2>3 DEF IInv, TypeOK, SchedTypeOK
<1> QED
  BY Frame, <1>1, <1>2 DEF IInv, TypeOK, batchVars, countVars

\* A task of the decision is handed over.
LEMMA doMPSSchedulingStep ==
    ASSUME IInv, NEW p \in Proxies, NEW m \in Models, doMPSScheduling(p, m)
    PROVE  IInv'
<1>1. /\ UNCHANGED <<appVars, reqQueue, routeVars, countVars, batchVars,
                     outVars, lockVars, outputQueue, wireVars>>
  BY DEF doMPSScheduling
<1>2. SchedTypeOK'
  BY ConstantsAssumption DEF IInv, TypeOK, SchedTypeOK, doMPSScheduling
<1> QED
  BY Frame, <1>1, <1>2 DEF IInv, TypeOK, batchVars, countVars

\* The routing is flushed.
LEMMA applyRoutingFlushStep ==
    ASSUME IInv, applyRoutingFlush
    PROVE  IInv'
<1>1. /\ UNCHANGED <<appVars, reqQueue, schedVars, countVars, batchVars,
                     outVars, lockVars, outputQueue, wireVars>>
  BY DEF applyRoutingFlush
<1>2. RouteTypeOK'
  BY ConstantsAssumption DEF IInv, TypeOK, RouteTypeOK, UnloadPC,
         applyRoutingFlush
<1> QED
  BY Frame, <1>1, <1>2 DEF IInv, TypeOK, batchVars, countVars

\* A model is loaded.
LEMMA loadModel_syncStep ==
    ASSUME IInv, NEW p \in Proxies, NEW m \in Models, loadModel_sync(p, m)
    PROVE  IInv'
<1>1. /\ UNCHANGED <<appVars, reqQueue, schedVars, countVars, batchVars,
                     outVars, lockVars, outputQueue, wireVars>>
  BY DEF loadModel_sync
<1>2. RouteTypeOK'
  BY ConstantsAssumption DEF IInv, TypeOK, RouteTypeOK, UnloadPC,
         loadModel_sync
<1> QED
  BY Frame, <1>1, <1>2 DEF IInv, TypeOK, batchVars, countVars

\* The new routing is installed.
LEMMA applyRoutingInstallStep ==
    ASSUME IInv, NEW nets \in [Proxies -> SUBSET Models], applyRoutingInstall(nets)
    PROVE  IInv'
<1>1. /\ UNCHANGED <<appVars, reqQueue, schedVars, countVars, batchVars,
                     outVars, lockVars, outputQueue, wireVars>>
  BY DEF applyRoutingInstall
<1>2. RouteTypeOK'
  BY ConstantsAssumption DEF IInv, TypeOK, RouteTypeOK, UnloadPC,
         applyRoutingInstall
<1> QED
  BY Frame, <1>1, <1>2 DEF IInv, TypeOK, batchVars, countVars

\* unloadModel_async chooses a model, ...
LEMMA UnloadNextStep ==
    ASSUME IInv, NEW p \in Proxies, NEW m \in Models, UnloadNext(p, m)
    PROVE  IInv'
<1>1. /\ UNCHANGED <<appVars, reqQueue, schedVars, countVars, batchVars,
                     outVars, lockVars, outputQueue, wireVars>>
  BY DEF UnloadNext, UGoTo, UnloadRest
<1>2. RouteTypeOK'
  BY ConstantsAssumption DEF IInv, TypeOK, RouteTypeOK, UnloadPC,
         UnloadNext, UGoTo, UnloadRest
<1> QED
  BY Frame, <1>1, <1>2 DEF IInv, TypeOK, batchVars, countVars

\* ... reads the length of the batch list, ...
LEMMA UnloadCheckSizeStep ==
    ASSUME IInv, NEW p \in Proxies, UnloadCheckSize(p)
    PROVE  IInv'
<1>1. /\ UNCHANGED <<appVars, reqQueue, schedVars, countVars, batchVars,
                     outVars, lockVars, outputQueue, wireVars>>
  BY DEF UnloadCheckSize, UGoTo, UnloadRest
<1>2. RouteTypeOK'
  BY ConstantsAssumption DEF IInv, TypeOK, RouteTypeOK, UnloadPC,
         UnloadCheckSize, UGoTo, UnloadRest
<1> QED
  BY Frame, <1>1, <1>2 DEF IInv, TypeOK, batchVars, countVars

\* ... isTaskBatching ...
LEMMA UnloadCheckBatchingStep ==
    ASSUME IInv, NEW p \in Proxies, UnloadCheckBatching(p)
    PROVE  IInv'
<1>1. /\ UNCHANGED <<appVars, reqQueue, schedVars, countVars, batchVars,
                     outVars, lockVars, outputQueue, wireVars>>
  BY DEF UnloadCheckBatching, UGoTo, UnloadRest
<1>2. RouteTypeOK'
  BY ConstantsAssumption DEF IInv, TypeOK, RouteTypeOK, UnloadPC,
         UnloadCheckBatching, UGoTo, UnloadRest
<1> QED
  BY Frame, <1>1, <1>2 DEF IInv, TypeOK, batchVars, countVars

\* ... and isTaskExec, and unloads it.
LEMMA UnloadCheckExecStep ==
    ASSUME IInv, NEW p \in Proxies, UnloadCheckExec(p)
    PROVE  IInv'
<1>1. /\ UNCHANGED <<appVars, reqQueue, schedVars, countVars, batchVars,
                     outVars, lockVars, outputQueue, wireVars>>
  BY DEF UnloadCheckExec, UGoTo, UnloadRest
<1>2. RouteTypeOK'
  <2>1. UNCHANGED <<netList, isSchedulable, rerouting, reroutes, uexempt>>
    BY DEF UnloadCheckExec, UnloadRest
  <2>2. CASE isTaskExec[p][umodel[p]] = 0
    <3>1. /\ upc' = [upc EXCEPT ![p] = "next"]
          /\ loadedModels' = [loadedModels EXCEPT ![p] = @ \ {umodel[p]}]
          /\ umodel' = [umodel EXCEPT ![p] = NoModel]
      BY <2>2 DEF UnloadCheckExec, UGoTo
    <3> QED
      BY <2>1, <3>1 DEF IInv, TypeOK, RouteTypeOK, UnloadPC
  <2>3. CASE isTaskExec[p][umodel[p]] # 0
    <3>1. /\ upc[p] = "exec" /\ upc' = [upc EXCEPT ![p] = "size"]
          /\ UNCHANGED <<loadedModels, umodel>>
      BY <2>3 DEF UnloadCheckExec, UGoTo
    <3> QED
      BY <2>1, <3>1 DEF IInv, TypeOK, RouteTypeOK, UnloadPC
  <2> QED
    BY <2>2, <2>3
<1> QED
  BY Frame, <1>1, <1>2 DEF IInv, TypeOK, batchVars, countVars

\* unloadModel_async ends.
LEMMA UnloadEndStep ==
    ASSUME IInv, NEW p \in Proxies, UnloadEnd(p)
    PROVE  IInv'
<1>1. /\ UNCHANGED <<appVars, reqQueue, schedVars, countVars, batchVars,
                     outVars, lockVars, outputQueue, wireVars>>
  BY DEF UnloadEnd, UGoTo, UnloadRest
<1>2. RouteTypeOK'
  BY ConstantsAssumption DEF IInv, TypeOK, RouteTypeOK, UnloadPC,
         UnloadEnd, UGoTo, UnloadRest
<1> QED
  BY Frame, <1>1, <1>2 DEF IInv, TypeOK, batchVars, countVars

\* The wires do not matter to the counters.
LEMMA recvBatchedTensorStep ==
    ASSUME IInv, NEW p \in Proxies, recvBatchedTensor(p)
    PROVE  IInv'
<1>1. /\ UNCHANGED <<appVars, reqQueue, routeVars, schedVars, countVars,
                     batchVars, outVars, lockVars, outputQueue>>
  BY DEF recvBatchedTensor, WireRest
<1>2. WireTypeOK'
  BY ConstantsAssumption DEF IInv, TypeOK, WireTypeOK,
         recvBatchedTensor, WireRest
<1> QED
  BY Frame, <1>1, <1>2 DEF IInv, TypeOK, batchVars, countVars

\* The batch is queued for the out-thread.
LEMMA enqueueForwardedStep ==
    ASSUME IInv, NEW p \in Proxies, enqueueForwarded(p)
    PROVE  IInv'
<1>1. /\ UNCHANGED <<appVars, reqQueue, routeVars, schedVars, countVars,
                     batchVars, outVars, lockVars, outputQueue>>
  BY DEF enqueueForwarded, WireRest
<1>2. WireTypeOK'
  BY ConstantsAssumption DEF IInv, TypeOK, WireTypeOK, enqueueForwarded,
         WireRest
<1> QED
  BY Frame, <1>1, <1>2 DEF IInv, TypeOK, batchVars, countVars

\* The proxy computes.
LEMMA proxyComputeStep ==
    ASSUME IInv, NEW p \in Proxies, proxyCompute(p)
    PROVE  IInv'
<1>1. /\ UNCHANGED <<appVars, reqQueue, routeVars, schedVars, countVars,
                     batchVars, outVars, lockVars, outputQueue>>
  BY DEF proxyCompute, WireRest
<1>2. WireTypeOK'
  BY ConstantsAssumption DEF IInv, TypeOK, WireTypeOK, proxyCompute,
         WireRest
<1> QED
  BY Frame, <1>1, <1>2 DEF IInv, TypeOK, batchVars, countVars

\* The out-thread takes a batch.
LEMMA dequeueAwaitedStep ==
    ASSUME IInv, NEW p \in Proxies, dequeueAwaited(p)
    PROVE  IInv'
<1>1. /\ UNCHANGED <<appVars, reqQueue, routeVars, schedVars, countVars,
                     batchVars, outVars, lockVars, outputQueue>>
  BY DEF dequeueAwaited, WireRest
<1>2. WireTypeOK'
  BY ConstantsAssumption DEF IInv, TypeOK, WireTypeOK, dequeueAwaited,
         WireRest
<1> QED
  BY Frame, <1>1, <1>2 DEF IInv, TypeOK, batchVars, countVars

\* The result is sent to the frontend.
LEMMA receiveandsendOutputStep ==
    ASSUME IInv, NEW p \in Proxies, receiveandsendOutput(p)
    PROVE  IInv'
<1>1. /\ UNCHANGED <<appVars, reqQueue, routeVars, schedVars, countVars,
                     batchVars, outVars, lockVars, outputQueue>>
  BY DEF receiveandsendOutput, WireRest
<1>2. WireTypeOK'
  BY ConstantsAssumption DEF IInv, TypeOK, WireTypeOK,
         receiveandsendOutput, WireRest
<1> QED
  BY Frame, <1>1, <1>2 DEF IInv, TypeOK, batchVars, countVars

\* A batching thread takes a task: it holds no counter yet.
LEMMA TakeTaskStep ==
    ASSUME IInv, NEW t \in Batchers, TakeTask(t)
    PROVE  IInv'
<1>1. /\ UNCHANGED <<appVars, reqQueue, routeVars, countVars, outVars,
                     lockVars, outputQueue, wireVars>>
      /\ UNCHANGED <<isTaskBatching, isTaskExec, outputQueue, outVars>>
  BY DEF TakeTask, BatcherRest, batchVars, appVars, schedVars, countVars,
         lockVars, wireVars
<1>2. BatcherTypeOK'
  <2> DEFINE p == ProxyOf[t]
  <2>1. batchList[p] \in Seq(Models) /\ batchList[p] # <<>>
    BY ConstantsAssumption DEF IInv, TypeOK, SchedTypeOK, TakeTask
  <2>2. Head(batchList[p]) \in Models
    BY <2>1, HeadTailProperties
  <2>3. CASE UNCHANGED batchVars
    BY <2>3, Frame
  <2>4. CASE ~ UNCHANGED batchVars
    <3>1. /\ bpc' = [bpc EXCEPT ![t] = "popped"]
          /\ task' = [task EXCEPT ![t] = Head(batchList[p])]
          /\ batch' = batch
      BY <2>4 DEF TakeTask, GoTo
    <3> QED
      BY <3>1, <2>2 DEF IInv, TypeOK, BatcherTypeOK, BatcherPC
  <2> QED
    BY <2>3, <2>4
<1>3. /\ task[t] \in Models \cup {NoModel} /\ ProxyOf[t] \in Proxies
      /\ bpc[t] = "idle" /\ bpc'[t] \in {"idle", "popped"}
      /\ \A u \in Batchers \ {t} : bpc'[u] = bpc[u] /\ task'[u] = task[u]
  BY ConstantsAssumption DEF IInv, TypeOK, BatcherTypeOK, TakeTask, GoTo,
         batchVars
<1>4. SchedTypeOK'
  <2>1. batchList[ProxyOf[t]] \in Seq(Models) /\ batchList[ProxyOf[t]] # <<>>
    BY <1>3 DEF IInv, TypeOK, SchedTypeOK, TakeTask
  <2>2. Tail(batchList[ProxyOf[t]]) \in Seq(Models)
    BY <2>1, HeadTailProperties
  <2> QED
    BY <1>3, <2>2 DEF IInv, TypeOK, SchedTypeOK, TakeTask, BatcherRest
<1>5. OneBatching'
  <2> SUFFICES ASSUME NEW p \in Proxies, NEW m \in Models
               PROVE  Forming(p, m)' = Forming(p, m)
    BY <1>1 DEF IInv, OneBatching, AtMostOne
  <2> QED
    BY <1>3, BatcherStays
<1>6. OneExecution'
  <2> SUFFICES ASSUME NEW p \in Proxies, NEW m \in Models
               PROVE  /\ Sending(p, m)' = Sending(p, m)
                      /\ Announced(p, m)' = Announced(p, m)
                      /\ Awaiting(p, m)' = Awaiting(p, m)
    BY <1>1 DEF IInv, OneExecution, AtMostOne
  <2>1. Announced(p, m)' = Announced(p, m) /\ Awaiting(p, m)' = Awaiting(p, m)
    BY <1>1 DEF Announced, Awaiting, outVars
  <2>2. Sending(p, m)' = Sending(p, m)
    BY <1>3, BatcherStays
  <2> QED
    BY <2>1, <2>2
<1> QED
  BY Frame, <1>1, <1>2, <1>4, <1>5, <1>6 DEF IInv, TypeOK

\* The counter was 0, so nobody else forms a batch of the model.
LEMMA StartBatchingStep ==
    ASSUME IInv, NEW t \in Batchers, StartBatching(t)
    PROVE  IInv'
<1>1. /\ UNCHANGED <<appVars, reqQueue, routeVars, schedVars, outVars,
                     lockVars, outputQueue, wireVars>>
      /\ UNCHANGED <<isTaskExec, outputQueue, outVars>>
  BY DEF StartBatching, BatcherRest, appVars, schedVars, countVars,
         batchVars, lockVars, wireVars
<1>2. BatcherTypeOK'
  BY DEF IInv, TypeOK, BatcherTypeOK, BatcherPC, SchedTypeOK,
         StartBatching, GoTo
<1>3. /\ task[t] \in Models /\ ProxyOf[t] \in Proxies
      /\ bpc[t] = "popped" /\ bpc'[t] = "batching" /\ task'[t] = task[t]
      /\ \A u \in Batchers \ {t} : bpc'[u] = bpc[u] /\ task'[u] = task[u]
  BY ConstantsAssumption DEF IInv, TypeOK, BatcherTypeOK, StartBatching,
         GoTo
<1>4. /\ isTaskBatching[ProxyOf[t]][task[t]] = 0
      /\ isTaskBatching' = [isTaskBatching EXCEPT
              ![ProxyOf[t]] = [@ EXCEPT ![task[t]] = 1]]
  BY <1>3 DEF IInv, TypeOK, CountTypeOK, StartBatching
<1>5. CountTypeOK'
  BY <1>1, <1>3, <1>4 DEF IInv, TypeOK, CountTypeOK
<1>6. OneBatching'
  <2> SUFFICES ASSUME NEW p \in Proxies, NEW m \in Models
               PROVE  (/\ AtMostOne(Forming(p, m))
                       /\ Forming(p, m) # {} <=> isTaskBatching[p][m] = 1)'
    BY DEF OneBatching
  <2>1. isTaskBatching'[p][m] = IF p = ProxyOf[t] /\ m = task[t] THEN 1
                                ELSE isTaskBatching[p][m]
    BY <1>3, <1>4 DEF IInv, TypeOK, CountTypeOK
  <2> QED
    BY <2>1, <1>3, <1>4, BatcherMoves DEF IInv, OneBatching, AtMostOne
<1>7. OneExecution'
  <2> SUFFICES ASSUME NEW p \in Proxies, NEW m \in Models
               PROVE  /\ Sending(p, m)' = Sending(p, m)
                      /\ Announced(p, m)' = Announced(p, m)
                      /\ Awaiting(p, m)' = Awaiting(p, m)
    BY <1>1 DEF IInv, OneExecution, AtMostOne
  <2>1. Announced(p, m)' = Announced(p, m) /\ Awaiting(p, m)' = Awaiting(p, m)
    BY <1>1 DEF Announced, Awaiting, outVars
  <2>2. Sending(p, m)' = Sending(p, m)
    BY <1>3, BatcherStays
  <2> QED
    BY <2>1, <2>2
<1> QED
  BY Frame, <1>1, <1>2, <1>5, <1>6, <1>7 DEF IInv, TypeOK

\* A request moves from the queue to the batch.
LEMMA AddRequestStep ==
    ASSUME IInv, NEW t \in Batchers, AddRequest(t)
    PROVE  IInv'
<1>1. /\ UNCHANGED <<appVars, routeVars, schedVars, countVars, outVars,
                     lockVars, outputQueue, wireVars>>
      /\ UNCHANGED <<isTaskBatching, isTaskExec, outputQueue, outVars>>
  BY DEF AddRequest, BatcherRest, appVars, schedVars, countVars,
         batchVars, lockVars, wireVars
<1>2. BatcherTypeOK'
  BY DEF IInv, TypeOK, BatcherTypeOK, BatcherPC, SchedTypeOK, AddRequest,
         GoTo
<1>3. /\ task[t] \in Models /\ ProxyOf[t] \in Proxies
      /\ bpc[t] = "batching" /\ bpc'[t] = "batching" /\ task'[t] = task[t]
      /\ \A u \in Batchers \ {t} : bpc'[u] = bpc[u] /\ task'[u] = task[u]
  BY ConstantsAssumption DEF IInv, TypeOK, BatcherTypeOK, AddRequest, GoTo
<1>4. (reqQueue \in [Models -> Seq(Req)])'
  <2>1. reqQueue[task[t]] \in Seq(Req) /\ reqQueue[task[t]] # <<>>
    BY <1>3 DEF IInv, TypeOK, AddRequest
  <2>2. Tail(reqQueue[task[t]]) \in Seq(Req)
    BY <2>1, HeadTailProperties
  <2> QED
    BY <2>2 DEF IInv, TypeOK, AddRequest
<1>5. OneBatching'
  <2> SUFFICES ASSUME NEW p \in Proxies, NEW m \in Models
               PROVE  Forming(p, m)' = Forming(p, m)
    BY <1>1 DEF IInv, OneBatching, AtMostOne
  <2> QED
    BY <1>3, BatcherStays
<1>6. OneExecution'
  <2> SUFFICES ASSUME NEW p \in Proxies, NEW m \in Models
               PROVE  /\ Sending(p, m)' = Sending(p, m)
                      /\ Announced(p, m)' = Announced(p, m)
                      /\ Awaiting(p, m)' = Awaiting(p, m)
    BY <1>1 DEF IInv, OneExecution, AtMostOne
  <2>1. Announced(p, m)' = Announced(p, m) /\ Awaiting(p, m)' = Awaiting(p, m)
    BY <1>1 DEF Announced, Awaiting, outVars
  <2>2. Sending(p, m)' = Sending(p, m)
    BY <1>3, BatcherStays
  <2> QED
    BY <2>1, <2>2
<1> QED
  BY Frame, <1>1, <1>2, <1>4, <1>5, <1>6 DEF IInv, TypeOK

\* A thread that gives up an empty batch is the one the counter stands for.
LEMMA CloseBatchStep ==
    ASSUME IInv, NEW t \in Batchers, CloseBatch(t)
    PROVE  IInv'
<1>1. /\ UNCHANGED <<appVars, reqQueue, routeVars, schedVars, outVars,
                     lockVars, outputQueue, wireVars>>
      /\ UNCHANGED <<isTaskExec, outputQueue, outVars>>
  BY DEF CloseBatch, BatcherRest, appVars, schedVars, countVars,
         batchVars, lockVars, wireVars
<1>2. BatcherTypeOK'
  BY DEF IInv, TypeOK, BatcherTypeOK, BatcherPC, SchedTypeOK, CloseBatch,
         GoTo
<1>3. /\ task[t] \in Models /\ ProxyOf[t] \in Proxies
      /\ bpc[t] = "batching"
      /\ bpc'[t] = "idle" \/ (bpc'[t] = "formed" /\ task'[t] = task[t])
      /\ \A u \in Batchers \ {t} : bpc'[u] = bpc[u] /\ task'[u] = task[u]
  BY ConstantsAssumption DEF IInv, TypeOK, BatcherTypeOK, CloseBatch, GoTo
<1>4. \/ /\ bpc'[t] = "idle"
         /\ isTaskBatching' = [isTaskBatching EXCEPT
                ![ProxyOf[t]] = [@ EXCEPT ![task[t]] = 0]]
      \/ bpc'[t] = "formed" /\ isTaskBatching' = isTaskBatching
  <2>1. t \in Forming(ProxyOf[t], task[t])
    BY <1>3 DEF Forming
  <2>2. isTaskBatching[ProxyOf[t]][task[t]] = 1
    BY <1>3, <2>1 DEF IInv, OneBatching
  <2> QED
    BY <1>3, <2>2 DEF IInv, TypeOK, CountTypeOK, BatcherTypeOK, CloseBatch, GoTo
<1>5. CountTypeOK'
  <2>1. CASE isTaskBatching' = isTaskBatching
    BY <1>1, <2>1 DEF IInv, TypeOK, CountTypeOK
  <2>2. CASE isTaskBatching' = [isTaskBatching EXCEPT
                                   ![ProxyOf[t]] = [@ EXCEPT ![task[t]] = 0]]
    BY <1>1, <1>3, <2>2 DEF IInv, TypeOK, CountTypeOK
  <2> QED
    BY <1>4, <2>1, <2>2
<1>6. OneBatching'
  <2> SUFFICES ASSUME NEW p \in Proxies, NEW m \in Models
               PROVE  (/\ AtMostOne(Forming(p, m))
                       /\ Forming(p, m) # {} <=> isTaskBatching[p][m] = 1)'
    BY DEF OneBatching
  <2>1. CASE bpc'[t] = "idle"
    <3>1. isTaskBatching'[p][m] = IF p = ProxyOf[t] /\ m = task[t] THEN 0
                                  ELSE isTaskBatching[p][m]
      BY <1>3, <1>4, <2>1 DEF IInv, TypeOK, CountTypeOK
    <3> QED
      BY <1>3, <2>1, <3>1, BatcherMoves DEF IInv, OneBatching, AtMostOne
  <2>2. CASE bpc'[t] # "idle"
    <3>1. isTaskBatching' = isTaskBatching /\ task'[t] = task[t] /\ bpc'[t] = "formed"
      BY <1>3, <1>4, <2>2
    <3>2. Forming(p, m)' = Forming(p, m)
      BY <1>3, <3>1, BatcherStays
    <3> QED
      BY <3>1, <3>2 DEF IInv, OneBatching, AtMostOne
  <2> QED
    BY <2>1, <2>2
<1>7. OneExecution'
  <2> SUFFICES ASSUME NEW p \in Proxies, NEW m \in Models
               PROVE  /\ Sending(p, m)' = Sending(p, m)
                      /\ Announced(p, m)' = Announced(p, m)
                      /\ Awaiting(p, m)' = Awaiting(p, m)
    BY <1>1 DEF IInv, OneExecution, AtMostOne
  <2>1. Announced(p, m)' = Announced(p, m) /\ Awaiting(p, m)' = Awaiting(p, m)
    BY <1>1 DEF Announced, Awaiting, outVars
  <2>2. Sending(p, m)' = Sending(p, m)
    BY <1>3, BatcherStays
  <2> QED
    BY <2>1, <2>2
<1> QED
  BY Frame, <1>1, <1>2, <1>5, <1>6, <1>7 DEF IInv, TypeOK

\* The counter was 0, so no batch of the model executes on the proxy.
LEMMA StartExecStep ==
    ASSUME IInv, NEW t \in Batchers, StartExec(t)
    PROVE  IInv'
<1>1. /\ UNCHANGED <<appVars, reqQueue, routeVars, schedVars, outVars,
                     lockVars, outputQueue, wireVars>>
      /\ UNCHANGED <<isTaskBatching, outputQueue, outVars>>
  BY DEF StartExec, BatcherRest, appVars, schedVars, countVars, batchVars,
         lockVars, wireVars
<1>2. BatcherTypeOK'
  BY DEF IInv, TypeOK, BatcherTypeOK, BatcherPC, SchedTypeOK, StartExec,
         GoTo
<1>3. /\ task[t] \in Models /\ ProxyOf[t] \in Proxies
      /\ bpc[t] = "formed" /\ bpc'[t] = "handoff" /\ task'[t] = task[t]
      /\ \A u \in Batchers \ {t} : bpc'[u] = bpc[u] /\ task'[u] = task[u]
  BY ConstantsAssumption DEF IInv, TypeOK, BatcherTypeOK, StartExec, GoTo
<1>4. /\ isTaskExec[ProxyOf[t]][task[t]] = 0
      /\ isTaskExec' = [isTaskExec EXCEPT
              ![ProxyOf[t]] = [@ EXCEPT ![task[t]] = 1]]
  BY <1>3 DEF IInv, TypeOK, CountTypeOK, StartExec
<1>5. CountTypeOK'
  BY <1>1, <1>3, <1>4 DEF IInv, TypeOK, CountTypeOK
<1>6. OneBatching'
  <2> SUFFICES ASSUME NEW p \in Proxies, NEW m \in Models
               PROVE  Forming(p, m)' = Forming(p, m)
    BY <1>1 DEF IInv, OneBatching, AtMostOne
  <2> QED
    BY <1>3, BatcherStays
<1>7. OneExecution'
  <2> SUFFICES ASSUME NEW p \in Proxies, NEW m \in Models
               PROVE  (/\ AtMostOne(Sending(p, m))
                       /\ AtMostOne(Announced(p, m))
                       /\ AtMostOne(Awaiting(p, m))
                       /\ Sending(p, m) # {} => /\ Announced(p, m) = {}
                                                /\ Awaiting(p, m) = {}
                       /\ Announced(p, m) # {} => Awaiting(p, m) = {}
                       /\ (Sending(p, m) \cup Announced(p, m) \cup Awaiting(p, m) # {})
                              <=> isTaskExec[p][m] = 1)'
    BY DEF OneExecution
  <2>1. isTaskExec'[p][m] = IF p = ProxyOf[t] /\ m = task[t] THEN 1
                                ELSE isTaskExec[p][m]
    BY <1>3, <1>4 DEF IInv, TypeOK, CountTypeOK
  <2>2. Announced(p, m)' = Announced(p, m) /\ Awaiting(p, m)' = Awaiting(p, m)
    BY <1>1 DEF Announced, Awaiting, outVars
  <2>3. /\ p = ProxyOf[t] /\ m = task[t] => Sending(p, m)' = Sending(p, m) \cup {t}
        /\ ~(p = ProxyOf[t] /\ m = task[t]) => Sending(p, m)' = Sending(p, m)
    BY <1>3, BatcherMoves, BatcherStays
  <2>4. p = ProxyOf[t] /\ m = task[t] =>
            Sending(p, m) = {} /\ Announced(p, m) = {} /\ Awaiting(p, m) = {}
    BY <1>4 DEF IInv, OneExecution
  <2> QED
    BY <2>1, <2>2, <2>3, <2>4 DEF IInv, OneExecution, AtMostOne
<1> QED
  BY Frame, <1>1, <1>2, <1>5, <1>6, <1>7 DEF IInv, TypeOK

\* The thread is the only one that forms a batch of the model.
LEMMA EndBatchingStep ==
    ASSUME IInv, NEW t \in Batchers, EndBatching(t)
    PROVE  IInv'
<1>1. /\ UNCHANGED <<appVars, reqQueue, routeVars, schedVars, outVars,
                     lockVars, outputQueue, wireVars>>
      /\ UNCHANGED <<isTaskExec, outputQueue, outVars>>
  BY DEF EndBatching, BatcherRest, appVars, schedVars, countVars,
         batchVars, lockVars, wireVars
<1>2. BatcherTypeOK'
  BY DEF IInv, TypeOK, BatcherTypeOK, BatcherPC, SchedTypeOK, EndBatching,
         GoTo
<1>3. /\ task[t] \in Models /\ ProxyOf[t] \in Proxies
      /\ bpc[t] = "handoff" /\ bpc'[t] = "tosend" /\ task'[t] = task[t]
      /\ \A u \in Batchers \ {t} : bpc'[u] = bpc[u] /\ task'[u] = task[u]
  BY ConstantsAssumption DEF IInv, TypeOK, BatcherTypeOK, EndBatching,
         GoTo
<1>4. /\ isTaskBatching[ProxyOf[t]][task[t]] = 1
      /\ isTaskBatching' = [isTaskBatching EXCEPT
              ![ProxyOf[t]] = [@ EXCEPT ![task[t]] = 0]]
  <2>1. t \in Forming(ProxyOf[t], task[t])
    BY <1>3 DEF Forming
  <2>2. isTaskBatching[ProxyOf[t]][task[t]] = 1
    BY <1>3, <2>1 DEF IInv, OneBatching
  <2> QED
    BY <1>3, <2>2 DEF IInv, TypeOK, CountTypeOK, EndBatching
<1>5. CountTypeOK'
  BY <1>1, <1>3, <1>4 DEF IInv, TypeOK, CountTypeOK
<1>6. OneBatching'
  <2> SUFFICES ASSUME NEW p \in Proxies, NEW m \in Models
               PROVE  (/\ AtMostOne(Forming(p, m))
                       /\ Forming(p, m) # {} <=> isTaskBatching[p][m] = 1)'
    BY DEF OneBatching
  <2>1. isTaskBatching'[p][m] = IF p = ProxyOf[t] /\ m = task[t] THEN 0
                                ELSE isTaskBatching[p][m]
    BY <1>3, <1>4 DEF IInv, TypeOK, CountTypeOK
  <2> QED
    BY <2>1, <1>3, <1>4, BatcherMoves DEF IInv, OneBatching, AtMostOne
<1>7. OneExecution'
  <2> SUFFICES ASSUME NEW p \in Proxies, NEW m \in Models
               PROVE  /\ Sending(p, m)' = Sending(p, m)
                      /\ Announced(p, m)' = Announced(p, m)
                      /\ Awaiting(p, m)' = Awaiting(p, m)
    BY <1>1 DEF IInv, OneExecution, AtMostOne
  <2>1. Announced(p, m)' = Announced(p, m) /\ Awaiting(p, m)' = Awaiting(p, m)
    BY <1>1 DEF Announced, Awaiting, outVars
  <2>2. Sending(p, m)' = Sending(p, m)
    BY <1>3, BatcherStays
  <2> QED
    BY <2>1, <2>2
<1> QED
  BY Frame, <1>1, <1>2, <1>5, <1>6, <1>7 DEF IInv, TypeOK

\* sendMtx is taken.
LEMMA LockSendStep ==
    ASSUME IInv, NEW t \in Batchers, LockSend(t)
    PROVE  IInv'
<1>1. /\ UNCHANGED <<appVars, reqQueue, routeVars, schedVars, countVars,
                     outVars, outputQueue, wireVars>>
      /\ UNCHANGED <<isTaskBatching, isTaskExec, outputQueue, outVars>>
  BY DEF LockSend, BatcherRest, appVars, schedVars, countVars, batchVars,
         lockVars, wireVars
<1>2. BatcherTypeOK'
  BY DEF IInv, TypeOK, BatcherTypeOK, BatcherPC, SchedTypeOK, LockSend,
         GoTo
<1>3. /\ task[t] \in Models /\ ProxyOf[t] \in Proxies
      /\ bpc[t] = "tosend" /\ bpc'[t] = "pushing" /\ task'[t] = task[t]
      /\ \A u \in Batchers \ {t} : bpc'[u] = bpc[u] /\ task'[u] = task[u]
  BY ConstantsAssumption DEF IInv, TypeOK, BatcherTypeOK, LockSend, GoTo
<1>4. LockTypeOK'
  BY <1>3 DEF IInv, TypeOK, LockTypeOK, LockSend
<1>5. OneBatching'
  <2> SUFFICES ASSUME NEW p \in Proxies, NEW m \in Models
               PROVE  Forming(p, m)' = Forming(p, m)
    BY <1>1 DEF IInv, OneBatching, AtMostOne
  <2> QED
    BY <1>3, BatcherStays
<1>6. OneExecution'
  <2> SUFFICES ASSUME NEW p \in Proxies, NEW m \in Models
               PROVE  /\ Sending(p, m)' = Sending(p, m)
                      /\ Announced(p, m)' = Announced(p, m)
                      /\ Awaiting(p, m)' = Awaiting(p, m)
    BY <1>1 DEF IInv, OneExecution, AtMostOne
  <2>1. Announced(p, m)' = Announced(p, m) /\ Awaiting(p, m)' = Awaiting(p, m)
    BY <1>1 DEF Announced, Awaiting, outVars
  <2>2. Sending(p, m)' = Sending(p, m)
    BY <1>3, BatcherStays
  <2> QED
    BY <2>1, <2>2
<1> QED
  BY Frame, <1>1, <1>2, <1>4, <1>5, <1>6 DEF IInv, TypeOK

\* The execution passes from the sending thread to the output queue.
LEMMA PushOutputStep ==
    ASSUME IInv, NEW t \in Batchers, PushOutput(t)
    PROVE  IInv'
<1>1. /\ UNCHANGED <<appVars, reqQueue, routeVars, schedVars, countVars,
                     outVars, lockVars, wireVars>>
      /\ UNCHANGED <<isTaskBatching, isTaskExec, outVars>>
  BY DEF PushOutput, BatcherRest, appVars, schedVars, countVars,
         batchVars, lockVars, wireVars
<1>2. BatcherTypeOK'
  BY DEF IInv, TypeOK, BatcherTypeOK, BatcherPC, SchedTypeOK, PushOutput,
         GoTo
<1>3. /\ task[t] \in Models /\ ProxyOf[t] \in Proxies
      /\ bpc[t] = "pushing" /\ bpc'[t] = "sending" /\ task'[t] = task[t]
      /\ \A u \in Batchers \ {t} : bpc'[u] = bpc[u] /\ task'[u] = task[u]
  BY ConstantsAssumption DEF IInv, TypeOK, BatcherTypeOK, PushOutput, GoTo
<1>4. PICK b \in Batch :
         /\ b.model = task[t]
         /\ outputQueue' = [outputQueue EXCEPT ![ProxyOf[t]] = Append(@, b)]
  <2>1. [model |-> task[t], reqs |-> batch[t]] \in Batch
    BY <1>3 DEF IInv, TypeOK, BatcherTypeOK, Batch
  <2> QED
    BY <2>1 DEF PushOutput
<1>5. (outputQueue \in [Proxies -> Seq(Batch)])'
  <2>1. outputQueue[ProxyOf[t]] \in Seq(Batch)
    BY <1>3 DEF IInv, TypeOK
  <2>2. Append(outputQueue[ProxyOf[t]], b) \in Seq(Batch)
    BY <2>1, AppendProperties
  <2> QED
    BY <1>4, <2>2 DEF IInv, TypeOK
<1>6. OneBatching'
  <2> SUFFICES ASSUME NEW p \in Proxies, NEW m \in Models
               PROVE  Forming(p, m)' = Forming(p, m)
    BY <1>1 DEF IInv, OneBatching, AtMostOne
  <2> QED
    BY <1>3, BatcherStays
<1>7. OneExecution'
  <2> SUFFICES ASSUME NEW p \in Proxies, NEW m \in Models
               PROVE  (/\ AtMostOne(Sending(p, m))
                       /\ AtMostOne(Announced(p, m))
                       /\ AtMostOne(Awaiting(p, m))
                       /\ Sending(p, m) # {} => /\ Announced(p, m) = {}
                                                /\ Awaiting(p, m) = {}
                       /\ Announced(p, m) # {} => Awaiting(p, m) = {}
                       /\ (Sending(p, m) \cup Announced(p, m) \cup Awaiting(p, m) # {})
                              <=> isTaskExec[p][m] = 1)'
    BY DEF OneExecution
  <2>1. isTaskExec' = isTaskExec /\ Awaiting(p, m)' = Awaiting(p, m)
    BY <1>1 DEF Awaiting, outVars
  <2>2. Sending(p, m)' = Sending(p, m) \ {t}
    BY <1>3, BatcherMoves
  <2>3. t \in Sending(p, m) <=> p = ProxyOf[t] /\ m = task[t]
    BY <1>3, BatcherMoves
  <2>4. Announced(p, m)' = Announced(p, m) \cup
            (IF p = ProxyOf[t] /\ m = task[t]
             THEN {Len(outputQueue[ProxyOf[t]]) + 1} ELSE {})
    <3>1. /\ ProxyOf[t] \in Proxies
          /\ outputQueue'[ProxyOf[t]] = Append(outputQueue[ProxyOf[t]], b)
          /\ \A r \in Proxies \ {ProxyOf[t]} : outputQueue'[r] = outputQueue[r]
      BY <1>3, <1>4 DEF IInv, TypeOK
    <3>2. Announced(p, m)' = Announced(p, m) \cup
              (IF p = ProxyOf[t] /\ b.model = m
               THEN {Len(outputQueue[ProxyOf[t]]) + 1} ELSE {})
      BY <3>1, AnnouncedPush
    <3>3. b.model = m <=> m = task[t]
      BY <1>4
    <3> QED
      BY <3>2, <3>3
  <2>5. CASE p = ProxyOf[t] /\ m = task[t]
    <3>1. Announced(p, m) = {} /\ Awaiting(p, m) = {} /\ isTaskExec[p][m] = 1
      BY <2>3, <2>5 DEF IInv, OneExecution
    <3>2. Sending(p, m)' = {}
      BY <2>2, <2>3, <2>5 DEF IInv, OneExecution, AtMostOne
    <3>3. Announced(p, m)' = {Len(outputQueue[ProxyOf[t]]) + 1}
      BY <2>4, <2>5, <3>1
    <3> QED
      BY <2>1, <3>1, <3>2, <3>3 DEF AtMostOne
  <2>6. CASE ~(p = ProxyOf[t] /\ m = task[t])
    <3>1. Sending(p, m)' = Sending(p, m) /\ Announced(p, m)' = Announced(p, m)
      BY <2>2, <2>3, <2>4, <2>6
    <3> QED
      BY <2>1, <3>1 DEF IInv, OneExecution, AtMostOne
  <2> QED
    BY <2>5, <2>6
<1> QED
  BY Frame, <1>1, <1>2, <1>4, <1>5, <1>6, <1>7 DEF IInv, TypeOK

\* The thread is done with the batch it announced.
LEMMA SendToBackendStep ==
    ASSUME IInv, NEW t \in Batchers, SendToBackend(t)
    PROVE  IInv'
<1>1. /\ UNCHANGED <<appVars, reqQueue, routeVars, schedVars, countVars,
                     outVars, outputQueue>>
      /\ UNCHANGED <<isTaskBatching, isTaskExec, outputQueue, outVars>>
  BY DEF SendToBackend, BatcherRest, appVars, schedVars, countVars,
         batchVars, lockVars, wireVars
<1>2. BatcherTypeOK'
  BY DEF IInv, TypeOK, BatcherTypeOK, BatcherPC, SchedTypeOK,
         SendToBackend, GoTo
<1>3. /\ task[t] \in Models /\ ProxyOf[t] \in Proxies
      /\ bpc[t] = "sending" /\ bpc'[t] = "idle"
      /\ \A u \in Batchers \ {t} : bpc'[u] = bpc[u] /\ task'[u] = task[u]
  BY ConstantsAssumption DEF IInv, TypeOK, BatcherTypeOK, SendToBackend,
         GoTo
<1>4. [model |-> task[t], reqs |-> batch[t]] \in Batch
  BY <1>3 DEF IInv, TypeOK, BatcherTypeOK, Batch
<1>5. LockTypeOK'
  BY <1>3 DEF IInv, TypeOK, LockTypeOK, SendToBackend
<1>6. WireTypeOK'
  <2>1. dataIn[ProxyOf[t]] \in Seq(Batch)
    BY <1>3 DEF IInv, TypeOK, WireTypeOK
  <2>2. Append(dataIn[ProxyOf[t]], [model |-> task[t], reqs |-> batch[t]]) \in Seq(Batch)
    BY <2>1, <1>4, AppendProperties
  <2> QED
    BY <2>2 DEF IInv, TypeOK, WireTypeOK, SendToBackend
<1>7. OneBatching'
  <2> SUFFICES ASSUME NEW p \in Proxies, NEW m \in Models
               PROVE  Forming(p, m)' = Forming(p, m)
    BY <1>1 DEF IInv, OneBatching, AtMostOne
  <2> QED
    BY <1>3, BatcherStays
<1>8. OneExecution'
  <2> SUFFICES ASSUME NEW p \in Proxies, NEW m \in Models
               PROVE  /\ Sending(p, m)' = Sending(p, m)
                      /\ Announced(p, m)' = Announced(p, m)
                      /\ Awaiting(p, m)' = Awaiting(p, m)
    BY <1>1 DEF IInv, OneExecution, AtMostOne
  <2>1. Announced(p, m)' = Announced(p, m) /\ Awaiting(p, m)' = Awaiting(p, m)
    BY <1>1 DEF Announced, Awaiting, outVars
  <2>2. Sending(p, m)' = Sending(p, m)
    BY <1>3, BatcherStays
  <2> QED
    BY <2>1, <2>2
<1> QED
  BY Frame, <1>1, <1>2, <1>4, <1>5, <1>6, <1>7, <1>8 DEF IInv, TypeOK

\* The execution passes from the output queue to the output thread.
LEMMA TakeOutputStep ==
    ASSUME IInv, NEW o \in Outputs, TakeOutput(o)
    PROVE  IInv'
<1>1. /\ UNCHANGED <<appVars, reqQueue, routeVars, schedVars, countVars,
                     batchVars, wireVars>>
      /\ UNCHANGED <<bpc, task, isTaskBatching, isTaskExec>>
  BY DEF TakeOutput, OutputRest, appVars, countVars, batchVars, lockVars,
         wireVars
<1>2. OutputTypeOK'
  <2>1. outputQueue[ProxyOf[o]] \in Seq(Batch) /\ outputQueue[ProxyOf[o]] # <<>>
    BY ConstantsAssumption DEF IInv, TypeOK, TakeOutput
  <2>2. Head(outputQueue[ProxyOf[o]]) \in Batch
    BY <2>1, HeadTailProperties
  <2> QED
    BY <2>2 DEF IInv, TypeOK, OutputTypeOK, OutputPC, TakeOutput, OGoTo
<1>3. /\ ProxyOf[o] \in Proxies
      /\ opc[o] = "idle" /\ opc'[o] = "recv" /\ obatch'[o] = Head(outputQueue[ProxyOf[o]])
      /\ \A u \in Outputs \ {o} : opc'[u] = opc[u] /\ obatch'[u] = obatch[u]
  BY ConstantsAssumption DEF IInv, TypeOK, OutputTypeOK, TakeOutput, OGoTo
<1>4. LockTypeOK'
  BY <1>3 DEF IInv, TypeOK, LockTypeOK, TakeOutput, OutputRest
<1>5. outputQueue[ProxyOf[o]] \in Seq(Batch) /\ outputQueue[ProxyOf[o]] # <<>>
  BY <1>3 DEF IInv, TypeOK, TakeOutput
<1>6. outputQueue' = [outputQueue EXCEPT ![ProxyOf[o]] = Tail(@)]
  BY DEF TakeOutput
<1>7. (outputQueue \in [Proxies -> Seq(Batch)])'
  <2>1. Tail(outputQueue[ProxyOf[o]]) \in Seq(Batch)
    BY <1>5, HeadTailProperties
  <2> QED
    BY <1>6, <2>1 DEF IInv, TypeOK
<1>8. OneExecution'
  <2> SUFFICES ASSUME NEW p \in Proxies, NEW m \in Models
               PROVE  (/\ AtMostOne(Sending(p, m))
                       /\ AtMostOne(Announced(p, m))
                       /\ AtMostOne(Awaiting(p, m))
                       /\ Sending(p, m) # {} => /\ Announced(p, m) = {}
                                                /\ Awaiting(p, m) = {}
                       /\ Announced(p, m) # {} => Awaiting(p, m) = {}
                       /\ (Sending(p, m) \cup Announced(p, m) \cup Awaiting(p, m) # {})
                              <=> isTaskExec[p][m] = 1)'
    BY DEF OneExecution
  <2> DEFINE q == ProxyOf[o]
             h == obatch'[o].model
  <2>1. isTaskExec' = isTaskExec /\ Sending(p, m)' = Sending(p, m)
    BY <1>1 DEF Sending
  <2>2. Announced(p, m)' =
            IF p = q THEN {i \in 1 .. Len(outputQueue[q]) - 1 :
                               i + 1 \in Announced(p, m)}
            ELSE Announced(p, m)
    BY <1>3, <1>5, <1>6, AnnouncedPop
  <2>3. /\ DOMAIN outputQueue[q] = 1 .. Len(outputQueue[q])
        /\ Len(outputQueue[q]) \in Nat \ {0}
        /\ h = outputQueue[q][1].model
    BY <1>3, <1>5
  <2>4. o \notin Awaiting(p, m)
    BY <1>3, OutputMoves
  <2>5. Awaiting(p, m)' = IF p = q /\ h = m THEN Awaiting(p, m) \cup {o}
                          ELSE Awaiting(p, m)
    BY <1>3, <2>4, OutputMoves
  <2>6. Announced(p, m) \subseteq DOMAIN outputQueue[p]
    BY DEF Announced
  <2>7. p = q => (1 \in Announced(p, m) <=> h = m)
    BY <2>3 DEF Announced
  <2> HIDE DEF q, h
  <2>8. CASE p = q /\ h = m
    <3>1. Announced(p, m) = {1}
      BY <2>7, <2>8 DEF IInv, OneExecution, AtMostOne
    <3>2. Sending(p, m) = {} /\ Awaiting(p, m) = {} /\ isTaskExec[p][m] = 1
      BY <3>1 DEF IInv, OneExecution
    <3>3. Announced(p, m)' = {}
      BY <2>2, <2>3, <2>8, <3>1
    <3>4. Awaiting(p, m)' = {o}
      BY <2>5, <2>8, <3>2
    <3> QED
      BY <2>1, <3>2, <3>3, <3>4 DEF AtMostOne
  <2>9. CASE p = q /\ h # m
    <3>1. Awaiting(p, m)' = Awaiting(p, m)
      BY <2>5, <2>9
    <3>2. 1 \notin Announced(p, m)
      BY <2>7, <2>9
    <3>3. \A i \in Announced(p, m) : i \in 2 .. Len(outputQueue[q])
      BY <2>3, <2>6, <2>9, <3>2
    <3>4. \A i \in Announced(p, m) : i - 1 \in Announced(p, m)'
      BY <2>2, <2>3, <2>9, <3>3
    <3>5. \A i \in Announced(p, m)' : i \in Nat /\ i + 1 \in Announced(p, m)
      BY <2>2, <2>3, <2>9
    <3>6. AtMostOne(Announced(p, m))'
      BY <3>5 DEF IInv, OneExecution, AtMostOne
    <3>7. Announced(p, m)' = {} <=> Announced(p, m) = {}
      BY <3>4, <3>5
    <3> QED
      BY <2>1, <3>1, <3>6, <3>7 DEF IInv, OneExecution, AtMostOne
  <2>10. CASE p # q
    <3>1. Announced(p, m)' = Announced(p, m) /\ Awaiting(p, m)' = Awaiting(p, m)
      BY <2>2, <2>5, <2>10
    <3> QED
      BY <2>1, <3>1 DEF IInv, OneExecution, AtMostOne
  <2> QED
    BY <2>8, <2>9, <2>10
<1> QED
  BY Frame, <1>1, <1>2, <1>4, <1>5, <1>6, <1>7, <1>8 DEF IInv, TypeOK

\* The result is received; the execution is not over yet.
LEMMA RecvResultStep ==
    ASSUME IInv, NEW o \in Outputs, RecvResult(o)
    PROVE  IInv'
<1>1. /\ UNCHANGED <<appVars, reqQueue, routeVars, schedVars, countVars,
                     batchVars, outputQueue>>
      /\ UNCHANGED <<bpc, task, isTaskBatching, isTaskExec, outputQueue>>
  BY DEF RecvResult, OutputRest, appVars, countVars, batchVars, lockVars,
         wireVars
<1>2. OutputTypeOK'
  BY DEF IInv, TypeOK, OutputTypeOK, OutputPC, RecvResult, OGoTo
<1>3. /\ ProxyOf[o] \in Proxies
      /\ opc[o] = "recv" /\ opc'[o] = "endexec" /\ obatch'[o] = obatch[o]
      /\ \A u \in Outputs \ {o} : opc'[u] = opc[u] /\ obatch'[u] = obatch[u]
  BY ConstantsAssumption DEF IInv, TypeOK, OutputTypeOK, RecvResult, OGoTo
<1>4. LockTypeOK'
  BY <1>3 DEF IInv, TypeOK, LockTypeOK, RecvResult, OutputRest
<1>5. WireTypeOK'
  <2>1. dataOut[ProxyOf[o]] \in Seq(Batch) /\ dataOut[ProxyOf[o]] # <<>>
    BY <1>3 DEF IInv, TypeOK, WireTypeOK, RecvResult
  <2>2. Tail(dataOut[ProxyOf[o]]) \in Seq(Batch)
    BY <2>1, HeadTailProperties
  <2> QED
    BY <2>2 DEF IInv, TypeOK, WireTypeOK, RecvResult
<1>6. OneExecution'
  <2> SUFFICES ASSUME NEW p \in Proxies, NEW m \in Models
               PROVE  /\ Sending(p, m)' = Sending(p, m)
                      /\ Announced(p, m)' = Announced(p, m)
                      /\ Awaiting(p, m)' = Awaiting(p, m)
    BY <1>1 DEF IInv, OneExecution, AtMostOne
  <2>1. Sending(p, m)' = Sending(p, m) /\ Announced(p, m)' = Announced(p, m)
    BY <1>1 DEF Sending, Announced
  <2>2. Awaiting(p, m)' = Awaiting(p, m)
    BY <1>3, OutputStays
  <2> QED
    BY <2>1, <2>2
<1> QED
  BY Frame, <1>1, <1>2, <1>4, <1>5, <1>6 DEF IInv, TypeOK

\* The thread owns the only executing batch of the model.
LEMMA EndExecStep ==
    ASSUME IInv, NEW o \in Outputs, EndExec(o)
    PROVE  IInv'
<1>1. /\ UNCHANGED <<appVars, reqQueue, routeVars, schedVars, batchVars,
                     lockVars, outputQueue, wireVars>>
      /\ UNCHANGED <<bpc, task, isTaskBatching, outputQueue>>
  BY DEF EndExec, OutputRest, appVars, countVars, batchVars, lockVars,
         wireVars
<1>2. OutputTypeOK'
  BY DEF IInv, TypeOK, OutputTypeOK, OutputPC, EndExec, OGoTo
<1>3. /\ ProxyOf[o] \in Proxies
      /\ opc[o] = "endexec" /\ opc'[o] = "allocate" /\ obatch'[o] = obatch[o]
      /\ obatch[o] \in Batch
      /\ \A u \in Outputs \ {o} : opc'[u] = opc[u] /\ obatch'[u] = obatch[u]
  BY ConstantsAssumption DEF IInv, TypeOK, OutputTypeOK, EndExec, OGoTo
<1>4. obatch[o].model \in Models
  BY <1>3 DEF Batch
<1>5. /\ o \in Awaiting(ProxyOf[o], obatch[o].model)
      /\ isTaskExec[ProxyOf[o]][obatch[o].model] = 1
      /\ isTaskExec' = [isTaskExec EXCEPT
              ![ProxyOf[o]] = [@ EXCEPT ![obatch[o].model] = 0]]
  <2>1. o \in Awaiting(ProxyOf[o], obatch[o].model)
    BY <1>3, <1>4 DEF Awaiting
  <2>2. isTaskExec[ProxyOf[o]][obatch[o].model] = 1
    BY <1>3, <1>4, <2>1 DEF IInv, OneExecution
  <2> QED
    BY <1>3, <1>4, <2>1, <2>2 DEF IInv, TypeOK, CountTypeOK, EndExec
<1>6. CountTypeOK'
  BY <1>1, <1>3, <1>4, <1>5 DEF IInv, TypeOK, CountTypeOK, EndExec, OutputRest
<1>7. OneExecution'
  <2> SUFFICES ASSUME NEW p \in Proxies, NEW m \in Models
               PROVE  (/\ AtMostOne(Sending(p, m))
                       /\ AtMostOne(Announced(p, m))
                       /\ AtMostOne(Awaiting(p, m))
                       /\ Sending(p, m) # {} => /\ Announced(p, m) = {}
                                                /\ Awaiting(p, m) = {}
                       /\ Announced(p, m) # {} => Awaiting(p, m) = {}
                       /\ (Sending(p, m) \cup Announced(p, m) \cup Awaiting(p, m) # {})
                              <=> isTaskExec[p][m] = 1)'
    BY DEF OneExecution
  <2>1. isTaskExec'[p][m] = IF p = ProxyOf[o] /\ m = obatch[o].model THEN 0
                            ELSE isTaskExec[p][m]
    BY <1>3, <1>4, <1>5 DEF IInv, TypeOK, CountTypeOK
  <2>2. Sending(p, m)' = Sending(p, m) /\ Announced(p, m)' = Announced(p, m)
    BY <1>1 DEF Sending, Announced
  <2>3. Awaiting(p, m)' = Awaiting(p, m) \ {o}
    BY <1>3, OutputMoves
  <2>4. o \in Awaiting(p, m) <=> p = ProxyOf[o] /\ m = obatch[o].model
    BY <1>3, OutputMoves
  <2>5. CASE p = ProxyOf[o] /\ m = obatch[o].model
    <3>1. Sending(p, m) = {} /\ Announced(p, m) = {}
      BY <2>4, <2>5 DEF IInv, OneExecution
    <3>2. Awaiting(p, m)' = {}
      BY <2>3, <2>4, <2>5 DEF IInv, OneExecution, AtMostOne
    <3> QED
      BY <2>1, <2>2, <2>5, <3>1, <3>2 DEF AtMostOne
  <2>6. CASE ~(p = ProxyOf[o] /\ m = obatch[o].model)
    <3>1. Awaiting(p, m)' = Awaiting(p, m) /\ isTaskExec'[p][m] = isTaskExec[p][m]
      BY <2>1, <2>3, <2>4, <2>6
    <3> QED
      BY <2>2, <3>1 DEF IInv, OneExecution, AtMostOne
  <2> QED
    BY <2>5, <2>6
<1> QED
  BY Frame, <1>1, <1>2, <1>4, <1>5, <1>6, <1>7 DEF IInv, TypeOK

\* Results are allocated.
LEMMA AllocateOutputStep ==
    ASSUME IInv, NEW o \in Outputs, AllocateOutput(o)
    PROVE  IInv'
<1>1. /\ UNCHANGED <<reqQueue, routeVars, schedVars, countVars, batchVars,
                     lockVars, outputQueue, wireVars>>
      /\ UNCHANGED <<bpc, task, isTaskBatching, isTaskExec, outputQueue>>
  BY DEF AllocateOutput, OutputRest, appVars, countVars, batchVars,
         lockVars, wireVars
<1>2. OutputTypeOK'
  BY DEF IInv, TypeOK, OutputTypeOK, OutputPC, AllocateOutput, OGoTo
<1>3. /\ ProxyOf[o] \in Proxies
      /\ opc[o] = "allocate" /\ opc'[o] = "deliver" /\ obatch'[o] = obatch[o]
      /\ \A u \in Outputs \ {o} : opc'[u] = opc[u] /\ obatch'[u] = obatch[u]
  BY ConstantsAssumption DEF IInv, TypeOK, OutputTypeOK, AllocateOutput,
         OGoTo
<1>4. AppTypeOK'
  <2>1. scoreBoard' \in [Tasks -> SUBSET Nodes]
    BY DEF IInv, TypeOK, AppTypeOK, AllocateOutput
  <2> QED
    BY <2>1 DEF IInv, TypeOK, AppTypeOK, AllocateOutput
<1>5. OneExecution'
  <2> SUFFICES ASSUME NEW p \in Proxies, NEW m \in Models
               PROVE  /\ Sending(p, m)' = Sending(p, m)
                      /\ Announced(p, m)' = Announced(p, m)
                      /\ Awaiting(p, m)' = Awaiting(p, m)
    BY <1>1 DEF IInv, OneExecution, AtMostOne
  <2>1. Sending(p, m)' = Sending(p, m) /\ Announced(p, m)' = Announced(p, m)
    BY <1>1 DEF Sending, Announced
  <2>2. Awaiting(p, m)' = Awaiting(p, m)
    BY <1>3, OutputStays
  <2> QED
    BY <2>1, <2>2
<1> QED
  BY Frame, <1>1, <1>2, <1>4, <1>5 DEF IInv, TypeOK

\* Results are delivered one by one.
LEMMA sendBatchedResultsStep ==
    ASSUME IInv, NEW o \in Outputs, sendBatchedResults(o)
    PROVE  IInv'
<1>1. /\ UNCHANGED <<routeVars, schedVars, countVars, batchVars, lockVars,
                     outputQueue, wireVars>>
      /\ UNCHANGED <<bpc, task, isTaskBatching, isTaskExec, outputQueue>>
  BY DEF sendBatchedResults, OutputRest, appVars, countVars, batchVars,
         lockVars, wireVars
<1>2. OutputTypeOK'
  <2>1. obatch[o] \in Batch /\ obatch[o].reqs \in Seq(Req) /\ obatch[o].reqs # <<>>
    BY DEF IInv, TypeOK, OutputTypeOK, sendBatchedResults, Batch
  <2>2. Tail(obatch[o].reqs) \in Seq(Req)
    BY <2>1, HeadTailProperties
  <2>3. [obatch[o] EXCEPT !.reqs = Tail(@)] \in Batch
    BY <2>1, <2>2 DEF Batch
  <2>4. /\ opc' = opc
        /\ obatch' = [obatch EXCEPT ![o] = [obatch[o] EXCEPT !.reqs = Tail(@)]]
    BY DEF sendBatchedResults, IInv, TypeOK, OutputTypeOK
  <2> QED
    BY <2>3, <2>4 DEF IInv, TypeOK, OutputTypeOK
<1>3. /\ ProxyOf[o] \in Proxies
      /\ opc[o] = "deliver" /\ opc'[o] = opc[o]
      /\ \A u \in Outputs \ {o} : opc'[u] = opc[u] /\ obatch'[u] = obatch[u]
  BY ConstantsAssumption DEF IInv, TypeOK, OutputTypeOK,
         sendBatchedResults
<1>4. PICK k \in Tasks, n \in Nodes :
         IF isFinished(k)
         THEN /\ reported' = [reported EXCEPT ![k] = TRUE]
              /\ addtoAppQueue(k, FALSE)
              /\ UNCHANGED reqQueue
         ELSE /\ addtoModelQueue(k, Succ[n])
              /\ UNCHANGED <<reported, dropped, appQueue>>
  <2>1. obatch[o].reqs \in Seq(Req) /\ obatch[o].reqs # <<>>
    BY DEF IInv, TypeOK, OutputTypeOK, sendBatchedResults, Batch
  <2>2. Head(obatch[o].reqs) \in Req
    BY <2>1, HeadTailProperties
  <2>3. Head(obatch[o].reqs)[1] \in Tasks /\ Head(obatch[o].reqs)[2] \in Nodes
    BY <2>2 DEF Req
  <2> QED
    BY <2>3 DEF sendBatchedResults
<1>5. AppTypeOK'
  <2>1. UNCHANGED <<received, scoreBoard, replies, reqDropped, dropScan, dpc, dnet>>
    BY DEF sendBatchedResults
  <2>2. CASE isFinished(k)
    <3>1. /\ reported' = [reported EXCEPT ![k] = TRUE]
          /\ dropped' = [dropped EXCEPT ![k] = FALSE]
          /\ appQueue' = Append(appQueue, k)
      BY <1>4, <2>2 DEF addtoAppQueue
    <3>2. appQueue' \in Seq(Tasks)
      BY <3>1, AppendProperties DEF IInv, TypeOK, AppTypeOK
    <3>3. reported' \in [Tasks -> BOOLEAN]
      BY <3>1 DEF IInv, TypeOK, AppTypeOK
    <3>4. dropped' \in [Tasks -> BOOLEAN]
      BY <3>1 DEF IInv, TypeOK, AppTypeOK
    <3> QED
      BY <2>1, <3>2, <3>3, <3>4 DEF IInv, TypeOK, AppTypeOK
  <2>3. CASE ~isFinished(k)
    BY <1>4, <2>1, <2>3 DEF IInv, TypeOK, AppTypeOK
  <2> QED
    BY <2>2, <2>3
<1>6. (reqQueue \in [Models -> Seq(Req)])'
  <2>1. CASE isFinished(k)
    BY <1>4, <2>1 DEF IInv, TypeOK
  <2>2. CASE ~isFinished(k)
    <3>1. addtoModelQueue(k, Succ[n]) /\ Succ[n] \in SUBSET Nodes
      BY <1>4, <2>2, ConstantsAssumption
    <3> QED
      BY <3>1, ModelQueueType
  <2> QED
    BY <2>1, <2>2
<1>7. OneExecution'
  <2> SUFFICES ASSUME NEW p \in Proxies, NEW m \in Models
               PROVE  /\ Sending(p, m)' = Sending(p, m)
                      /\ Announced(p, m)' = Announced(p, m)
                      /\ Awaiting(p, m)' = Awaiting(p, m)
    BY <1>1 DEF IInv, OneExecution, AtMostOne
  <2>1. Sending(p, m)' = Sending(p, m) /\ Announced(p, m)' = Announced(p, m)
    BY <1>1 DEF Sending, Announced
  <2>2. Awaiting(p, m)' = Awaiting(p, m)
    BY <1>3, OutputStays
  <2> QED
    BY <2>1, <2>2
<1> QED
  BY Frame, <1>1, <1>2, <1>4, <1>5, <1>6, <1>7 DEF IInv, TypeOK

\* The batch is given back.
LEMMA DeliverEndStep ==
    ASSUME IInv, NEW o \in Outputs, DeliverEnd(o)
    PROVE  IInv'
<1>1. /\ UNCHANGED <<appVars, reqQueue, routeVars, schedVars, countVars,
                     batchVars, lockVars, outputQueue, wireVars>>
      /\ UNCHANGED <<bpc, task, isTaskBatching, isTaskExec, outputQueue>>
  BY DEF DeliverEnd, OutputRest, appVars, countVars, batchVars, lockVars,
         wireVars
<1>2. OutputTypeOK'
  BY DEF IInv, TypeOK, OutputTypeOK, OutputPC, DeliverEnd, OGoTo
<1>3. /\ ProxyOf[o] \in Proxies
      /\ opc[o] = "deliver" /\ opc'[o] = "idle"
      /\ \A u \in Outputs \ {o} : opc'[u] = opc[u] /\ obatch'[u] = obatch[u]
  BY ConstantsAssumption DEF IInv, TypeOK, OutputTypeOK, DeliverEnd, OGoTo
<1>4. OneExecution'
  <2> SUFFICES ASSUME NEW p \in Proxies, NEW m \in Models
               PROVE  /\ Sending(p, m)' = Sending(p, m)
                      /\ Announced(p, m)' = Announced(p, m)
                      /\ Awaiting(p, m)' = Awaiting(p, m)
    BY <1>1 DEF IInv, OneExecution, AtMostOne
  <2>1. Sending(p, m)' = Sending(p, m) /\ Announced(p, m)' = Announced(p, m)
    BY <1>1 DEF Sending, Announced
  <2>2. Awaiting(p, m)' = Awaiting(p, m)
    BY <1>3, OutputStays
  <2> QED
    BY <2>1, <2>2
<1> QED
  BY Frame, <1>1, <1>2, <1>4 DEF IInv, TypeOK

-----------------------------------------------------------------------------
\* Every step, the stuttering step included, preserves the invariant.
LEMMA NextIInv ==
    ASSUME IInv, [Next]_vars
    PROVE  IInv'
<1>1. CASE \E k \in Tasks, n \in Nodes : handleRequest(k, n)
  BY <1>1, handleRequestStep
<1>2. CASE initApp
  BY <1>2, initAppStep
<1>3. CASE Dropper
  BY <1>3, DropCopyStep, DropLockStep, DropExpiredStep, DropScanEndStep
     DEF Dropper
<1>4. CASE Scheduler
  BY <1>4, staticMPSSchedulerStep, doMPSSchedulingStep, applyRoutingFlushStep,
     applyRoutingInstallStep DEF Scheduler
<1>5. CASE Loader
  BY <1>5, loadModel_syncStep DEF Loader
<1>6. CASE \E p \in Proxies : Unloader(p)
  BY <1>6, UnloadNextStep, UnloadCheckSizeStep, UnloadCheckBatchingStep,
     UnloadCheckExecStep, UnloadEndStep DEF Unloader
<1>7. CASE \E t \in Batchers : Batcher(t)
  BY <1>7, TakeTaskStep, StartBatchingStep, AddRequestStep, CloseBatchStep,
     StartExecStep, EndBatchingStep, LockSendStep, PushOutputStep,
     SendToBackendStep DEF Batcher
<1>8. CASE \E p \in Proxies : \/ recvBatchedTensor(p) \/ enqueueForwarded(p)
                              \/ proxyCompute(p) \/ dequeueAwaited(p)
                              \/ receiveandsendOutput(p)
  BY <1>8, recvBatchedTensorStep, enqueueForwardedStep, proxyComputeStep,
     dequeueAwaitedStep, receiveandsendOutputStep
<1>9. CASE \E o \in Outputs : Output(o)
  BY <1>9, TakeOutputStep, RecvResultStep, EndExecStep, AllocateOutputStep,
     sendBatchedResultsStep, DeliverEndStep DEF Output
<1>10. CASE UNCHANGED vars
  BY <1>10, Frame DEF vars, IInv, TypeOK, batchVars, countVars, outVars,
     appVars, routeVars, schedVars, lockVars, wireVars
<1> QED
  BY <1>1, <1>2, <1>3, <1>4, <1>5, <1>6, <1>7, <1>8, <1>9, <1>10 DEF Next

\* The invariant holds in every reachable state, for any number of proxies,
\* models, threads and tasks.
THEOREM Invariance == Spec => []IInv
  BY InitIInv, NextIInv, PTL DEF Spec

\* Every variable keeps its type; in particular the counters isTaskBatching
\* and isTaskExec of proxy_info, incremented and decremented by different
\* threads, never leave {0, 1}.
THEOREM TypeCorrect == Spec => []TypeOK
<1>1. IInv => TypeOK
  BY DEF IInv
<1> QED
  BY <1>1, Invariance, PTL

\* PerTaskBatchMtx and isTaskBatching let at most one initProxy thread of a
\* proxy form a batch of a model.
THEOREM BatchingExclusive == Spec => []OneBatching
<1>1. IInv => OneBatching
  BY DEF IInv
<1> QED
  BY <1>1, Invariance, PTL

\* Between isTaskExec++ in initProxy and isTaskExec-- in initOutput there is
\* at most one batch of a model on a proxy, and the counter says whether
\* there is one.
THEOREM ExecutionExclusive == Spec => []OneExecution
<1>1. IInv => OneExecution
  BY DEF IInv
<1> QED
  BY <1>1, Invariance, PTL


-----------------------------------------------------------------------------
(***************************************************************************)
(* Proofs about the order of the batches in BatchPipeline.  A batch and    *)
(* its result are matched by their position in two unrelated streams only: *)
(* the queue of announced batches (PerProxyOutputQueue, and the backend's  *)
(* own queue) on one side, the data channel and the sockets on the other.  *)
(* The two streams of a proxy always hold the same batches in the same     *)
(* order, for every number of proxies, models and threads.                 *)
(***************************************************************************)

\* A thread that announces or sends a batch holds sendMtx of its proxy.
SendHeld ==
    \A t \in Batchers :
        bpc[t] \in {"pushing", "sending"} => sendMtx[ProxyOf[t]] = t

\* A thread that awaits a result holds PerProxyOutputMtx of its proxy.
RecvHeld ==
    \A o \in Outputs : opc[o] = "recv" => outputMtx[ProxyOf[o]] = o

\* The inductive invariant, next to IInv: the two mutexes make Unsent and
\* Awaited sequences of at most one batch, at the seam of the two streams.
Streams ==
    /\ SendHeld
    /\ RecvHeld
    /\ ResultsMatch
    /\ BackendMatch

-----------------------------------------------------------------------------
\* A sequence is its head followed by its tail.
LEMMA HeadThenTail ==
    ASSUME NEW S, NEW s \in Seq(S), s # <<>>
    PROVE  s = <<Head(s)>> \o Tail(s)
<1>1. /\ Head(s) \in S /\ Tail(s) \in Seq(S) /\ Len(Tail(s)) = Len(s) - 1
      /\ \A i \in 1 .. Len(Tail(s)) : Tail(s)[i] = s[i + 1]
      /\ Head(s) = s[1]
  BY HeadTailProperties
<1>2. <<Head(s)>> \in Seq(S) /\ Len(<<Head(s)>>) = 1 /\ <<Head(s)>>[1] = Head(s)
  BY <1>1
<1>3. Len(s) \in Nat \ {0}
  BY EmptySeq
<1> DEFINE h == <<Head(s)>>
           u == Tail(s)
<1> HIDE DEF h, u
<1>4. /\ h \o u \in Seq(S)
      /\ Len(h \o u) = 1 + Len(u)
      /\ \A i \in 1 .. 1 + Len(u) : (h \o u)[i] = IF i <= 1 THEN h[i] ELSE u[i - 1]
  BY <1>1, <1>2, ConcatProperties DEF h, u
<1>5. \A i \in 1 .. Len(s) : (h \o u)[i] = s[i]
  BY <1>1, <1>2, <1>3, <1>4 DEF h, u
<1>6. Len(h \o u) = Len(s)
  BY <1>1, <1>3, <1>4 DEF h, u
<1>7. s = h \o u
  BY <1>4, <1>5, <1>6, SeqEqual
<1> QED
  BY <1>7 DEF h, u

\* A batch that hops from the front of one stage of a stream to the back of
\* the next leaves the stream as it is.
LEMMA Hop ==
    ASSUME NEW S, NEW s \in Seq(S), NEW t \in Seq(S), s # <<>>
    PROVE  /\ Append(t, Head(s)) \in Seq(S)
           /\ Tail(s) \in Seq(S)
           /\ Append(t, Head(s)) \o Tail(s) = t \o s
<1>1. Head(s) \in S /\ Tail(s) \in Seq(S)
  BY HeadTailProperties
<1>2. Append(t, Head(s)) = t \o <<Head(s)>> /\ Append(t, Head(s)) \in Seq(S)
  BY <1>1, AppendIsConcat, AppendProperties
<1>3. <<Head(s)>> \in Seq(S)
  BY <1>1
<1>4. (t \o <<Head(s)>>) \o Tail(s) = t \o (<<Head(s)>> \o Tail(s))
  BY <1>1, <1>3, ConcatAssociative
<1> QED
  BY <1>1, <1>2, <1>4, HeadThenTail

\* A batch appended to the last stage is appended to the stream.
LEMMA ConcatAppend ==
    ASSUME NEW S, NEW s \in Seq(S), NEW t \in Seq(S), NEW b \in S
    PROVE  s \o Append(t, b) = (s \o t) \o <<b>>
<1>1. Append(t, b) = t \o <<b>>
  BY AppendIsConcat
<1>2. <<b>> \in Seq(S)
  OBVIOUS
<1> QED
  BY <1>1, <1>2, ConcatAssociative

\* The same facts for sequences of batches, in the form the steps of the
\* queues use: stages in a row, ...
LEMMA BatchAssoc == \A r, s, t \in Seq(Batch) : (r \o s) \o t = r \o (s \o t)
  BY ConcatAssociative

\* ... two stages as one, ...
LEMMA BatchConcat == \A r, s \in Seq(Batch) : r \o s \in Seq(Batch)
  BY ConcatProperties

\* ... an empty stage, ...
LEMMA BatchEmpty == \A r \in Seq(Batch) : r \o <<>> = r /\ <<>> \o r = r
  BY ConcatEmptySeq

\* ... the front batch of a stage (pop_front) moved on to the stage before
\* it, ...
LEMMA BatchHop ==
    \A r, s \in Seq(Batch) : s # <<>> =>
           /\ Append(r, Head(s)) \in Seq(Batch)
           /\ Tail(s) \in Seq(Batch)
           /\ Append(r, Head(s)) \o Tail(s) = r \o s
<1> TAKE r, s \in Seq(Batch)
<1> HAVE s # <<>>
<1> QED
  BY Hop, Zenon

\* ... and a batch that enters the last stage (push_back).
LEMMA BatchAppend ==
    \A r, s \in Seq(Batch), b \in Batch : r \o Append(s, b) = (r \o s) \o <<b>>
  BY ConcatAppend

\* The batch b and then q is the same stream as d and then r.
SameStream(b, q, d, r) == <<b>> \o q = d \o r

\* Two equal streams start with the same batch, and stay equal without it.
LEMMA BatchFront ==
    ASSUME NEW b \in Batch, NEW q \in Seq(Batch), NEW d \in Seq(Batch),
           NEW r \in Seq(Batch), d # <<>>, SameStream(b, q, d, r)
    PROVE  b = Head(d) /\ q = Tail(d) \o r
<1>0. <<b>> \o q = d \o r
  BY DEF SameStream
<1>1. Head(d) \in Batch /\ Tail(d) \in Seq(Batch) /\ d = <<Head(d)>> \o Tail(d)
  BY HeadTailProperties, HeadThenTail
<1>2. <<b>> \in Seq(Batch) /\ <<Head(d)>> \in Seq(Batch)
  BY <1>1
<1>3. d \o r = <<Head(d)>> \o (Tail(d) \o r)
  BY <1>1, <1>2, ConcatAssociative
<1>4. Tail(d) \o r \in Seq(Batch)
  BY <1>1, ConcatProperties
<1> DEFINE e == <<b>>
           h == <<Head(d)>>
           u == Tail(d) \o r
<1>5. /\ e \in Seq(Batch) /\ Len(e) = 1 /\ e[1] = b
      /\ h \in Seq(Batch) /\ Len(h) = 1 /\ h[1] = Head(d)
      /\ u \in Seq(Batch)
      /\ e \o q = h \o u
  BY <1>0, <1>2, <1>3, <1>4
<1> HIDE DEF e, h, u
<1>6. (e \o q)[1] = e[1] /\ (h \o u)[1] = h[1]
  <2>1. Len(q) \in Nat /\ Len(u) \in Nat
    BY <1>5
  <2>2. \A i \in 1 .. Len(e) + Len(q) : (e \o q)[i] =
              IF i <= Len(e) THEN e[i] ELSE q[i - Len(e)]
    BY <1>5, ConcatProperties
  <2>3. \A i \in 1 .. Len(h) + Len(u) : (h \o u)[i] =
              IF i <= Len(h) THEN h[i] ELSE u[i - Len(h)]
    BY <1>5, ConcatProperties
  <2>4. Len(e) = 1 /\ Len(h) = 1
    BY <1>5
  <2>5. 1 \in 1 .. Len(e) + Len(q) /\ 1 <= Len(e)
    BY <2>1, <2>4
  <2>6. 1 \in 1 .. Len(h) + Len(u) /\ 1 <= Len(h)
    BY <2>1, <2>4
  <2> QED
    BY <2>2, <2>3, <2>5, <2>6
<1>7. b = Head(d)
  BY <1>5, <1>6
<1>8. e = h
  BY <1>7 DEF e, h
<1>9. q = u
  BY <1>5, <1>8, ConcatSimplifications
<1> QED
  BY <1>7, <1>9 DEF u

\* What ResultsMatch and BackendMatch say of one proxy.
Flow(a, q, d, o, i, n, u) == a \o q = d \o o \o i \o n \o u
BackendFlow(a, q, f, o, i) == a \o q \o f = o \o i

\* The awaited batch is the first one of the stream; both are removed.
LEMMA FlowFront ==
    ASSUME NEW b \in Batch, NEW q \in Seq(Batch), NEW d \in Seq(Batch),
           NEW o \in Seq(Batch), NEW i \in Seq(Batch), NEW n \in Seq(Batch),
           NEW u \in Seq(Batch),
           d # <<>>, Flow(<<b>>, q, d, o, i, n, u)
    PROVE  b = Head(d) /\ Flow(<<>>, q, Tail(d), o, i, n, u)
<1> DEFINE nu == n \o u
           inu == i \o nu
           r == o \o inu
<1>1. ASSUME NEW e \in Seq(Batch)
      PROVE  (((e \o o) \o i) \o n) \o u = e \o r /\ r \in Seq(Batch)
  <2>1. nu \in Seq(Batch)
    BY BatchConcat, Zenon
  <2>2. e \o o \in Seq(Batch)
    BY BatchConcat, Zenon
  <2> DEFINE eo == e \o o
  <2> HIDE DEF nu, eo
  <2>3. inu \in Seq(Batch)
    BY <2>1, BatchConcat, Zenon
  <2>4. eo \o i \in Seq(Batch)
    BY <2>2, BatchConcat, Zenon DEF eo
  <2>5. ((eo \o i) \o n) \o u = (eo \o i) \o nu
    <3> DEFINE eoi == eo \o i
    <3>1. eoi \in Seq(Batch)
      BY <2>4
    <3> HIDE DEF eoi
    <3>2. (eoi \o n) \o u = eoi \o (n \o u)
      BY <3>1, BatchAssoc, ZenonT(60)
    <3> QED
      BY <3>2 DEF eoi, nu
  <2>6. (eo \o i) \o nu = eo \o inu
    BY <2>1, <2>2, BatchAssoc, ZenonT(60) DEF eo
  <2> HIDE DEF inu
  <2>7. (e \o o) \o inu = e \o r /\ r \in Seq(Batch)
    <3>1. r \in Seq(Batch)
      BY <2>3, BatchConcat, Zenon
    <3>2. (e \o o) \o inu = e \o (o \o inu)
      BY <2>3, BatchAssoc, ZenonT(60)
    <3> QED
      BY <3>1, <3>2
  <2> QED
    BY <2>5, <2>6, <2>7 DEF eo
<1>2. r \in Seq(Batch) /\ SameStream(b, q, d, r)
  BY <1>1 DEF Flow, SameStream
<1> HIDE DEF r
<1>3. b = Head(d) /\ q = Tail(d) \o r
  BY <1>2, BatchFront
<1>4. Tail(d) \in Seq(Batch)
  BY HeadTailProperties
<1>5. <<>> \o q = q
  BY BatchEmpty, Zenon
<1> QED
  BY <1>1, <1>3, <1>4, <1>5, Zenon DEF Flow

\* The same at the backend, whose output thread has popped b.
LEMMA BackendFlowFront ==
    ASSUME NEW b \in Batch, NEW q \in Seq(Batch), NEW f \in Seq(Batch),
           NEW o \in Seq(Batch), NEW i \in Seq(Batch),
           o # <<>>, BackendFlow(<<b>>, q, f, o, i)
    PROVE  BackendFlow(<<>>, q, f, Tail(o), i)
<1> DEFINE e == <<b>>
           qf == q \o f
<1>1. e \in Seq(Batch) /\ qf \in Seq(Batch) /\ (e \o q) \o f = o \o i
  BY ConcatProperties, SMTT(40) DEF BackendFlow
<1>2. e \o qf = o \o i
  <2> HIDE DEF e
  <2>1. (e \o q) \o f = e \o (q \o f)
    BY <1>1, BatchAssoc, ZenonT(60)
  <2> QED
    BY <1>1, <2>1
<1>3. qf = Tail(o) \o i
  <2>1. qf \in Seq(Batch) /\ SameStream(b, qf, o, i)
    BY <1>1, <1>2 DEF SameStream
  <2> HIDE DEF qf
  <2> QED
    BY <2>1, BatchFront
<1>4. <<>> \o q = q
  BY BatchEmpty, Zenon
<1> QED
  BY <1>3, <1>4 DEF BackendFlow, qf

-----------------------------------------------------------------------------
\* Unsent is the batch of the one thread that is sending, before a step ...
LEMMA UnsentIs ==
    ASSUME SendHeld, NEW p \in Proxies
    PROVE  /\ \A t \in Batchers : ProxyOf[t] = p /\ bpc[t] = "sending"
                  => Unsent(p) = <<[model |-> task[t], reqs |-> batch[t]]>>
           /\ (\A t \in Batchers : ProxyOf[t] = p => bpc[t] # "sending")
                  => Unsent(p) = <<>>
<1> DEFINE S == {t \in Batchers : ProxyOf[t] = p /\ bpc[t] = "sending"}
<1>1. \A t, u \in S : t = u
  BY DEF SendHeld
<1>2. ASSUME NEW t \in S
      PROVE  Unsent(p) = <<[model |-> task[t], reqs |-> batch[t]]>>
  <2>1. (CHOOSE u \in S : TRUE) \in S
    BY <1>2
  <2>2. (CHOOSE u \in S : TRUE) = t
    BY <1>1, <2>1
  <2>3. S # {}
    BY <1>2
  <2> QED
    BY <2>2, <2>3 DEF Unsent
<1>3. S = {} => Unsent(p) = <<>>
  BY DEF Unsent
<1> QED
  BY <1>2, <1>3

\* ... and after it.
LEMMA UnsentNext ==
    ASSUME SendHeld', NEW p \in Proxies
    PROVE  /\ \A t \in Batchers : ProxyOf[t] = p /\ bpc'[t] = "sending"
                  => Unsent(p)' = <<[model |-> task'[t], reqs |-> batch'[t]]>>
           /\ (\A t \in Batchers : ProxyOf[t] = p => bpc'[t] # "sending")
                  => Unsent(p)' = <<>>
<1> DEFINE S == {t \in Batchers : ProxyOf[t] = p /\ bpc'[t] = "sending"}
<1>1. \A t, u \in S : t = u
  BY DEF SendHeld
<1>2. ASSUME NEW t \in S
      PROVE  Unsent(p)' = <<[model |-> task'[t], reqs |-> batch'[t]]>>
  <2>1. (CHOOSE u \in S : TRUE) \in S
    BY <1>2
  <2>2. (CHOOSE u \in S : TRUE) = t
    BY <1>1, <2>1
  <2>3. S # {}
    BY <1>2
  <2> QED
    BY <2>2, <2>3 DEF Unsent
<1>3. S = {} => Unsent(p)' = <<>>
  BY DEF Unsent
<1> QED
  BY <1>2, <1>3

\* Awaited is the batch of the one thread that awaits a result, before a
\* step ...
LEMMA AwaitedIs ==
    ASSUME RecvHeld, NEW p \in Proxies
    PROVE  /\ \A o \in Outputs : ProxyOf[o] = p /\ opc[o] = "recv"
                  => Awaited(p) = <<obatch[o]>>
           /\ (\A o \in Outputs : ProxyOf[o] = p => opc[o] # "recv")
                  => Awaited(p) = <<>>
<1> DEFINE S == {o \in Outputs : ProxyOf[o] = p /\ opc[o] = "recv"}
<1>1. \A o, u \in S : o = u
  BY DEF RecvHeld
<1>2. ASSUME NEW o \in S
      PROVE  Awaited(p) = <<obatch[o]>>
  <2>1. (CHOOSE u \in S : TRUE) \in S
    BY <1>2
  <2>2. (CHOOSE u \in S : TRUE) = o
    BY <1>1, <2>1
  <2>3. S # {}
    BY <1>2
  <2> QED
    BY <2>2, <2>3 DEF Awaited
<1>3. S = {} => Awaited(p) = <<>>
  BY DEF Awaited
<1> QED
  BY <1>2, <1>3

\* ... and after it.
LEMMA AwaitedNext ==
    ASSUME RecvHeld', NEW p \in Proxies
    PROVE  /\ \A o \in Outputs : ProxyOf[o] = p /\ opc'[o] = "recv"
                  => Awaited(p)' = <<obatch'[o]>>
           /\ (\A o \in Outputs : ProxyOf[o] = p => opc'[o] # "recv")
                  => Awaited(p)' = <<>>
<1> DEFINE S == {o \in Outputs : ProxyOf[o] = p /\ opc'[o] = "recv"}
<1>1. \A o, u \in S : o = u
  BY DEF RecvHeld
<1>2. ASSUME NEW o \in S
      PROVE  Awaited(p)' = <<obatch'[o]>>
  <2>1. (CHOOSE u \in S : TRUE) \in S
    BY <1>2
  <2>2. (CHOOSE u \in S : TRUE) = o
    BY <1>1, <2>1
  <2>3. S # {}
    BY <1>2
  <2> QED
    BY <2>2, <2>3 DEF Awaited
<1>3. S = {} => Awaited(p)' = <<>>
  BY DEF Awaited
<1> QED
  BY <1>2, <1>3

\* Every part of the two streams is a sequence of batches.
LEMMA StreamTypes ==
    ASSUME IInv, Streams, NEW p \in Proxies
    PROVE  /\ Awaited(p) \in Seq(Batch)
           /\ Unsent(p) \in Seq(Batch)
           /\ outputQueue[p] \in Seq(Batch)
           /\ dataOut[p] \in Seq(Batch)
           /\ proxyOut[p] \in Seq(Batch)
           /\ proxyIn[p] \in Seq(Batch)
           /\ dataIn[p] \in Seq(Batch)
           /\ backendQueue[p] \in Seq(Batch)
           /\ Single(awaited[p]) \in Seq(Batch)
           /\ Single(forwarded[p]) \in Seq(Batch)
<1>1. Awaited(p) \in Seq(Batch)
  <2>1. CASE \E o \in Outputs : ProxyOf[o] = p /\ opc[o] = "recv"
    <3>1. PICK o \in Outputs : ProxyOf[o] = p /\ opc[o] = "recv"
      BY <2>1
    <3>2. obatch[o] \in Batch
      BY <3>1 DEF IInv, TypeOK, OutputTypeOK
    <3>3. Awaited(p) = <<obatch[o]>>
      BY <3>1, AwaitedIs DEF Streams
    <3> QED
      BY <3>2, <3>3
  <2>2. CASE ~ \E o \in Outputs : ProxyOf[o] = p /\ opc[o] = "recv"
    <3>1. Awaited(p) = <<>>
      BY <2>2, AwaitedIs DEF Streams
    <3> QED
      BY <3>1
  <2> QED
    BY <2>1, <2>2
<1>2. Unsent(p) \in Seq(Batch)
  <2>1. CASE \E t \in Batchers : ProxyOf[t] = p /\ bpc[t] = "sending"
    <3>1. PICK t \in Batchers : ProxyOf[t] = p /\ bpc[t] = "sending"
      BY <2>1
    <3>2. task[t] \in Models /\ batch[t] \in Seq(Req)
      BY <3>1 DEF IInv, TypeOK, BatcherTypeOK
    <3>3. [model |-> task[t], reqs |-> batch[t]] \in Batch
      BY <3>2 DEF Batch
    <3>4. Unsent(p) = <<[model |-> task[t], reqs |-> batch[t]]>>
      BY <3>1, UnsentIs DEF Streams
    <3> QED
      BY <3>3, <3>4
  <2>2. CASE ~ \E t \in Batchers : ProxyOf[t] = p /\ bpc[t] = "sending"
    <3>1. Unsent(p) = <<>>
      BY <2>2, UnsentIs DEF Streams
    <3> QED
      BY <3>1
  <2> QED
    BY <2>1, <2>2
<1>3. /\ outputQueue[p] \in Seq(Batch)
      /\ dataOut[p] \in Seq(Batch)
      /\ proxyOut[p] \in Seq(Batch)
      /\ proxyIn[p] \in Seq(Batch)
      /\ dataIn[p] \in Seq(Batch)
      /\ backendQueue[p] \in Seq(Batch)
  BY DEF IInv, TypeOK, WireTypeOK
<1>4. Single(awaited[p]) \in Seq(Batch) /\ Single(forwarded[p]) \in Seq(Batch)
  <2>1. \A b \in Batch \cup {NoBatch} : Single(b) \in Seq(Batch)
    BY DEF Single
  <2>2. awaited[p] \in Batch \cup {NoBatch} /\ forwarded[p] \in Batch \cup {NoBatch}
    BY DEF IInv, TypeOK, WireTypeOK
  <2> QED
    BY <2>1, <2>2
<1> QED
  BY <1>1, <1>2, <1>3, <1>4

\* The streams at first: all empty.
LEMMA InitStreams == Init => Streams
<1> SUFFICES ASSUME Init PROVE Streams
  OBVIOUS
<1>1. SendHeld /\ RecvHeld
  BY DEF Init, SendHeld, RecvHeld
<1>2. \A p \in Proxies : Awaited(p) = <<>> /\ Unsent(p) = <<>>
  BY DEF Init, Awaited, Unsent
<1>3. \A p \in Proxies : /\ outputQueue[p] = <<>> /\ dataOut[p] = <<>>
                         /\ proxyOut[p] = <<>> /\ proxyIn[p] = <<>>
                         /\ dataIn[p] = <<>> /\ backendQueue[p] = <<>>
                         /\ Single(awaited[p]) = <<>>
                         /\ Single(forwarded[p]) = <<>>
  BY DEF Init, Single
<1>4. <<>> \o <<>> = <<>>
  BY ConcatEmptySeq, EmptySeq
<1>5. ResultsMatch /\ BackendMatch
  BY <1>2, <1>3, <1>4 DEF ResultsMatch, BackendMatch
<1> QED
  BY <1>1, <1>5 DEF Streams

\* A step that leaves the queues, the channels and the two mutexes alone, and
\* the threads at the seams where they are, changes neither stream.
LEMMA Quiet ==
    ASSUME Streams,
           UNCHANGED <<lockVars, outputQueue, wireVars>>,
           \A t \in Batchers :
               bpc[t] \in {"pushing", "sending"} \/ bpc'[t] \in {"pushing", "sending"}
                   => bpc'[t] = bpc[t] /\ task'[t] = task[t] /\ batch'[t] = batch[t],
           \A o \in Outputs :
               opc[o] = "recv" \/ opc'[o] = "recv"
                   => opc'[o] = opc[o] /\ obatch'[o] = obatch[o]
    PROVE  Streams'
<1>1. SendHeld' /\ RecvHeld'
  BY DEF Streams, SendHeld, RecvHeld, lockVars
<1>2. ASSUME NEW p \in Proxies PROVE Unsent(p)' = Unsent(p)
  <2>1. CASE \E t \in Batchers : ProxyOf[t] = p /\ bpc[t] = "sending"
    BY <1>1, <2>1, UnsentIs, UnsentNext DEF Streams
  <2>2. CASE ~ \E t \in Batchers : ProxyOf[t] = p /\ bpc[t] = "sending"
    BY <1>1, <2>2, UnsentIs, UnsentNext DEF Streams
  <2> QED
    BY <2>1, <2>2
<1>3. ASSUME NEW p \in Proxies PROVE Awaited(p)' = Awaited(p)
  <2>1. CASE \E o \in Outputs : ProxyOf[o] = p /\ opc[o] = "recv"
    BY <1>1, <2>1, AwaitedIs, AwaitedNext DEF Streams
  <2>2. CASE ~ \E o \in Outputs : ProxyOf[o] = p /\ opc[o] = "recv"
    BY <1>1, <2>2, AwaitedIs, AwaitedNext DEF Streams
  <2> QED
    BY <2>1, <2>2
<1>4. ResultsMatch'
  BY <1>2, <1>3 DEF Streams, ResultsMatch, wireVars
<1>5. BackendMatch'
  BY DEF Streams, BackendMatch, wireVars, Single
<1> QED
  BY <1>1, <1>4, <1>5 DEF Streams

-----------------------------------------------------------------------------
\* The client, the scheduler, the loader, the unloader and the drop thread do
\* not touch the streams.
LEMMA OthersQuiet ==
    ASSUME Streams, UNCHANGED <<batchVars, outVars, lockVars, outputQueue, wireVars>>
    PROVE  Streams'
  BY Quiet DEF batchVars, outVars

\* A batching thread before sendBatchedRequest is not at the seam.
LEMMA BatcherQuiet ==
    ASSUME IInv, Streams, NEW t \in Batchers,
           \/ TakeTask(t) \/ StartBatching(t) \/ AddRequest(t)
           \/ CloseBatch(t) \/ StartExec(t) \/ EndBatching(t)
    PROVE  Streams'
<1>1. UNCHANGED <<lockVars, outputQueue, wireVars, outVars>>
  BY DEF TakeTask, StartBatching, AddRequest, CloseBatch, StartExec,
         EndBatching, BatcherRest
<1>2. /\ bpc \in [Batchers -> BatcherPC]
      /\ task \in [Batchers -> Models \cup {NoModel}]
      /\ batch \in [Batchers -> Seq(Req)]
  BY DEF IInv, TypeOK, BatcherTypeOK
<1>3. /\ bpc[t] \notin {"pushing", "sending"}
      /\ bpc'[t] \notin {"pushing", "sending"}
      /\ \A u \in Batchers \ {t} :
            bpc'[u] = bpc[u] /\ task'[u] = task[u] /\ batch'[u] = batch[u]
  BY <1>2 DEF TakeTask, StartBatching, AddRequest, CloseBatch, StartExec,
              EndBatching, GoTo, batchVars
<1> QED
  BY <1>1, <1>3, Quiet DEF outVars

\* Neither is an output thread that has its result.
LEMMA OutputQuiet ==
    ASSUME IInv, Streams, NEW o \in Outputs,
           \/ EndExec(o) \/ AllocateOutput(o) \/ sendBatchedResults(o)
           \/ DeliverEnd(o)
    PROVE  Streams'
<1>1. UNCHANGED <<lockVars, outputQueue, wireVars, batchVars>>
  BY DEF EndExec, AllocateOutput, sendBatchedResults, DeliverEnd, OutputRest,
         lockVars
<1>2. opc \in [Outputs -> OutputPC] /\ obatch \in [Outputs -> Batch \cup {NoBatch}]
  BY DEF IInv, TypeOK, OutputTypeOK
<1>3. /\ opc[o] # "recv" /\ opc'[o] # "recv"
      /\ \A u \in Outputs \ {o} : opc'[u] = opc[u] /\ obatch'[u] = obatch[u]
  <2>1. CASE EndExec(o)
    BY <1>2, <2>1 DEF EndExec, OGoTo
  <2>2. CASE AllocateOutput(o)
    BY <1>2, <2>2 DEF AllocateOutput, OGoTo
  <2>3. CASE sendBatchedResults(o)
    <3>1. opc[o] = "deliver" /\ opc' = opc
      BY <2>3 DEF sendBatchedResults
    <3>2. obatch' = [obatch EXCEPT ![o] = [obatch[o] EXCEPT !.reqs = Tail(@)]]
      BY <1>2, <2>3 DEF sendBatchedResults
    <3> QED
      BY <1>2, <3>1, <3>2
  <2>4. CASE DeliverEnd(o)
    BY <1>2, <2>4 DEF DeliverEnd, OGoTo
  <2> QED
    BY <2>1, <2>2, <2>3, <2>4
<1> QED
  BY <1>1, <1>3, Quiet DEF batchVars

\* sendMtx is taken: nobody else of the proxy is at the seam.
LEMMA LockSendStreams ==
    ASSUME IInv, Streams, NEW t \in Batchers, LockSend(t)
    PROVE  Streams'
<1> DEFINE q == ProxyOf[t]
<1>1. /\ UNCHANGED <<outputMtx, outputQueue, wireVars, outVars, task, batch>>
      /\ sendMtx[q] = Free
      /\ sendMtx' = [sendMtx EXCEPT ![q] = t]
      /\ bpc[t] = "tosend" /\ bpc' = [bpc EXCEPT ![t] = "pushing"]
  BY DEF LockSend, GoTo, BatcherRest
<1>2. /\ bpc \in [Batchers -> BatcherPC] /\ q \in Proxies
      /\ sendMtx \in [Proxies -> Batchers \cup {Free}]
  BY ConstantsAssumption DEF IInv, TypeOK, BatcherTypeOK, LockTypeOK
<1>3. SendHeld'
  BY <1>1, <1>2, FreeAssumption, ConstantsAssumption DEF Streams, SendHeld
<1>4. RecvHeld'
  BY <1>1 DEF Streams, RecvHeld, outVars
<1>5. ASSUME NEW p \in Proxies PROVE Unsent(p)' = Unsent(p)
  <2>1. \A u \in Batchers : bpc'[u] = "sending" <=> bpc[u] = "sending"
    BY <1>1, <1>2
  <2>2. CASE \E u \in Batchers : ProxyOf[u] = p /\ bpc[u] = "sending"
    BY <1>1, <1>3, <2>1, <2>2, UnsentIs, UnsentNext DEF Streams
  <2>3. CASE ~ \E u \in Batchers : ProxyOf[u] = p /\ bpc[u] = "sending"
    BY <1>3, <2>1, <2>3, UnsentIs, UnsentNext DEF Streams
  <2> QED
    BY <2>2, <2>3
<1>6. ASSUME NEW p \in Proxies PROVE Awaited(p)' = Awaited(p)
  BY <1>1 DEF Awaited, outVars
<1>7. ResultsMatch'
  BY <1>1, <1>5, <1>6 DEF Streams, ResultsMatch, wireVars
<1>8. BackendMatch'
  BY <1>1 DEF Streams, BackendMatch, wireVars, Single
<1> QED
  BY <1>3, <1>4, <1>7, <1>8 DEF Streams

\* The batch is announced: it joins the end of both streams.
LEMMA PushOutputStreams ==
    ASSUME IInv, Streams, NEW t \in Batchers, PushOutput(t)
    PROVE  Streams'
<1> DEFINE q == ProxyOf[t]
           b == [model |-> task[t], reqs |-> batch[t]]
<1>1. /\ UNCHANGED <<lockVars, wireVars, outVars, task, batch>>
      /\ bpc[t] = "pushing" /\ bpc' = [bpc EXCEPT ![t] = "sending"]
      /\ outputQueue' = [outputQueue EXCEPT ![q] = Append(@, b)]
  BY DEF PushOutput, GoTo, BatcherRest
<1>2. /\ bpc \in [Batchers -> BatcherPC] /\ q \in Proxies
      /\ task[t] \in Models /\ batch[t] \in Seq(Req)
  BY <1>1, ConstantsAssumption DEF IInv, TypeOK, BatcherTypeOK
<1>3. SendHeld'
  BY <1>1, <1>2 DEF Streams, SendHeld, lockVars
<1>4. RecvHeld'
  BY <1>1 DEF Streams, RecvHeld, outVars, lockVars
<1>5. \A u \in Batchers : bpc'[u] = "sending" <=> u = t \/ bpc[u] = "sending"
  BY <1>1, <1>2
<1>6. \A u \in Batchers : ProxyOf[u] = q => bpc[u] # "sending"
  BY <1>1, <1>2 DEF Streams, SendHeld
<1>7. Unsent(q) = <<>>
  BY <1>2, <1>6, UnsentIs DEF Streams
<1>8. Unsent(q)' = <<b>>
  BY <1>1, <1>2, <1>3, <1>5, UnsentNext
<1>9. ASSUME NEW p \in Proxies, p # q PROVE Unsent(p)' = Unsent(p)
  <2>2. CASE \E u \in Batchers : ProxyOf[u] = p /\ bpc[u] = "sending"
    BY <1>1, <1>3, <1>5, <1>9, <2>2, UnsentIs, UnsentNext DEF Streams
  <2>3. CASE ~ \E u \in Batchers : ProxyOf[u] = p /\ bpc[u] = "sending"
    BY <1>3, <1>5, <1>9, <2>3, UnsentIs, UnsentNext DEF Streams
  <2> QED
    BY <2>2, <2>3
<1>10. ASSUME NEW p \in Proxies PROVE Awaited(p)' = Awaited(p)
  BY <1>1 DEF Awaited, outVars
<1>11. b \in Batch
  BY <1>2 DEF Batch
<1>12. ResultsMatch'
  <2> SUFFICES ASSUME NEW p \in Proxies
               PROVE  Awaited(p)' \o outputQueue'[p] =
                        dataOut'[p] \o proxyOut'[p] \o proxyIn'[p] \o dataIn'[p]
                            \o Unsent(p)'
    BY DEF ResultsMatch
  <2>1. dataOut' = dataOut /\ proxyOut' = proxyOut /\ proxyIn' = proxyIn
           /\ dataIn' = dataIn
    BY <1>1 DEF wireVars
  <2>2. CASE p = q
    <3> DEFINE R == dataOut[q] \o proxyOut[q] \o proxyIn[q] \o dataIn[q]
    <3>1. R \in Seq(Batch)
      BY <1>2, StreamTypes, ConcatProperties
    <3>2. Awaited(q) \o outputQueue[q] = R
      <4>1. Awaited(q) \o outputQueue[q] = R \o <<>>
        BY <1>2, <1>7 DEF Streams, ResultsMatch
      <4> QED
        BY <3>1, <4>1, ConcatEmptySeq
    <3>3. outputQueue'[q] = Append(outputQueue[q], b)
      BY <1>1, <1>2 DEF IInv, TypeOK
    <3>4. Awaited(q) \o Append(outputQueue[q], b)
            = (Awaited(q) \o outputQueue[q]) \o <<b>>
      <4>1. Awaited(q) \in Seq(Batch) /\ outputQueue[q] \in Seq(Batch)
        BY <1>2, StreamTypes
      <4> HIDE DEF b, q
      <4> QED
        BY <1>11, <4>1, ConcatAppend
    <3>5. Awaited(q)' \o outputQueue'[q] = R \o Unsent(q)'
      <4> HIDE DEF b, R
      <4>1. Awaited(q)' = Awaited(q)
        BY <1>2, <1>10
      <4> QED
        BY <1>8, <3>2, <3>3, <3>4, <4>1
    <3> QED
      BY <2>1, <2>2, <3>5
  <2>3. CASE p # q
    <3>1. outputQueue'[p] = outputQueue[p]
      BY <1>1, <2>3 DEF IInv, TypeOK
    <3> QED
      BY <1>9, <1>10, <2>1, <2>3, <3>1 DEF Streams, ResultsMatch
  <2> QED
    BY <2>2, <2>3
<1>13. BackendMatch'
  BY <1>1 DEF Streams, BackendMatch, wireVars, Single
<1> QED
  BY <1>3, <1>4, <1>12, <1>13 DEF Streams

\* The batch is sent: it moves from the sending thread to the data channel,
\* and sendMtx is released.
LEMMA SendToBackendStreams ==
    ASSUME IInv, Streams, NEW t \in Batchers, SendToBackend(t)
    PROVE  Streams'
<1> DEFINE q == ProxyOf[t]
           b == [model |-> task[t], reqs |-> batch[t]]
<1>1. /\ UNCHANGED <<outputMtx, outputQueue, outVars, forwarded, proxyIn,
                     backendQueue, awaited, proxyOut, dataOut>>
      /\ bpc[t] = "sending" /\ bpc' = [bpc EXCEPT ![t] = "idle"]
      /\ dataIn' = [dataIn EXCEPT ![q] = Append(@, b)]
      /\ sendMtx' = [sendMtx EXCEPT ![q] = Free]
      /\ task' = [task EXCEPT ![t] = NoModel]
      /\ batch' = [batch EXCEPT ![t] = <<>>]
  BY DEF SendToBackend, GoTo, BatcherRest
<1>2. /\ bpc \in [Batchers -> BatcherPC] /\ q \in Proxies
      /\ sendMtx \in [Proxies -> Batchers \cup {Free}]
      /\ dataIn \in [Proxies -> Seq(Batch)]
      /\ task \in [Batchers -> Models \cup {NoModel}]
      /\ batch \in [Batchers -> Seq(Req)]
      /\ task[t] \in Models /\ batch[t] \in Seq(Req)
  BY <1>1, ConstantsAssumption
     DEF IInv, TypeOK, BatcherTypeOK, LockTypeOK, WireTypeOK
<1>3. SendHeld'
  BY <1>1, <1>2, ConstantsAssumption DEF Streams, SendHeld
<1>4. RecvHeld'
  BY <1>1 DEF Streams, RecvHeld, outVars
<1>5. \A u \in Batchers : bpc'[u] = "sending" <=> u # t /\ bpc[u] = "sending"
  BY <1>1, <1>2
<1>6. \A u \in Batchers : ProxyOf[u] = q => bpc'[u] # "sending"
  BY <1>1, <1>2, <1>5 DEF Streams, SendHeld
<1>7. Unsent(q) = <<b>>
  BY <1>1, <1>2, UnsentIs DEF Streams
<1>8. Unsent(q)' = <<>>
  BY <1>2, <1>3, <1>6, UnsentNext
<1>9. ASSUME NEW p \in Proxies, p # q PROVE Unsent(p)' = Unsent(p)
  <2>1. CASE \E u \in Batchers : ProxyOf[u] = p /\ bpc[u] = "sending"
    <3>1. PICK u \in Batchers : ProxyOf[u] = p /\ bpc[u] = "sending"
      BY <2>1
    <3>2. u # t
      BY <1>9, <3>1
    <3>3. bpc'[u] = "sending" /\ task'[u] = task[u] /\ batch'[u] = batch[u]
      BY <1>1, <1>2, <3>1, <3>2
    <3> QED
      BY <1>3, <3>1, <3>3, UnsentIs, UnsentNext DEF Streams
  <2>2. CASE ~ \E u \in Batchers : ProxyOf[u] = p /\ bpc[u] = "sending"
    BY <1>3, <1>5, <2>2, UnsentIs, UnsentNext DEF Streams
  <2> QED
    BY <2>1, <2>2
<1>10. ASSUME NEW p \in Proxies PROVE Awaited(p)' = Awaited(p)
  BY <1>1 DEF Awaited, outVars
<1>11. b \in Batch
  BY <1>2 DEF Batch
<1>12. ASSUME NEW p \in Proxies
       PROVE  Awaited(p)' \o outputQueue'[p] =
                dataOut'[p] \o proxyOut'[p] \o proxyIn'[p] \o dataIn'[p]
                    \o Unsent(p)'
  <2>1. CASE p = q
    <3> DEFINE R == dataOut[q] \o proxyOut[q] \o proxyIn[q]
    <3>1. R \in Seq(Batch) /\ dataIn[q] \in Seq(Batch)
      BY <1>2, StreamTypes, ConcatProperties
    <3>2. dataIn'[q] = Append(dataIn[q], b)
      BY <1>1, <1>2
    <3>3. Awaited(q) \o outputQueue[q] = (R \o dataIn[q]) \o <<b>>
      <4>1. Awaited(q) \o outputQueue[q] = (R \o dataIn[q]) \o Unsent(q)
        BY <1>2 DEF Streams, ResultsMatch
      <4> HIDE DEF b, R, q
      <4> QED
        BY <1>7, <4>1
    <3> HIDE DEF b, R
    <3>4. R \o Append(dataIn[q], b) = (R \o dataIn[q]) \o <<b>>
      <4> HIDE DEF q
      <4> QED
        BY <1>11, <3>1, ConcatAppend
    <3>5. R \o Append(dataIn[q], b) \in Seq(Batch)
      BY <1>11, <3>1, AppendProperties, ConcatProperties
    <3>6. (R \o Append(dataIn[q], b)) \o <<>> = R \o Append(dataIn[q], b)
      BY <3>5, ConcatEmptySeq
    <3>7. Awaited(q)' \o outputQueue'[q] = R \o dataIn'[q] \o Unsent(q)'
      <4>1. Awaited(q)' = Awaited(q) /\ outputQueue'[q] = outputQueue[q]
        BY <1>1, <1>2, <1>10
      <4> HIDE DEF q
      <4> QED
        BY <1>8, <3>2, <3>3, <3>4, <3>6, <4>1
    <3> QED
      BY <1>1, <2>1, <3>7 DEF R
  <2>2. CASE p # q
    <3>1. dataIn'[p] = dataIn[p]
      BY <1>1, <1>2, <2>2
    <3> QED
      BY <1>1, <1>9, <1>10, <2>2, <3>1 DEF Streams, ResultsMatch
  <2> QED
    BY <2>1, <2>2
<1>13. BackendMatch'
  BY <1>1 DEF Streams, BackendMatch, Single
<1> QED
  BY <1>3, <1>4, <1>12, <1>13 DEF Streams, ResultsMatch

\* The wire does not touch the threads, their mutexes and the output queue.
LEMMA WireKeeps ==
    ASSUME Streams, UNCHANGED WireRest
    PROVE  /\ SendHeld' /\ RecvHeld'
           /\ \A p \in Proxies : /\ Unsent(p)' = Unsent(p)
                                 /\ Awaited(p)' = Awaited(p)
                                 /\ outputQueue'[p] = outputQueue[p]
<1>1. UNCHANGED <<batchVars, outVars, lockVars, outputQueue>>
  BY DEF WireRest
<1>2. UNCHANGED <<bpc, task, batch, opc, obatch, sendMtx, outputMtx, outputQueue>>
  BY <1>1 DEF batchVars, outVars, lockVars
<1>3. SendHeld' /\ RecvHeld'
  BY <1>2 DEF Streams, SendHeld, RecvHeld
<1>4. \A p \in Proxies : Unsent(p)' = Unsent(p)
  BY <1>2 DEF Unsent
<1>5. \A p \in Proxies : Awaited(p)' = Awaited(p)
  BY <1>2 DEF Awaited
<1> QED
  BY <1>2, <1>3, <1>4, <1>5

\* A batch is not "no batch".
LEMMA BatchIsSome ==
    ASSUME NEW b \in Batch
    PROVE  b # NoBatch /\ Single(b) = <<b>>
  BY NoModelAssumption DEF Batch, NoBatch, Single

\* recvBatchedTensor: a batch hops to the proxy's socket, and the in-thread
\* keeps it for its own queue.
LEMMA recvBatchedTensorStreams ==
    ASSUME IInv, Streams, NEW q \in Proxies, recvBatchedTensor(q)
    PROVE  Streams'
<1>1. /\ UNCHANGED <<backendQueue, awaited, proxyOut, dataOut>>
      /\ forwarded[q] = NoBatch /\ dataIn[q] # <<>>
      /\ dataIn' = [dataIn EXCEPT ![q] = Tail(@)]
      /\ proxyIn' = [proxyIn EXCEPT ![q] = Append(@, Head(dataIn[q]))]
      /\ forwarded' = [forwarded EXCEPT ![q] = Head(dataIn[q])]
  BY DEF recvBatchedTensor
<1>2. /\ SendHeld' /\ RecvHeld'
      /\ \A p \in Proxies : /\ Unsent(p)' = Unsent(p)
                            /\ Awaited(p)' = Awaited(p)
                            /\ outputQueue'[p] = outputQueue[p]
  BY WireKeeps DEF recvBatchedTensor
<1>3. /\ dataIn \in [Proxies -> Seq(Batch)]
      /\ proxyIn \in [Proxies -> Seq(Batch)]
      /\ forwarded \in [Proxies -> Batch \cup {NoBatch}]
  BY DEF IInv, TypeOK, WireTypeOK
<1> DEFINE h == Head(dataIn[q])
<1>4. /\ dataIn'[q] = Tail(dataIn[q])
      /\ proxyIn'[q] = Append(proxyIn[q], h)
      /\ forwarded'[q] = h
      /\ \A p \in Proxies \ {q} : /\ dataIn'[p] = dataIn[p]
                                  /\ proxyIn'[p] = proxyIn[p]
                                  /\ forwarded'[p] = forwarded[p]
  BY <1>1, <1>3
<1>5. h \in Batch
  BY <1>1, <1>3, HeadTailProperties
<1>6. ASSUME NEW p \in Proxies
      PROVE  Awaited(p)' \o outputQueue'[p] =
                dataOut'[p] \o proxyOut'[p] \o proxyIn'[p] \o dataIn'[p]
                    \o Unsent(p)'
  <2>1. CASE p = q
    <3> DEFINE R == dataOut[q] \o proxyOut[q]
    <3>1. R \in Seq(Batch)
      BY StreamTypes, ConcatProperties
    <3>2. /\ dataIn[q] \in Seq(Batch) /\ proxyIn[q] \in Seq(Batch)
      BY <1>3
    <3>3. /\ proxyIn'[q] \in Seq(Batch) /\ dataIn'[q] \in Seq(Batch)
          /\ proxyIn'[q] \o dataIn'[q] = proxyIn[q] \o dataIn[q]
      BY <1>1, <1>4, <3>2, BatchHop, Zenon
    <3> HIDE DEF R
    <3>4. (R \o proxyIn'[q]) \o dataIn'[q] = (R \o proxyIn[q]) \o dataIn[q]
      <4>1. (R \o proxyIn'[q]) \o dataIn'[q] = R \o (proxyIn'[q] \o dataIn'[q])
        BY <3>1, <3>3, BatchAssoc, Zenon
      <4>2. (R \o proxyIn[q]) \o dataIn[q] = R \o (proxyIn[q] \o dataIn[q])
        BY <3>1, <3>2, BatchAssoc, Zenon
      <4> QED
        BY <3>3, <4>1, <4>2
    <3>5. Awaited(q) \o outputQueue[q] = R \o proxyIn[q] \o dataIn[q] \o Unsent(q)
      BY DEF R, Streams, ResultsMatch
    <3>6. dataOut'[q] \o proxyOut'[q] = R
      BY <1>1 DEF R
    <3> QED
      BY <1>2, <2>1, <3>4, <3>5, <3>6
  <2>2. CASE p # q
    <3>1. proxyIn'[p] = proxyIn[p] /\ dataIn'[p] = dataIn[p]
      BY <1>4, <2>2
    <3> QED
      BY <1>1, <1>2, <3>1 DEF Streams, ResultsMatch
  <2> QED
    BY <2>1, <2>2
<1>7. ASSUME NEW p \in Proxies
      PROVE  Single(awaited'[p]) \o backendQueue'[p] \o Single(forwarded'[p]) =
                proxyOut'[p] \o proxyIn'[p]
  <2>1. CASE p = q
    <3> DEFINE A == Single(awaited[q]) \o backendQueue[q]
    <3>1. A \in Seq(Batch) /\ proxyOut[q] \in Seq(Batch) /\ proxyIn[q] \in Seq(Batch)
      BY StreamTypes, ConcatProperties
    <3>2. A \o <<>> = proxyOut[q] \o proxyIn[q]
      BY <1>1 DEF Streams, BackendMatch, Single
    <3>3. Single(forwarded'[q]) = <<h>>
      BY <1>4, <1>5, BatchIsSome
    <3>4. A = Single(awaited'[q]) \o backendQueue'[q] /\ proxyOut'[q] = proxyOut[q]
      BY <1>1
    <3> HIDE DEF A, h
    <3>5. A = proxyOut[q] \o proxyIn[q]
      BY <3>1, <3>2, ConcatEmptySeq
    <3>6. proxyOut[q] \o Append(proxyIn[q], h) = A \o <<h>>
      BY <1>5, <3>1, <3>5, BatchAppend, Zenon
    <3> QED
      BY <1>4, <2>1, <3>3, <3>4, <3>6
  <2>2. CASE p # q
    <3>1. proxyIn'[p] = proxyIn[p] /\ forwarded'[p] = forwarded[p]
      BY <1>4, <2>2
    <3> QED
      BY <1>1, <3>1 DEF Streams, BackendMatch
  <2> QED
    BY <2>1, <2>2
<1> QED
  BY <1>2, <1>6, <1>7 DEF Streams, ResultsMatch, BackendMatch, Single

\* ... and it is put on the out-thread's queue.
LEMMA enqueueForwardedStreams ==
    ASSUME IInv, Streams, NEW q \in Proxies, enqueueForwarded(q)
    PROVE  Streams'
<1>1. /\ UNCHANGED <<dataIn, proxyIn, awaited, proxyOut, dataOut>>
      /\ forwarded[q] # NoBatch
      /\ backendQueue' = [backendQueue EXCEPT ![q] = Append(@, forwarded[q])]
      /\ forwarded' = [forwarded EXCEPT ![q] = NoBatch]
  BY DEF enqueueForwarded
<1>2. /\ SendHeld' /\ RecvHeld'
      /\ \A p \in Proxies : /\ Unsent(p)' = Unsent(p)
                            /\ Awaited(p)' = Awaited(p)
                            /\ outputQueue'[p] = outputQueue[p]
  BY WireKeeps DEF enqueueForwarded
<1>3. /\ backendQueue \in [Proxies -> Seq(Batch)]
      /\ forwarded \in [Proxies -> Batch \cup {NoBatch}]
  BY DEF IInv, TypeOK, WireTypeOK
<1>4. /\ backendQueue'[q] = Append(backendQueue[q], forwarded[q])
      /\ forwarded'[q] = NoBatch
      /\ forwarded[q] \in Batch
      /\ \A p \in Proxies \ {q} : /\ backendQueue'[p] = backendQueue[p]
                                  /\ forwarded'[p] = forwarded[p]
  BY <1>1, <1>3
<1>5. ResultsMatch'
  BY <1>1, <1>2 DEF Streams, ResultsMatch
<1>6. ASSUME NEW p \in Proxies
      PROVE  Single(awaited'[p]) \o backendQueue'[p] \o Single(forwarded'[p]) =
                proxyOut'[p] \o proxyIn'[p]
  <2>1. CASE p = q
    <3> DEFINE A == Single(awaited[q])
    <3>1. A \in Seq(Batch) /\ backendQueue[q] \in Seq(Batch)
      BY StreamTypes
    <3>2. /\ Single(forwarded[q]) = <<forwarded[q]>>
          /\ Single(forwarded'[q]) = <<>>
          /\ Single(awaited'[q]) = A
      BY <1>1, <1>4, BatchIsSome DEF Single
    <3>3. (A \o backendQueue[q]) \o <<forwarded[q]>> = proxyOut[q] \o proxyIn[q]
      BY <3>2 DEF Streams, BackendMatch
    <3> HIDE DEF A
    <3>4. A \o backendQueue'[q] = (A \o backendQueue[q]) \o <<forwarded[q]>>
      BY <1>4, <3>1, BatchAppend, Zenon
    <3>5. A \o backendQueue'[q] \in Seq(Batch)
      BY <1>4, <3>1, AppendProperties, ConcatProperties
    <3>6. (A \o backendQueue'[q]) \o <<>> = A \o backendQueue'[q]
      BY <3>5, BatchEmpty, Zenon
    <3> QED
      BY <1>1, <2>1, <3>2, <3>3, <3>4, <3>6
  <2>2. CASE p # q
    <3>1. backendQueue'[p] = backendQueue[p] /\ forwarded'[p] = forwarded[p]
      BY <1>4, <2>2
    <3> QED
      BY <1>1, <3>1 DEF Streams, BackendMatch
  <2> QED
    BY <2>1, <2>2
<1> QED
  BY <1>2, <1>5, <1>6 DEF Streams, BackendMatch, Single

\* The proxy computes: a batch hops from one socket to the other.
LEMMA proxyComputeStreams ==
    ASSUME IInv, Streams, NEW q \in Proxies, proxyCompute(q)
    PROVE  Streams'
<1>1. /\ UNCHANGED <<dataIn, forwarded, backendQueue, awaited, dataOut>>
      /\ proxyIn[q] # <<>>
      /\ proxyIn' = [proxyIn EXCEPT ![q] = Tail(@)]
      /\ proxyOut' = [proxyOut EXCEPT ![q] = Append(@, Head(proxyIn[q]))]
  BY DEF proxyCompute
<1>2. /\ SendHeld' /\ RecvHeld'
      /\ \A p \in Proxies : /\ Unsent(p)' = Unsent(p)
                            /\ Awaited(p)' = Awaited(p)
                            /\ outputQueue'[p] = outputQueue[p]
  BY WireKeeps DEF proxyCompute
<1>3. /\ proxyIn \in [Proxies -> Seq(Batch)]
      /\ proxyOut \in [Proxies -> Seq(Batch)]
      /\ dataOut \in [Proxies -> Seq(Batch)]
  BY DEF IInv, TypeOK, WireTypeOK
<1>4. /\ proxyIn'[q] = Tail(proxyIn[q])
      /\ proxyOut'[q] = Append(proxyOut[q], Head(proxyIn[q]))
      /\ \A p \in Proxies \ {q} : /\ proxyIn'[p] = proxyIn[p]
                                  /\ proxyOut'[p] = proxyOut[p]
  BY <1>1, <1>3
<1>5. \A p \in Proxies :
         /\ dataOut[p] \in Seq(Batch) /\ proxyIn[p] \in Seq(Batch)
         /\ proxyOut[p] \in Seq(Batch)
  BY <1>3
<1>6. ASSUME NEW p \in Proxies
      PROVE  /\ proxyIn'[p] \in Seq(Batch) /\ proxyOut'[p] \in Seq(Batch)
             /\ proxyOut'[p] \o proxyIn'[p] = proxyOut[p] \o proxyIn[p]
  <2>1. CASE p = q
    <3>1. proxyIn[q] \in Seq(Batch) /\ proxyOut[q] \in Seq(Batch)
      BY <1>5
    <3>2. /\ proxyIn'[q] \in Seq(Batch) /\ proxyOut'[q] \in Seq(Batch)
          /\ proxyOut'[q] \o proxyIn'[q] = proxyOut[q] \o proxyIn[q]
      BY <1>1, <1>4, <3>1, BatchHop, Zenon
    <3> QED
      BY <2>1, <3>2
  <2>2. CASE p # q
    BY <1>4, <1>5, <2>2
  <2> QED
    BY <2>1, <2>2
<1>7. ASSUME NEW p \in Proxies
      PROVE  dataOut[p] \o proxyOut'[p] \o proxyIn'[p] =
                dataOut[p] \o proxyOut[p] \o proxyIn[p]
  <2>0. /\ dataOut[p] \in Seq(Batch) /\ proxyIn[p] \in Seq(Batch)
        /\ proxyOut[p] \in Seq(Batch)
        /\ proxyIn'[p] \in Seq(Batch) /\ proxyOut'[p] \in Seq(Batch)
    BY <1>5, <1>6
  <2>1. (dataOut[p] \o proxyOut'[p]) \o proxyIn'[p]
           = dataOut[p] \o (proxyOut'[p] \o proxyIn'[p])
    BY <2>0, BatchAssoc, ZenonT(60)
  <2>2. (dataOut[p] \o proxyOut[p]) \o proxyIn[p]
           = dataOut[p] \o (proxyOut[p] \o proxyIn[p])
    BY <2>0, BatchAssoc, ZenonT(60)
  <2>3. proxyOut'[p] \o proxyIn'[p] = proxyOut[p] \o proxyIn[p]
    BY <1>6
  <2> QED
    BY <2>1, <2>2, <2>3
<1>8. ResultsMatch'
  <2> SUFFICES ASSUME NEW p \in Proxies
               PROVE  Awaited(p)' \o outputQueue'[p] =
                        dataOut'[p] \o proxyOut'[p] \o proxyIn'[p] \o dataIn'[p]
                            \o Unsent(p)'
    BY DEF ResultsMatch
  <2>1. /\ dataOut'[p] = dataOut[p] /\ dataIn'[p] = dataIn[p]
        /\ Unsent(p)' = Unsent(p)
        /\ Awaited(p)' = Awaited(p)
        /\ outputQueue'[p] = outputQueue[p]
    BY <1>1, <1>2
  <2>2. dataOut[p] \o proxyOut'[p] \o proxyIn'[p] =
                dataOut[p] \o proxyOut[p] \o proxyIn[p]
    BY <1>7
  <2>3. Awaited(p) \o outputQueue[p] = dataOut[p] \o proxyOut[p] \o proxyIn[p]
                                         \o dataIn[p] \o Unsent(p)
    BY DEF Streams, ResultsMatch
  <2> QED
    BY <2>1, <2>2, <2>3
<1>9. BackendMatch'
  BY <1>1, <1>6 DEF Streams, BackendMatch, Single
<1> QED
  BY <1>2, <1>8, <1>9 DEF Streams

\* The out-thread takes the next batch to wait for from its queue.
LEMMA dequeueAwaitedStreams ==
    ASSUME IInv, Streams, NEW q \in Proxies, dequeueAwaited(q)
    PROVE  Streams'
<1>1. /\ UNCHANGED <<dataIn, forwarded, proxyIn, proxyOut, dataOut>>
      /\ awaited[q] = NoBatch /\ backendQueue[q] # <<>>
      /\ awaited' = [awaited EXCEPT ![q] = Head(backendQueue[q])]
      /\ backendQueue' = [backendQueue EXCEPT ![q] = Tail(@)]
  BY DEF dequeueAwaited
<1>2. /\ SendHeld' /\ RecvHeld'
      /\ \A p \in Proxies : /\ Unsent(p)' = Unsent(p)
                            /\ Awaited(p)' = Awaited(p)
                            /\ outputQueue'[p] = outputQueue[p]
  BY WireKeeps DEF dequeueAwaited
<1>3. /\ backendQueue \in [Proxies -> Seq(Batch)]
      /\ awaited \in [Proxies -> Batch \cup {NoBatch}]
  BY DEF IInv, TypeOK, WireTypeOK
<1>4. /\ backendQueue'[q] = Tail(backendQueue[q])
      /\ awaited'[q] = Head(backendQueue[q])
      /\ \A p \in Proxies \ {q} : /\ backendQueue'[p] = backendQueue[p]
                                  /\ awaited'[p] = awaited[p]
  BY <1>1, <1>3
<1>5. backendQueue[q] \in Seq(Batch)
  BY <1>3
<1>6. Head(backendQueue[q]) \in Batch
  BY <1>1, <1>5, HeadTailProperties
<1>7. ResultsMatch'
  BY <1>1, <1>2 DEF Streams, ResultsMatch
<1>8. ASSUME NEW p \in Proxies
      PROVE  Single(awaited'[p]) \o backendQueue'[p] = Single(awaited[p]) \o backendQueue[p]
  <2>1. CASE p = q
    <3>1. Single(awaited[q]) = <<>>
      BY <1>1 DEF Single
    <3>2. Single(awaited'[q]) = <<Head(backendQueue[q])>>
      BY <1>4, <1>6, BatchIsSome
    <3>3. <<>> \o backendQueue[q] = backendQueue[q]
      BY <1>5, BatchEmpty, Zenon
    <3>4. <<Head(backendQueue[q])>> \o Tail(backendQueue[q]) = backendQueue[q]
      BY <1>1, <1>5, HeadThenTail
    <3> QED
      BY <1>4, <2>1, <3>1, <3>2, <3>3, <3>4
  <2>2. CASE p # q
    BY <1>4, <2>2
  <2> QED
    BY <2>1, <2>2
<1>9. BackendMatch'
  BY <1>1, <1>8, ZenonT(60) DEF Streams, BackendMatch, Single
<1> QED
  BY <1>2, <1>7, <1>9 DEF Streams

\* The out-thread passes the awaited result on: the batch it awaits is the
\* first one on the proxy's socket.
LEMMA receiveandsendOutputStreams ==
    ASSUME IInv, Streams, NEW q \in Proxies, receiveandsendOutput(q)
    PROVE  Streams'
<1>1. /\ UNCHANGED <<dataIn, forwarded, proxyIn, backendQueue>>
      /\ awaited[q] # NoBatch /\ proxyOut[q] # <<>>
      /\ proxyOut' = [proxyOut EXCEPT ![q] = Tail(@)]
      /\ dataOut' = [dataOut EXCEPT ![q] = Append(@, Head(proxyOut[q]))]
      /\ awaited' = [awaited EXCEPT ![q] = NoBatch]
  BY DEF receiveandsendOutput
<1>2. /\ SendHeld' /\ RecvHeld'
      /\ \A p \in Proxies : /\ Unsent(p)' = Unsent(p)
                            /\ Awaited(p)' = Awaited(p)
                            /\ outputQueue'[p] = outputQueue[p]
  BY WireKeeps DEF receiveandsendOutput
<1>3. /\ proxyOut \in [Proxies -> Seq(Batch)]
      /\ dataOut \in [Proxies -> Seq(Batch)]
      /\ awaited \in [Proxies -> Batch \cup {NoBatch}]
  BY DEF IInv, TypeOK, WireTypeOK
<1>4. /\ proxyOut'[q] = Tail(proxyOut[q])
      /\ dataOut'[q] = Append(dataOut[q], Head(proxyOut[q]))
      /\ awaited'[q] = NoBatch
      /\ awaited[q] \in Batch
      /\ \A p \in Proxies \ {q} : /\ proxyOut'[p] = proxyOut[p]
                                  /\ dataOut'[p] = dataOut[p]
                                  /\ awaited'[p] = awaited[p]
  BY <1>1, <1>3
<1>5. ASSUME NEW p \in Proxies
      PROVE  dataOut'[p] \o proxyOut'[p] = dataOut[p] \o proxyOut[p]
  <2>1. CASE p = q
    <3>1. proxyOut[q] \in Seq(Batch) /\ dataOut[q] \in Seq(Batch)
      BY <1>3
    <3>2. dataOut'[q] \o proxyOut'[q] = dataOut[q] \o proxyOut[q]
      BY <1>1, <1>4, <3>1, BatchHop, Zenon
    <3> QED
      BY <2>1, <3>2
  <2>2. CASE p # q
    BY <1>4, <2>2
  <2> QED
    BY <2>1, <2>2
<1>6. ResultsMatch'
  BY <1>1, <1>2, <1>5 DEF Streams, ResultsMatch
<1>7. ASSUME NEW p \in Proxies
      PROVE  Single(awaited'[p]) \o backendQueue'[p] \o Single(forwarded'[p]) =
                proxyOut'[p] \o proxyIn'[p]
  <2>1. CASE p = q
    <3>1. /\ Single(forwarded[q]) \in Seq(Batch) /\ backendQueue[q] \in Seq(Batch)
          /\ proxyOut[q] \in Seq(Batch) /\ proxyIn[q] \in Seq(Batch)
      BY StreamTypes
    <3>2. Single(awaited[q]) = <<awaited[q]>> /\ Single(awaited'[q]) = <<>>
      BY <1>4, BatchIsSome DEF Single
    <3>3. BackendFlow(<<awaited[q]>>, backendQueue[q], Single(forwarded[q]),
                      proxyOut[q], proxyIn[q])
      BY <3>2 DEF Streams, BackendMatch, BackendFlow
    <3>4. BackendFlow(<<>>, backendQueue[q], Single(forwarded[q]),
                      Tail(proxyOut[q]), proxyIn[q])
      BY <1>1, <1>4, <3>1, <3>3, BackendFlowFront
    <3>5. BackendFlow(Single(awaited'[q]), backendQueue'[q], Single(forwarded'[q]),
                      proxyOut'[q], proxyIn'[q])
      BY <1>1, <1>4, <3>2, <3>4
    <3> QED
      BY <2>1, <3>5 DEF BackendFlow
  <2>2. CASE p # q
    <3>1. awaited'[p] = awaited[p] /\ proxyOut'[p] = proxyOut[p]
      BY <1>4, <2>2
    <3> QED
      BY <1>1, <3>1 DEF Streams, BackendMatch
  <2> QED
    BY <2>1, <2>2
<1> QED
  BY <1>2, <1>6, <1>7 DEF Streams, BackendMatch, Single

\* The output threads do not touch the batchers' seam and the wire up to the
\* data channel.
LEMMA OutputKeeps ==
    ASSUME Streams, UNCHANGED <<batchVars, sendMtx, dataIn, forwarded, proxyIn,
                                backendQueue, awaited, proxyOut>>
    PROVE  /\ SendHeld' /\ BackendMatch'
           /\ \A p \in Proxies : /\ Unsent(p)' = Unsent(p)
                                 /\ dataIn'[p] = dataIn[p]
                                 /\ proxyIn'[p] = proxyIn[p]
                                 /\ proxyOut'[p] = proxyOut[p]
<1>1. UNCHANGED <<bpc, task, batch>>
  BY DEF batchVars
<1>2. SendHeld'
  BY <1>1 DEF Streams, SendHeld
<1>3. BackendMatch'
  BY DEF Streams, BackendMatch, Single
<1>4. \A p \in Proxies : Unsent(p)' = Unsent(p)
  BY <1>1 DEF Unsent
<1> QED
  BY <1>2, <1>3, <1>4

\* An output thread takes the first announced batch; nobody else awaits one.
LEMMA TakeOutputStreams ==
    ASSUME IInv, Streams, NEW o \in Outputs, TakeOutput(o)
    PROVE  Streams'
<1> DEFINE q == ProxyOf[o]
<1>1. /\ UNCHANGED <<batchVars, sendMtx, wireVars>>
      /\ outputMtx[q] = Free /\ outputQueue[q] # <<>>
      /\ opc[o] = "idle" /\ opc' = [opc EXCEPT ![o] = "recv"]
      /\ outputMtx' = [outputMtx EXCEPT ![q] = o]
      /\ obatch' = [obatch EXCEPT ![o] = Head(outputQueue[q])]
      /\ outputQueue' = [outputQueue EXCEPT ![q] = Tail(@)]
  BY DEF TakeOutput, OGoTo, OutputRest
<1>2. /\ opc \in [Outputs -> OutputPC] /\ q \in Proxies
      /\ obatch \in [Outputs -> Batch \cup {NoBatch}]
      /\ outputMtx \in [Proxies -> Outputs \cup {Free}]
      /\ outputQueue \in [Proxies -> Seq(Batch)]
  BY ConstantsAssumption DEF IInv, TypeOK, OutputTypeOK, LockTypeOK
<1>3. /\ SendHeld' /\ BackendMatch'
      /\ \A p \in Proxies : /\ Unsent(p)' = Unsent(p)
                            /\ dataIn'[p] = dataIn[p]
                            /\ proxyIn'[p] = proxyIn[p]
                            /\ proxyOut'[p] = proxyOut[p]
                            /\ dataOut'[p] = dataOut[p]
  BY <1>1, OutputKeeps DEF wireVars
<1>4. RecvHeld'
  BY <1>1, <1>2, FreeAssumption, ConstantsAssumption DEF Streams, RecvHeld
<1>5. \A u \in Outputs : ProxyOf[u] = q => opc[u] # "recv"
  BY <1>1, FreeAssumption DEF Streams, RecvHeld
<1>6. Awaited(q) = <<>>
  BY <1>2, <1>5, AwaitedIs DEF Streams
<1>7. Awaited(q)' = <<Head(outputQueue[q])>>
  BY <1>1, <1>2, <1>4, AwaitedNext
<1>8. ASSUME NEW p \in Proxies, p # q PROVE Awaited(p)' = Awaited(p)
  <2>1. CASE \E u \in Outputs : ProxyOf[u] = p /\ opc[u] = "recv"
    <3>1. PICK u \in Outputs : ProxyOf[u] = p /\ opc[u] = "recv"
      BY <2>1
    <3>2. opc'[u] = "recv" /\ obatch'[u] = obatch[u]
      BY <1>1, <1>2, <1>8, <3>1
    <3> QED
      BY <1>4, <3>1, <3>2, AwaitedIs, AwaitedNext DEF Streams
  <2>2. CASE ~ \E u \in Outputs : ProxyOf[u] = p /\ opc[u] = "recv"
    <3>1. \A u \in Outputs : ProxyOf[u] = p => opc'[u] # "recv"
      BY <1>1, <1>2, <1>8, <2>2
    <3> QED
      BY <1>4, <2>2, <3>1, AwaitedIs, AwaitedNext DEF Streams
  <2> QED
    BY <2>1, <2>2
<1>9. ASSUME NEW p \in Proxies
      PROVE  Awaited(p)' \o outputQueue'[p] = Awaited(p) \o outputQueue[p]
  <2>1. CASE p = q
    <3>1. outputQueue[q] \in Seq(Batch) /\ outputQueue'[q] = Tail(outputQueue[q])
      BY <1>1, <1>2
    <3>2. <<>> \o outputQueue[q] = outputQueue[q]
      BY <3>1, BatchEmpty, Zenon
    <3>3. <<Head(outputQueue[q])>> \o Tail(outputQueue[q]) = outputQueue[q]
      BY <1>1, <3>1, HeadThenTail
    <3> QED
      BY <1>6, <1>7, <2>1, <3>1, <3>2, <3>3
  <2>2. CASE p # q
    BY <1>1, <1>2, <1>8, <2>2
  <2> QED
    BY <2>1, <2>2
<1>10. ResultsMatch'
  BY <1>3, <1>9 DEF Streams, ResultsMatch
<1> QED
  BY <1>3, <1>4, <1>10 DEF Streams

\* The result at the front of the data channel is the one the thread awaits.
LEMMA ResultIsAwaited ==
    ASSUME IInv, Streams, NEW o \in Outputs,
           opc[o] = "recv", dataOut[ProxyOf[o]] # <<>>
    PROVE  LET q == ProxyOf[o]
           IN  /\ Head(dataOut[q]) = obatch[o]
               /\ Flow(<<>>, outputQueue[q], Tail(dataOut[q]), proxyOut[q],
                       proxyIn[q], dataIn[q], Unsent(q))
<1> DEFINE q == ProxyOf[o]
<1>1. q \in Proxies
  BY ConstantsAssumption
<1>2. /\ dataOut[q] \in Seq(Batch) /\ proxyOut[q] \in Seq(Batch)
      /\ proxyIn[q] \in Seq(Batch) /\ dataIn[q] \in Seq(Batch)
      /\ Unsent(q) \in Seq(Batch) /\ outputQueue[q] \in Seq(Batch)
  BY <1>1, StreamTypes
<1>3. obatch[o] \in Batch
  BY DEF IInv, TypeOK, OutputTypeOK
<1>4. Awaited(q) = <<obatch[o]>>
  BY <1>1, AwaitedIs DEF Streams
<1>5. Flow(Awaited(q), outputQueue[q], dataOut[q], proxyOut[q], proxyIn[q],
           dataIn[q], Unsent(q))
  BY <1>1 DEF Streams, ResultsMatch, Flow
<1>6. Flow(<<obatch[o]>>, outputQueue[q], dataOut[q], proxyOut[q], proxyIn[q],
           dataIn[q], Unsent(q))
  BY <1>4, <1>5
<1>7. dataOut[q] # <<>>
  OBVIOUS
<1>8. /\ Head(dataOut[q]) = obatch[o]
      /\ Flow(<<>>, outputQueue[q], Tail(dataOut[q]), proxyOut[q],
              proxyIn[q], dataIn[q], Unsent(q))
  <2> HIDE DEF q
  <2> QED
    BY <1>2, <1>3, <1>6, <1>7, FlowFront
<1> QED
  BY <1>8

\* The result is received, and PerProxyOutputMtx released.
LEMMA RecvResultStreams ==
    ASSUME IInv, Streams, NEW o \in Outputs, RecvResult(o)
    PROVE  Streams'
<1> DEFINE q == ProxyOf[o]
<1>1. /\ UNCHANGED <<batchVars, sendMtx, dataIn, forwarded, proxyIn,
                     backendQueue, awaited, proxyOut, outputQueue, obatch>>
      /\ dataOut[q] # <<>>
      /\ opc[o] = "recv" /\ opc' = [opc EXCEPT ![o] = "endexec"]
      /\ dataOut' = [dataOut EXCEPT ![q] = Tail(@)]
      /\ outputMtx' = [outputMtx EXCEPT ![q] = Free]
  BY DEF RecvResult, OGoTo, OutputRest
<1>2. /\ opc \in [Outputs -> OutputPC] /\ q \in Proxies
      /\ outputMtx \in [Proxies -> Outputs \cup {Free}]
      /\ dataOut \in [Proxies -> Seq(Batch)]
  BY ConstantsAssumption DEF IInv, TypeOK, OutputTypeOK, LockTypeOK, WireTypeOK
<1>3. /\ SendHeld' /\ BackendMatch'
      /\ \A p \in Proxies : /\ Unsent(p)' = Unsent(p)
                            /\ dataIn'[p] = dataIn[p]
                            /\ proxyIn'[p] = proxyIn[p]
                            /\ proxyOut'[p] = proxyOut[p]
  BY <1>1, OutputKeeps
<1>4. \A u \in Outputs : opc'[u] = "recv" <=> u # o /\ opc[u] = "recv"
  BY <1>1, <1>2
<1>5. RecvHeld'
  BY <1>1, <1>2, <1>4, ConstantsAssumption DEF Streams, RecvHeld
<1>6. \A u \in Outputs : ProxyOf[u] = q => opc'[u] # "recv"
  BY <1>1, <1>2, <1>4 DEF Streams, RecvHeld
<1>7. Awaited(q)' = <<>>
  BY <1>2, <1>5, <1>6, AwaitedNext
<1>8. ASSUME NEW p \in Proxies, p # q PROVE Awaited(p)' = Awaited(p)
  <2>1. CASE \E u \in Outputs : ProxyOf[u] = p /\ opc[u] = "recv"
    <3>1. PICK u \in Outputs : ProxyOf[u] = p /\ opc[u] = "recv"
      BY <2>1
    <3>2. opc'[u] = "recv" /\ obatch'[u] = obatch[u]
      BY <1>1, <1>4, <1>8, <3>1
    <3> QED
      BY <1>5, <3>1, <3>2, AwaitedIs, AwaitedNext DEF Streams
  <2>2. CASE ~ \E u \in Outputs : ProxyOf[u] = p /\ opc[u] = "recv"
    BY <1>4, <1>5, <2>2, AwaitedIs, AwaitedNext DEF Streams
  <2> QED
    BY <2>1, <2>2
<1>9. ASSUME NEW p \in Proxies
      PROVE  Awaited(p)' \o outputQueue'[p] =
                dataOut'[p] \o proxyOut'[p] \o proxyIn'[p] \o dataIn'[p]
                    \o Unsent(p)'
  <2>1. CASE p = q
    <3>1. Flow(<<>>, outputQueue[q], Tail(dataOut[q]), proxyOut[q],
               proxyIn[q], dataIn[q], Unsent(q))
      BY <1>1, ResultIsAwaited
    <3>2. dataOut'[q] = Tail(dataOut[q]) /\ outputQueue'[q] = outputQueue[q]
      BY <1>1, <1>2
    <3>3. Flow(Awaited(q)', outputQueue'[q], dataOut'[q], proxyOut'[q],
               proxyIn'[q], dataIn'[q], Unsent(q)')
      BY <1>2, <1>3, <1>7, <3>1, <3>2
    <3> QED
      BY <2>1, <3>3 DEF Flow
  <2>2. CASE p # q
    <3>1. dataOut'[p] = dataOut[p]
      BY <1>1, <1>2, <2>2
    <3> QED
      BY <1>1, <1>3, <1>8, <2>2, <3>1 DEF Streams, ResultsMatch
  <2> QED
    BY <2>1, <2>2
<1>10. ResultsMatch'
  BY <1>9 DEF ResultsMatch
<1> QED
  BY <1>3, <1>5, <1>10 DEF Streams

-----------------------------------------------------------------------------
\* Every step keeps the streams in order.
LEMMA NextStreams ==
    ASSUME IInv, Streams, [Next]_vars
    PROVE  Streams'
<1>1. CASE \E k \in Tasks, n \in Nodes : handleRequest(k, n)
  BY <1>1, OthersQuiet DEF handleRequest
<1>2. CASE initApp
  BY <1>2, OthersQuiet DEF initApp
<1>3. CASE Dropper
  BY <1>3, OthersQuiet DEF Dropper, DropCopy, DropLock, DropExpired,
     DropScanEnd, DropRest
<1>4. CASE Scheduler
  BY <1>4, OthersQuiet DEF Scheduler, staticMPSScheduler, doMPSScheduling,
     applyRoutingFlush, applyRoutingInstall
<1>5. CASE Loader
  BY <1>5, OthersQuiet DEF Loader, loadModel_sync
<1>6. CASE \E p \in Proxies : Unloader(p)
  BY <1>6, OthersQuiet DEF Unloader, UnloadNext, UnloadCheckSize,
     UnloadCheckBatching, UnloadCheckExec, UnloadEnd, UnloadRest
<1>7. CASE \E t \in Batchers : Batcher(t)
  BY <1>7, BatcherQuiet, LockSendStreams, PushOutputStreams,
     SendToBackendStreams DEF Batcher
<1>8. CASE \E p \in Proxies : \/ recvBatchedTensor(p) \/ enqueueForwarded(p)
                              \/ proxyCompute(p) \/ dequeueAwaited(p)
                              \/ receiveandsendOutput(p)
  BY <1>8, recvBatchedTensorStreams, enqueueForwardedStreams,
     proxyComputeStreams, dequeueAwaitedStreams, receiveandsendOutputStreams
<1>9. CASE \E o \in Outputs : Output(o)
  BY <1>9, TakeOutputStreams, RecvResultStreams, OutputQuiet DEF Output
<1>10. CASE UNCHANGED vars
  BY <1>10, OthersQuiet DEF vars
<1> QED
  BY <1>1, <1>2, <1>3, <1>4, <1>5, <1>6, <1>7, <1>8, <1>9, <1>10 DEF Next

\* The two streams of every proxy agree in every reachable state.
THEOREM StreamsInvariance == Spec => [](IInv /\ Streams)
<1>1. Init => IInv /\ Streams
  BY InitIInv, InitStreams
<1>2. (IInv /\ Streams) /\ [Next]_vars => (IInv /\ Streams)'
  BY NextIInv, NextStreams
<1> QED
  BY <1>1, <1>2, PTL DEF Spec

\* The output threads of a proxy (initOutput) receive the results in the order
\* in which sendBatchedRequest sent the batches: no result is ever given to
\* the requests of another batch, for any number of threads on a proxy.
THEOREM ResultsInOrder == Spec => []ResultsMatch
<1>1. IInv /\ Streams => ResultsMatch
  BY DEF Streams
<1> QED
  BY <1>1, StreamsInvariance, PTL

\* The backend's out-thread awaits the outputs of a proxy in the order in
\* which its in-thread forwarded the batches (recvBatchedTensor and
\* receiveandsendOutput).
THEOREM BackendInOrder == Spec => []BackendMatch
<1>1. IInv /\ Streams => BackendMatch
  BY DEF Streams
<1> QED
  BY <1>1, StreamsInvariance, PTL

\* recvResult never returns the output of another batch: when initOutput reads
\* the data channel, what it reads is the result of the batch it took from
\* PerProxyOutputQueue.
THEOREM ResultsDelivered ==
    Spec => [][\A o \in Outputs :
                  RecvResult(o) => Head(dataOut[ProxyOf[o]]) = obatch[o]]_vars
<1>1. (IInv /\ Streams) /\ [Next]_vars =>
          [\A o \in Outputs :
              RecvResult(o) => Head(dataOut[ProxyOf[o]]) = obatch[o]]_vars
  BY ResultIsAwaited DEF RecvResult, OGoTo
<1> QED
  BY <1>1, StreamsInvariance, PTL DEF Spec

-----------------------------------------------------------------------------
(***************************************************************************)
(* Proofs about the requests and the replies of BatchPipeline: no request  *)
(* of a task is lost or executed twice, whichever threads and proxies      *)
(* share its queue, and a task gets one reply.                             *)
(***************************************************************************)

-----------------------------------------------------------------------------
(***************************************************************************)
(* Requests in sequences.                                                  *)
(***************************************************************************)

\* r occurs in the sequence s; it occurs once at most.
HasIn(s, r) == \E i \in DOMAIN s : s[i] = r
OnceIn(s, r) == \A i, j \in DOMAIN s : s[i] = r /\ s[j] = r => i = j

\* The same over the sequences f[a], a \in I.
Has(f, I, r) == \E a \in I : HasIn(f[a], r)
Once(f, I, r) ==
    /\ \A a, b \in I : HasIn(f[a], r) /\ HasIn(f[b], r) => a = b
    /\ \A a \in I : OnceIn(f[a], r)

\* Nothing occurs in the empty sequence.
LEMMA EmptyHasNone == \A r : ~HasIn(<<>>, r) /\ OnceIn(<<>>, r)
  BY DEF HasIn, OnceIn

\* An element appended to a sequence it is not in occurs there once.
LEMMA AppendHas ==
    ASSUME NEW S, NEW s \in Seq(S), NEW x \in S, NEW r
    PROVE  /\ HasIn(Append(s, x), r) <=> HasIn(s, r) \/ x = r
           /\ OnceIn(s, r) /\ (x = r => ~HasIn(s, r)) => OnceIn(Append(s, x), r)
<1> DEFINE u == Append(s, x)
<1>1. /\ Len(s) \in Nat /\ DOMAIN s = 1 .. Len(s)
      /\ DOMAIN u = 1 .. Len(s) + 1
      /\ \A i \in 1 .. Len(s) : u[i] = s[i]
      /\ u[Len(s) + 1] = x
  BY AppendProperties, LenProperties
<1> HIDE DEF u
<1>2. HasIn(u, r) <=> HasIn(s, r) \/ x = r
  BY <1>1 DEF HasIn
<1>3. OnceIn(s, r) /\ (x = r => ~HasIn(s, r)) => OnceIn(u, r)
  BY <1>1 DEF HasIn, OnceIn
<1> QED
  BY <1>2, <1>3 DEF u

\* Without its head, a sequence has the other elements it had.
LEMMA TailHas ==
    ASSUME NEW S, NEW s \in Seq(S), s # <<>>, NEW r
    PROVE  /\ HasIn(s, Head(s))
           /\ HasIn(Tail(s), r) => HasIn(s, r)
           /\ HasIn(s, r) => r = Head(s) \/ HasIn(Tail(s), r)
           /\ OnceIn(s, r) => OnceIn(Tail(s), r)
           /\ OnceIn(s, r) /\ r = Head(s) => ~HasIn(Tail(s), r)
<1> DEFINE u == Tail(s)
<1>1. /\ Len(s) \in Nat \ {0} /\ DOMAIN s = 1 .. Len(s)
      /\ Head(s) = s[1]
      /\ DOMAIN u = 1 .. Len(s) - 1
      /\ \A i \in 1 .. Len(s) - 1 : u[i] = s[i + 1]
  BY HeadTailProperties, LenProperties, EmptySeq
<1> HIDE DEF u
<1>2. HasIn(s, Head(s))
  BY <1>1 DEF HasIn
<1>3. HasIn(u, r) => HasIn(s, r)
  BY <1>1 DEF HasIn
<1>4. HasIn(s, r) => r = Head(s) \/ HasIn(u, r)
  <2> SUFFICES ASSUME NEW i \in DOMAIN s, s[i] = r, r # Head(s)
               PROVE  HasIn(u, r)
    BY DEF HasIn
  <2>1. i \in 2 .. Len(s)
    BY <1>1
  <2>2. i - 1 \in 1 .. Len(s) - 1 /\ (i - 1) + 1 = i
    BY <1>1, <2>1
  <2>3. u[i - 1] = s[i]
    BY <1>1, <2>2
  <2> QED
    BY <1>1, <2>2, <2>3 DEF HasIn
<1>5. OnceIn(s, r) => OnceIn(u, r)
  <2> SUFFICES ASSUME OnceIn(s, r), NEW i \in DOMAIN u, NEW j \in DOMAIN u,
                      u[i] = r, u[j] = r
               PROVE  i = j
    BY DEF OnceIn
  <2>1. i + 1 \in DOMAIN s /\ j + 1 \in DOMAIN s /\ s[i + 1] = r /\ s[j + 1] = r
    BY <1>1
  <2>2. i + 1 = j + 1
    BY <2>1 DEF OnceIn
  <2> QED
    BY <1>1, <2>2
<1>6. OnceIn(s, r) /\ r = Head(s) => ~HasIn(u, r)
  <2> SUFFICES ASSUME OnceIn(s, r), r = Head(s), NEW i \in DOMAIN u, u[i] = r
               PROVE  FALSE
    BY DEF HasIn
  <2>1. i + 1 \in DOMAIN s /\ s[i + 1] = r /\ 1 \in DOMAIN s /\ s[1] = r
    BY <1>1
  <2>2. i + 1 = 1
    BY <2>1 DEF OnceIn
  <2> QED
    BY <1>1, <2>2
<1> QED
  BY <1>2, <1>3, <1>4, <1>5, <1>6 DEF u

\* g is f with x appended to f[a], or without the head of f[a].
Appends(f, g, I, a, x) ==
    /\ a \in I /\ f[a] \in Seq(Req) /\ x \in Req
    /\ g[a] = Append(f[a], x)
    /\ \A b \in I \ {a} : g[b] = f[b]
Drops(f, g, I, a) ==
    /\ a \in I /\ f[a] \in Seq(Req) /\ f[a] # <<>>
    /\ g[a] = Tail(f[a])
    /\ \A b \in I \ {a} : g[b] = f[b]

\* g is f with one sequence more, that of a.
Joins(f, g, I, J, a) ==
    /\ a \notin I /\ J = I \cup {a}
    /\ \A b \in I : g[b] = f[b]

\* One of the sequences gets an element more, ...
LEMMA HasAppend ==
    ASSUME NEW I, NEW f, NEW g, NEW a, NEW x, Appends(f, g, I, a, x), NEW r
    PROVE  /\ Has(g, I, r) <=> Has(f, I, r) \/ x = r
           /\ Once(f, I, r) /\ (x = r => ~Has(f, I, r)) => Once(g, I, r)
<1>1. /\ HasIn(g[a], r) <=> HasIn(f[a], r) \/ x = r
      /\ OnceIn(f[a], r) /\ (x = r => ~HasIn(f[a], r)) => OnceIn(g[a], r)
  BY AppendHas DEF Appends
<1>2. Has(g, I, r) <=> Has(f, I, r) \/ x = r
  BY <1>1 DEF Has, Appends
<1>3. Once(f, I, r) /\ (x = r => ~Has(f, I, r)) => Once(g, I, r)
  BY <1>1 DEF Has, Once, Appends
<1> QED
  BY <1>2, <1>3

\* ... loses its head, ...
LEMMA HasTail ==
    ASSUME NEW I, NEW f, NEW g, NEW a, Drops(f, g, I, a), NEW r
    PROVE  /\ r = Head(f[a]) => Has(f, I, r)
           /\ Has(g, I, r) => Has(f, I, r)
           /\ Has(f, I, r) => r = Head(f[a]) \/ Has(g, I, r)
           /\ Once(f, I, r) => Once(g, I, r)
           /\ Once(f, I, r) /\ r = Head(f[a]) => ~Has(g, I, r)
<1>1. /\ HasIn(f[a], Head(f[a]))
      /\ HasIn(g[a], r) => HasIn(f[a], r)
      /\ HasIn(f[a], r) => r = Head(f[a]) \/ HasIn(g[a], r)
      /\ OnceIn(f[a], r) => OnceIn(g[a], r)
      /\ OnceIn(f[a], r) /\ r = Head(f[a]) => ~HasIn(g[a], r)
  BY TailHas DEF Drops
<1>2. /\ r = Head(f[a]) => Has(f, I, r)
      /\ Has(g, I, r) => Has(f, I, r)
      /\ Has(f, I, r) => r = Head(f[a]) \/ Has(g, I, r)
  BY <1>1 DEF Has, Drops
<1>3. Once(f, I, r) => Once(g, I, r)
  BY <1>1 DEF Once, Drops
<1>4. Once(f, I, r) /\ r = Head(f[a]) => ~Has(g, I, r)
  BY <1>1 DEF Has, Once, Drops
<1> QED
  BY <1>2, <1>3, <1>4

\* ... joins the others, ...
LEMMA HasJoin ==
    ASSUME NEW I, NEW J, NEW f, NEW g, NEW a, Joins(f, g, I, J, a), NEW r
    PROVE  /\ Has(g, J, r) <=> Has(f, I, r) \/ HasIn(g[a], r)
           /\ Once(f, I, r) /\ OnceIn(g[a], r) /\ (HasIn(g[a], r) => ~Has(f, I, r))
                  => Once(g, J, r)
  BY DEF Has, Once, Joins

\* ... or leaves them.
LEMMA HasLeave ==
    ASSUME NEW I, NEW J, NEW f, NEW g, NEW a, Joins(g, f, J, I, a), NEW r
    PROVE  /\ Has(f, I, r) <=> Has(g, J, r) \/ HasIn(f[a], r)
           /\ Once(f, I, r) => /\ Once(g, J, r)
                               /\ OnceIn(f[a], r)
                               /\ HasIn(f[a], r) => ~Has(g, J, r)
  BY DEF Has, Once, Joins

-----------------------------------------------------------------------------
(***************************************************************************)
(* Where a request is.                                                     *)
(***************************************************************************)

\* The batching threads whose batch is not yet announced, the output threads
\* whose batch is not yet marked finished, and those that deliver results.
Gathering == {t \in Batchers : bpc[t] # "sending"}
Holding == {o \in Outputs : opc[o] \in {"recv", "endexec", "allocate"}}
Delivering == {o \in Outputs : opc[o] = "deliver"}

\* The requests of the batch of each output thread.
OutReqs == [o \in Outputs |-> obatch[o].reqs]

Queued(r) == Has(reqQueue, Models, r)
Batched(r) == Has(batch, Gathering, r)
Announces(r) ==
    \E p \in Proxies : \E j \in DOMAIN outputQueue[p] :
        HasIn(outputQueue[p][j].reqs, r)
Executed(r) == Has(OutReqs, Holding, r)
Delivered(r) == Has(OutReqs, Delivering, r)

AnnouncedOnce(r) ==
    /\ \A p, q \in Proxies : \A i \in DOMAIN outputQueue[p], j \in DOMAIN outputQueue[q] :
          HasIn(outputQueue[p][i].reqs, r) /\ HasIn(outputQueue[q][j].reqs, r)
              => p = q /\ i = j
    /\ \A p \in Proxies : \A j \in DOMAIN outputQueue[p] :
          OnceIn(outputQueue[p][j].reqs, r)

Located(r) == Queued(r) \/ Batched(r) \/ Announces(r) \/ Executed(r)

\* A request is in one place at most.
OnePlace(r) ==
    /\ Once(reqQueue, Models, r)
    /\ Once(batch, Gathering, r)
    /\ AnnouncedOnce(r)
    /\ Once(OutReqs, Holding, r)
    /\ Queued(r) => ~Batched(r) /\ ~Announces(r) /\ ~Executed(r)
    /\ Batched(r) => ~Announces(r) /\ ~Executed(r)
    /\ Announces(r) => ~Executed(r)

\* Request <<k, n>> has been put into a queue at some time.
Issued(k, n) == Located(<<k, n>>) \/ n \in scoreBoard[k]

\* The inductive invariant, next to IInv, for one request.  A finished request
\* is nowhere but in the batch whose results are being delivered; a request is
\* issued by the arrival of its input, or by the delivery of its predecessor,
\* which happens once.
RequestInv(k, n) ==
    /\ OnePlace(<<k, n>>)
    /\ Once(OutReqs, Delivering, <<k, n>>)
    /\ n \in scoreBoard[k] => ~Located(<<k, n>>)
    /\ Delivered(<<k, n>>) => n \in scoreBoard[k]
    /\ n \in Entry => (n \in received[k] <=> Issued(k, n))
    /\ n \in received[k] => n \in Entry
    /\ \A m \in Nodes : n \in Succ[m] /\ Issued(k, n)
           => m \in scoreBoard[k] /\ ~Delivered(<<k, m>>)

RequestsInv == \A k \in Tasks, n \in Nodes : RequestInv(k, n)

-----------------------------------------------------------------------------
\* What a step leaves alone holds the requests it held.
LEMMA Unmoved ==
    ASSUME NEW r
    PROVE  /\ reqQueue' = reqQueue
               => /\ Queued(r)' <=> Queued(r)
                  /\ Once(reqQueue, Models, r)' <=> Once(reqQueue, Models, r)
           /\ batch' = batch /\ Gathering' = Gathering
               => /\ Batched(r)' <=> Batched(r)
                  /\ Once(batch, Gathering, r)' <=> Once(batch, Gathering, r)
           /\ outputQueue' = outputQueue
               => /\ Announces(r)' <=> Announces(r)
                  /\ AnnouncedOnce(r)' <=> AnnouncedOnce(r)
           /\ OutReqs' = OutReqs /\ Holding' = Holding
               => /\ Executed(r)' <=> Executed(r)
                  /\ Once(OutReqs, Holding, r)' <=> Once(OutReqs, Holding, r)
           /\ OutReqs' = OutReqs /\ Delivering' = Delivering
               => /\ Delivered(r)' <=> Delivered(r)
                  /\ Once(OutReqs, Delivering, r)' <=> Once(OutReqs, Delivering, r)
<1>1. reqQueue' = reqQueue
          => /\ Queued(r)' <=> Queued(r)
             /\ Once(reqQueue, Models, r)' <=> Once(reqQueue, Models, r)
  BY DEF Queued, Has, Once
<1>2. batch' = batch /\ Gathering' = Gathering
          => /\ Batched(r)' <=> Batched(r)
             /\ Once(batch, Gathering, r)' <=> Once(batch, Gathering, r)
  BY DEF Batched, Has, Once
<1>3. outputQueue' = outputQueue
          => /\ Announces(r)' <=> Announces(r)
             /\ AnnouncedOnce(r)' <=> AnnouncedOnce(r)
  BY DEF Announces, AnnouncedOnce
<1>4. OutReqs' = OutReqs /\ Holding' = Holding
          => /\ Executed(r)' <=> Executed(r)
             /\ Once(OutReqs, Holding, r)' <=> Once(OutReqs, Holding, r)
  BY DEF Executed, Has, Once
<1>5. OutReqs' = OutReqs /\ Delivering' = Delivering
          => /\ Delivered(r)' <=> Delivered(r)
             /\ Once(OutReqs, Delivering, r)' <=> Once(OutReqs, Delivering, r)
  BY DEF Delivered, Has, Once
<1> QED
  BY <1>1, <1>2, <1>3, <1>4, <1>5

\* Most steps move no request.
LEMMA RequestsQuiet ==
    ASSUME RequestsInv,
           UNCHANGED <<reqQueue, received, scoreBoard, outputQueue, batch, obatch>>,
           Gathering' = Gathering, Holding' = Holding, Delivering' = Delivering
    PROVE  RequestsInv'
<1>1. OutReqs' = OutReqs
  BY DEF OutReqs
<1>2. ASSUME NEW k \in Tasks, NEW n \in Nodes PROVE RequestInv(k, n)'
  <2>1. RequestInv(k, n)
    BY DEF RequestsInv
  <2>2. \A r : /\ Located(r)' <=> Located(r)
               /\ OnePlace(r)' <=> OnePlace(r)
               /\ Delivered(r)' <=> Delivered(r)
               /\ Once(OutReqs, Delivering, r)' <=> Once(OutReqs, Delivering, r)
    BY <1>1, Unmoved DEF Located, OnePlace
  <2> QED
    BY <2>1, <2>2 DEF RequestInv, Issued
<1> QED
  BY <1>2 DEF RequestsInv

\* addtoModelQueue: the requests of ns of task k, and nobody else, join their
\* queues.
LEMMA QueueAdd ==
    ASSUME IInv, NEW k \in Tasks, NEW ns \in SUBSET Nodes, addtoModelQueue(k, ns),
           \A a, b \in ns : ModelOf[a] = ModelOf[b] => a = b,
           NEW r \in Req
    PROVE  /\ Queued(r)' <=> Queued(r) \/ r \in {<<k, n>> : n \in ns}
           /\ Once(reqQueue, Models, r)
              /\ (r \in {<<k, n>> : n \in ns} => ~Queued(r))
                 => Once(reqQueue, Models, r)'
<1> DEFINE M == {ModelOf[n] : n \in ns}
           x(m) == <<k, CHOOSE n \in ns : ModelOf[n] = m>>
<1>1. M \subseteq Models
  BY ConstantsAssumption
<1>2. \A m \in Models : reqQueue[m] \in Seq(Req)
  BY DEF IInv, TypeOK
<1>3. ASSUME NEW n \in ns PROVE x(ModelOf[n]) = <<k, n>>
  <2>1. (CHOOSE b \in ns : ModelOf[b] = ModelOf[n]) = n
    OBVIOUS
  <2> QED
    BY <2>1
<1>4. \A m \in M : x(m) \in Req /\ \E n \in ns : m = ModelOf[n] /\ x(m) = <<k, n>>
  BY <1>3 DEF Req
<1>5. \A m \in Models : reqQueue'[m] = IF m \in M THEN Append(reqQueue[m], x(m))
                                       ELSE reqQueue[m]
  BY DEF addtoModelQueue
<1> HIDE DEF x
<1>6. ASSUME NEW m \in Models
      PROVE  /\ HasIn(reqQueue'[m], r) <=> HasIn(reqQueue[m], r) \/ (m \in M /\ x(m) = r)
             /\ OnceIn(reqQueue[m], r) /\ (m \in M /\ x(m) = r => ~HasIn(reqQueue[m], r))
                    => OnceIn(reqQueue'[m], r)
  <2>1. CASE m \in M
    <3>1. reqQueue'[m] = Append(reqQueue[m], x(m)) /\ x(m) \in Req
             /\ reqQueue[m] \in Seq(Req)
      BY <1>2, <1>4, <1>5, <2>1
    <3> HIDE DEF M
    <3> QED
      BY <2>1, <3>1, AppendHas
  <2>2. CASE m \notin M
    BY <1>5, <2>2
  <2> QED
    BY <2>1, <2>2
<1>7. r \in {<<k, n>> : n \in ns} <=> \E m \in M : x(m) = r
  <2>1. ASSUME NEW n \in ns, r = <<k, n>> PROVE \E m \in M : x(m) = r
    BY <1>3, <2>1
  <2> QED
    BY <1>4, <2>1
<1>8. \A m1, m2 \in M : x(m1) = x(m2) => m1 = m2
  BY <1>4
<1>9. reqQueue \in [Models -> Seq(Req)] /\ DOMAIN reqQueue = Models
  BY DEF IInv, TypeOK
<1> HIDE DEF M
<1>10. Queued(r)' <=> Queued(r) \/ r \in {<<k, n>> : n \in ns}
  BY <1>1, <1>6, <1>7 DEF Queued, Has
<1>11. ASSUME Once(reqQueue, Models, r), r \in {<<k, n>> : n \in ns} => ~Queued(r)
       PROVE  Once(reqQueue, Models, r)'
  <2>1. ASSUME NEW m1 \in Models, NEW m2 \in Models,
               HasIn(reqQueue'[m1], r), HasIn(reqQueue'[m2], r)
        PROVE  m1 = m2
    BY <1>6, <1>7, <1>8, <1>11, <2>1 DEF Once, Queued, Has
  <2>2. ASSUME NEW m \in Models PROVE OnceIn(reqQueue'[m], r)
    BY <1>6, <1>7, <1>11 DEF Once, Queued, Has
  <2> QED
    BY <2>1, <2>2 DEF Once
<1> QED
  BY <1>10, <1>11

-----------------------------------------------------------------------------
(***************************************************************************)
(* The steps that move a request.                                          *)
(***************************************************************************)

\* An input arrives for the first time: its request was nowhere.
LEMMA handleRequestMoves ==
    ASSUME TreeApplication, IInv, RequestsInv,
           NEW l \in Tasks, NEW c \in Nodes, handleRequest(l, c)
    PROVE  RequestsInv'
<1>1. /\ c \in Entry /\ c \notin received[l]
      /\ received' = [received EXCEPT ![l] = @ \cup {c}]
      /\ addtoModelQueue(l, {c})
      /\ UNCHANGED <<scoreBoard, batchVars, outVars, outputQueue>>
  BY DEF handleRequest
<1>2. /\ batch' = batch /\ Gathering' = Gathering /\ OutReqs' = OutReqs
      /\ Holding' = Holding /\ Delivering' = Delivering
  BY <1>1 DEF batchVars, outVars, Gathering, OutReqs, Holding, Delivering
<1>3. ~Issued(l, c)
  BY <1>1 DEF RequestsInv, RequestInv
<1>4. \A k \in Tasks : received'[k] = IF k = l THEN received[k] \cup {c} ELSE received[k]
  BY <1>1 DEF IInv, TypeOK, AppTypeOK
<1>5. ASSUME NEW k \in Tasks, NEW n \in Nodes PROVE RequestInv(k, n)'
  <2> DEFINE r == <<k, n>>
  <2>1. r \in Req /\ (r \in {<<l, a>> : a \in {c}} <=> k = l /\ n = c)
    BY DEF Req
  <2>2. /\ Queued(r)' <=> Queued(r) \/ (k = l /\ n = c)
        /\ Once(reqQueue, Models, r) /\ (k = l /\ n = c => ~Queued(r))
              => Once(reqQueue, Models, r)'
    <3> HIDE DEF r
    <3> QED
      BY <1>1, <2>1, QueueAdd
  <2>3. /\ Batched(r)' <=> Batched(r)
        /\ Once(batch, Gathering, r)' <=> Once(batch, Gathering, r)
        /\ Announces(r)' <=> Announces(r)
        /\ AnnouncedOnce(r)' <=> AnnouncedOnce(r)
        /\ Executed(r)' <=> Executed(r)
        /\ Once(OutReqs, Holding, r)' <=> Once(OutReqs, Holding, r)
        /\ Once(OutReqs, Delivering, r)' <=> Once(OutReqs, Delivering, r)
        /\ \A q : Delivered(q)' <=> Delivered(q)
    BY <1>1, <1>2, Unmoved
  <2>4. RequestInv(k, n)
    BY DEF RequestsInv
  <2>5. k = l /\ n = c => ~Located(r) /\ n \notin scoreBoard[k]
    BY <1>3 DEF Issued
  <2>6. Located(r)' <=> Located(r) \/ (k = l /\ n = c)
    BY <2>2, <2>3 DEF Located
  <2>7. Issued(k, n)' <=> Issued(k, n) \/ (k = l /\ n = c)
    BY <1>1, <2>6 DEF Issued
  <2>8. OnePlace(r)'
    BY <2>2, <2>3, <2>4, <2>5 DEF OnePlace, Located, RequestInv
  <2>9. \A m \in Nodes : n \in Succ[m] => ~(k = l /\ n = c)
    BY <1>1 DEF TreeApplication
  <2> HIDE DEF r
  <2> QED
    BY <1>1, <1>4, <2>3, <2>4, <2>5, <2>6, <2>7, <2>8, <2>9 DEF RequestInv, r
<1> QED
  BY <1>5 DEF RequestsInv

\* A request moves from the queue into the batch.
LEMMA AddRequestMoves ==
    ASSUME IInv, RequestsInv, NEW t \in Batchers, AddRequest(t)
    PROVE  RequestsInv'
<1> DEFINE m0 == task[t]
           h == Head(reqQueue[m0])
<1>1. /\ bpc[t] = "batching" /\ reqQueue[m0] # <<>>
      /\ batch' = [batch EXCEPT ![t] = Append(@, h)]
      /\ reqQueue' = [reqQueue EXCEPT ![m0] = Tail(@)]
      /\ UNCHANGED <<bpc, outputQueue, outVars, received, scoreBoard>>
  BY DEF AddRequest, BatcherRest, appVars
<1>2. /\ m0 \in Models /\ reqQueue[m0] \in Seq(Req) /\ batch[t] \in Seq(Req)
      /\ reqQueue \in [Models -> Seq(Req)] /\ batch \in [Batchers -> Seq(Req)]
  BY <1>1 DEF IInv, TypeOK, BatcherTypeOK
<1>3. h \in Req
  BY <1>1, <1>2, HeadTailProperties
<1>4. /\ Gathering' = Gathering /\ OutReqs' = OutReqs
      /\ Holding' = Holding /\ Delivering' = Delivering /\ t \in Gathering
  BY <1>1 DEF outVars, Gathering, OutReqs, Holding, Delivering
<1>5. /\ reqQueue'[m0] = Tail(reqQueue[m0])
      /\ \A m \in Models \ {m0} : reqQueue'[m] = reqQueue[m]
      /\ batch'[t] = Append(batch[t], h)
      /\ \A u \in Gathering \ {t} : batch'[u] = batch[u]
  BY <1>1, <1>2 DEF Gathering
<1>6. ASSUME NEW k \in Tasks, NEW n \in Nodes PROVE RequestInv(k, n)'
  <2> DEFINE r == <<k, n>>
  <2>1. /\ r = h => Queued(r)
        /\ Queued(r)' => Queued(r)
        /\ Queued(r) => r = h \/ Queued(r)'
        /\ Once(reqQueue, Models, r) => Once(reqQueue, Models, r)'
        /\ Once(reqQueue, Models, r) /\ r = h => ~Queued(r)'
    <3>1. Drops(reqQueue, reqQueue', Models, m0)
      BY <1>1, <1>2, <1>5 DEF Drops
    <3> HIDE DEF r, m0
    <3> QED
      BY <3>1, HasTail DEF Queued
  <2>2. /\ Batched(r)' <=> Batched(r) \/ h = r
        /\ Once(batch, Gathering, r) /\ (h = r => ~Batched(r))
              => Once(batch, Gathering, r)'
    <3>1. Appends(batch, batch', Gathering, t, h)
      BY <1>2, <1>3, <1>4, <1>5 DEF Appends
    <3> HIDE DEF r, h
    <3> QED
      BY <1>4, <3>1, HasAppend DEF Batched
  <2>3. /\ Announces(r)' <=> Announces(r)
        /\ AnnouncedOnce(r)' <=> AnnouncedOnce(r)
        /\ Executed(r)' <=> Executed(r)
        /\ Once(OutReqs, Holding, r)' <=> Once(OutReqs, Holding, r)
        /\ Once(OutReqs, Delivering, r)' <=> Once(OutReqs, Delivering, r)
        /\ \A q : Delivered(q)' <=> Delivered(q)
    BY <1>1, <1>4, Unmoved
  <2>4. RequestInv(k, n)
    BY DEF RequestsInv
  <2> HIDE DEF h
  <2>5. OnePlace(r)' /\ (Located(r)' <=> Located(r))
    BY <2>1, <2>2, <2>3, <2>4 DEF OnePlace, Located, RequestInv
  <2> HIDE DEF r
  <2> QED
    BY <1>1, <2>3, <2>4, <2>5 DEF RequestInv, Issued, r
<1> QED
  BY <1>6 DEF RequestsInv

\* PushOutput appends a batch to PerProxyOutputQueue ...
LEMMA AnnouncePush ==
    ASSUME IInv, NEW q \in Proxies, NEW b \in Batch,
           outputQueue' = [outputQueue EXCEPT ![q] = Append(@, b)], NEW r
    PROVE  /\ Announces(r)' <=> Announces(r) \/ HasIn(b.reqs, r)
           /\ AnnouncedOnce(r) /\ OnceIn(b.reqs, r) /\ (HasIn(b.reqs, r) => ~Announces(r))
                  => AnnouncedOnce(r)'
<1> DEFINE L == Len(outputQueue[q])
           u == Append(outputQueue[q], b)
<1>1. outputQueue[q] \in Seq(Batch)
  BY DEF IInv, TypeOK
<1>2. /\ L \in Nat /\ DOMAIN outputQueue[q] = 1 .. L /\ DOMAIN u = 1 .. L + 1
      /\ \A i \in 1 .. L : u[i] = outputQueue[q][i]
      /\ u[L + 1] = b
  BY <1>1, AppendProperties, LenProperties
<1>3. outputQueue'[q] = u /\ \A p \in Proxies \ {q} : outputQueue'[p] = outputQueue[p]
  BY DEF IInv, TypeOK
<1> HIDE DEF L, u
<1>4. Announces(r)' <=> Announces(r) \/ HasIn(b.reqs, r)
  <2>1. ASSUME Announces(r)' PROVE Announces(r) \/ HasIn(b.reqs, r)
    <3>1. PICK p \in Proxies : \E j \in DOMAIN outputQueue'[p] :
                                   HasIn(outputQueue'[p][j].reqs, r)
      BY <2>1 DEF Announces
    <3>2. CASE p = q
      BY <1>2, <1>3, <3>1, <3>2 DEF Announces
    <3>3. CASE p # q
      BY <1>3, <3>1, <3>3 DEF Announces
    <3> QED
      BY <3>2, <3>3
  <2>2. ASSUME Announces(r) PROVE Announces(r)'
    <3>1. PICK p \in Proxies : \E j \in DOMAIN outputQueue[p] :
                                   HasIn(outputQueue[p][j].reqs, r)
      BY <2>2 DEF Announces
    <3>2. CASE p = q
      BY <1>2, <1>3, <3>1, <3>2 DEF Announces
    <3>3. CASE p # q
      BY <1>3, <3>1, <3>3 DEF Announces
    <3> QED
      BY <3>2, <3>3
  <2>3. ASSUME HasIn(b.reqs, r) PROVE Announces(r)'
    <3>1. L + 1 \in DOMAIN outputQueue'[q] /\ HasIn(outputQueue'[q][L + 1].reqs, r)
      BY <1>2, <1>3, <2>3
    <3> QED
      BY <3>1 DEF Announces
  <2> QED
    BY <2>1, <2>2, <2>3
<1>5. ASSUME AnnouncedOnce(r), OnceIn(b.reqs, r), HasIn(b.reqs, r) => ~Announces(r)
      PROVE  AnnouncedOnce(r)'
  <2>1. ASSUME NEW p \in Proxies, NEW j \in DOMAIN outputQueue'[p]
        PROVE  \/ j \in DOMAIN outputQueue[p] /\ outputQueue'[p][j] = outputQueue[p][j]
               \/ p = q /\ j = L + 1 /\ outputQueue'[p][j] = b
    BY <1>2, <1>3, <2>1
  <2>2. ASSUME NEW p \in Proxies, NEW j \in DOMAIN outputQueue'[p],
               NEW p2 \in Proxies, NEW j2 \in DOMAIN outputQueue'[p2],
               HasIn(outputQueue'[p][j].reqs, r), HasIn(outputQueue'[p2][j2].reqs, r)
        PROVE  p = p2 /\ j = j2
    <3>1. CASE HasIn(b.reqs, r)
      BY <1>5, <2>1, <2>2, <3>1 DEF Announces
    <3>2. CASE ~HasIn(b.reqs, r)
      BY <1>5, <2>1, <2>2, <3>2 DEF AnnouncedOnce
    <3> QED
      BY <3>1, <3>2
  <2>3. ASSUME NEW p \in Proxies, NEW j \in DOMAIN outputQueue'[p]
        PROVE  OnceIn(outputQueue'[p][j].reqs, r)
    BY <1>5, <2>1 DEF AnnouncedOnce
  <2> QED
    BY <2>2, <2>3 DEF AnnouncedOnce
<1> QED
  BY <1>4, <1>5

\* ... and TakeOutput takes its first one.
LEMMA AnnouncePop ==
    ASSUME IInv, NEW q \in Proxies, outputQueue[q] # <<>>,
           outputQueue' = [outputQueue EXCEPT ![q] = Tail(@)], NEW r
    PROVE  /\ Announces(r) <=> Announces(r)' \/ HasIn(Head(outputQueue[q]).reqs, r)
           /\ AnnouncedOnce(r) => /\ AnnouncedOnce(r)'
                                  /\ OnceIn(Head(outputQueue[q]).reqs, r)
                                  /\ HasIn(Head(outputQueue[q]).reqs, r) => ~Announces(r)'
<1> DEFINE L == Len(outputQueue[q])
           u == Tail(outputQueue[q])
           h == Head(outputQueue[q])
<1>1. outputQueue[q] \in Seq(Batch)
  BY DEF IInv, TypeOK
<1>2. /\ L \in Nat \ {0} /\ DOMAIN outputQueue[q] = 1 .. L /\ DOMAIN u = 1 .. L - 1
      /\ \A i \in 1 .. L - 1 : u[i] = outputQueue[q][i + 1]
      /\ h = outputQueue[q][1]
  BY <1>1, HeadTailProperties, LenProperties, EmptySeq
<1>3. outputQueue'[q] = u /\ \A p \in Proxies \ {q} : outputQueue'[p] = outputQueue[p]
  BY DEF IInv, TypeOK
<1> HIDE DEF L, u, h
<1> DEFINE at(p, j) == IF p = q THEN j + 1 ELSE j
<1>4. ASSUME NEW p \in Proxies, NEW j \in DOMAIN outputQueue'[p]
      PROVE  /\ at(p, j) \in DOMAIN outputQueue[p]
             /\ outputQueue'[p][j] = outputQueue[p][at(p, j)]
             /\ p = q => at(p, j) # 1
  BY <1>2, <1>3, <1>4
<1>5. ASSUME NEW p \in Proxies, NEW j \in DOMAIN outputQueue[p]
      PROVE  \/ p = q /\ j = 1 /\ outputQueue[p][j] = h
             \/ \E i \in DOMAIN outputQueue'[p] : outputQueue'[p][i] = outputQueue[p][j]
  <2>1. CASE p = q /\ j # 1
    <3>1. j - 1 \in 1 .. L - 1 /\ (j - 1) + 1 = j
      BY <1>2, <1>5, <2>1
    <3> QED
      BY <1>2, <1>3, <2>1, <3>1
  <2> QED
    BY <1>2, <1>3, <1>5, <2>1
<1>6. ASSUME NEW p \in Proxies, NEW j \in DOMAIN outputQueue'[p],
             NEW j2 \in DOMAIN outputQueue'[p], at(p, j) = at(p, j2)
      PROVE  j = j2
  BY <1>2, <1>3, <1>6
<1>7. 1 \in DOMAIN outputQueue[q] /\ outputQueue[q][1] = h
  BY <1>2
<1> HIDE DEF at
<1>8. Announces(r) <=> Announces(r)' \/ HasIn(h.reqs, r)
  <2>1. Announces(r)' => Announces(r)
    BY <1>4 DEF Announces
  <2>2. HasIn(h.reqs, r) => Announces(r)
    BY <1>7 DEF Announces
  <2>3. Announces(r) => Announces(r)' \/ HasIn(h.reqs, r)
    BY <1>5 DEF Announces
  <2> QED
    BY <2>1, <2>2, <2>3
<1>9. ASSUME AnnouncedOnce(r)
      PROVE  /\ AnnouncedOnce(r)' /\ OnceIn(h.reqs, r)
             /\ HasIn(h.reqs, r) => ~Announces(r)'
  <2>1. ASSUME NEW p \in Proxies, NEW j \in DOMAIN outputQueue'[p],
               NEW p2 \in Proxies, NEW j2 \in DOMAIN outputQueue'[p2],
               HasIn(outputQueue'[p][j].reqs, r), HasIn(outputQueue'[p2][j2].reqs, r)
        PROVE  p = p2 /\ j = j2
    BY <1>4, <1>6, <1>9, <2>1 DEF AnnouncedOnce
  <2>2. ASSUME NEW p \in Proxies, NEW j \in DOMAIN outputQueue'[p]
        PROVE  OnceIn(outputQueue'[p][j].reqs, r)
    BY <1>4, <1>9, <2>2 DEF AnnouncedOnce
  <2>3. OnceIn(h.reqs, r)
    BY <1>7, <1>9 DEF AnnouncedOnce
  <2>4. HasIn(h.reqs, r) => ~Announces(r)'
    BY <1>4, <1>7, <1>9 DEF AnnouncedOnce, Announces
  <2> QED
    BY <2>1, <2>2, <2>3, <2>4 DEF AnnouncedOnce
<1> QED
  BY <1>8, <1>9 DEF h

\* A step that moves requests from one place to another, and does nothing else.
LEMMA Relocation ==
    ASSUME RequestsInv, UNCHANGED <<received, scoreBoard>>,
           \A r \in Req : /\ OnePlace(r) => OnePlace(r)' /\ (Located(r)' <=> Located(r))
                          /\ Delivered(r)' <=> Delivered(r)
                          /\ Once(OutReqs, Delivering, r) => Once(OutReqs, Delivering, r)'
    PROVE  RequestsInv'
<1> SUFFICES ASSUME NEW k \in Tasks, NEW n \in Nodes PROVE RequestInv(k, n)'
  BY DEF RequestsInv
<1>1. RequestInv(k, n)
  BY DEF RequestsInv
<1>2. \A m \in Nodes : <<k, m>> \in Req
  BY DEF Req
<1>3. \A m \in Nodes : Delivered(<<k, m>>)' <=> Delivered(<<k, m>>)
  BY <1>2
<1>4. /\ OnePlace(<<k, n>>)' /\ (Located(<<k, n>>)' <=> Located(<<k, n>>))
      /\ Once(OutReqs, Delivering, <<k, n>>)'
  BY <1>1, <1>2 DEF RequestInv
<1> QED
  BY <1>1, <1>3, <1>4 DEF RequestInv, Issued

\* The batch of a thread is announced: its requests leave the thread.
LEMMA PushOutputMoves ==
    ASSUME IInv, RequestsInv, NEW t \in Batchers, PushOutput(t)
    PROVE  RequestsInv'
<1> DEFINE q == ProxyOf[t]
           b == [model |-> task[t], reqs |-> batch[t]]
<1>1. /\ bpc[t] = "pushing" /\ bpc' = [bpc EXCEPT ![t] = "sending"]
      /\ outputQueue' = [outputQueue EXCEPT ![q] = Append(@, b)]
      /\ UNCHANGED <<batch, reqQueue, outVars, received, scoreBoard>>
  BY DEF PushOutput, GoTo, BatcherRest, appVars
<1>2. q \in Proxies /\ b \in Batch /\ b.reqs = batch[t] /\ bpc \in [Batchers -> BatcherPC]
  BY <1>1, ConstantsAssumption DEF IInv, TypeOK, BatcherTypeOK, Batch
<1>3. /\ t \in Gathering /\ Gathering' = Gathering \ {t}
      /\ OutReqs' = OutReqs /\ Holding' = Holding /\ Delivering' = Delivering
      /\ \A a \in Gathering' : batch'[a] = batch[a]
  BY <1>1, <1>2 DEF outVars, Gathering, OutReqs, Holding, Delivering
<1> HIDE DEF q, b
<1>4. ASSUME NEW r \in Req
      PROVE  /\ OnePlace(r) => OnePlace(r)' /\ (Located(r)' <=> Located(r))
             /\ Delivered(r)' <=> Delivered(r)
             /\ Once(OutReqs, Delivering, r) => Once(OutReqs, Delivering, r)'
  <2>1. /\ Announces(r)' <=> Announces(r) \/ HasIn(batch[t], r)
        /\ AnnouncedOnce(r) /\ OnceIn(batch[t], r) /\ (HasIn(batch[t], r) => ~Announces(r))
               => AnnouncedOnce(r)'
    BY <1>1, <1>2, AnnouncePush
  <2>2. /\ Batched(r) <=> Batched(r)' \/ HasIn(batch[t], r)
        /\ Once(batch, Gathering, r) => /\ Once(batch, Gathering, r)'
                                        /\ OnceIn(batch[t], r)
                                        /\ HasIn(batch[t], r) => ~Batched(r)'
    <3>1. Joins(batch', batch, Gathering', Gathering, t)
      BY <1>3 DEF Joins
    <3> QED
      BY <3>1, HasLeave DEF Batched
  <2>3. /\ Queued(r)' <=> Queued(r)
        /\ Once(reqQueue, Models, r)' <=> Once(reqQueue, Models, r)
        /\ Executed(r)' <=> Executed(r)
        /\ Once(OutReqs, Holding, r)' <=> Once(OutReqs, Holding, r)
        /\ Delivered(r)' <=> Delivered(r)
        /\ Once(OutReqs, Delivering, r)' <=> Once(OutReqs, Delivering, r)
    BY <1>1, <1>3, Unmoved
  <2> QED
    BY <2>1, <2>2, <2>3 DEF OnePlace, Located
<1> QED
  BY <1>1, <1>4, Relocation

\* The batch of a thread was sent: the thread starts anew with an empty one.
LEMMA SendToBackendMoves ==
    ASSUME IInv, RequestsInv, NEW t \in Batchers, SendToBackend(t)
    PROVE  RequestsInv'
<1>1. /\ bpc[t] = "sending" /\ bpc' = [bpc EXCEPT ![t] = "idle"]
      /\ batch' = [batch EXCEPT ![t] = <<>>]
      /\ UNCHANGED <<outputQueue, reqQueue, outVars, received, scoreBoard>>
  BY DEF SendToBackend, GoTo, BatcherRest, appVars
<1>2. bpc \in [Batchers -> BatcherPC] /\ batch \in [Batchers -> Seq(Req)]
  BY DEF IInv, TypeOK, BatcherTypeOK
<1>3. /\ t \notin Gathering /\ Gathering' = Gathering \cup {t}
      /\ OutReqs' = OutReqs /\ Holding' = Holding /\ Delivering' = Delivering
      /\ \A a \in Gathering : batch'[a] = batch[a]
      /\ batch'[t] = <<>>
  BY <1>1, <1>2 DEF outVars, Gathering, OutReqs, Holding, Delivering
<1>4. ASSUME NEW r \in Req
      PROVE  /\ OnePlace(r) => OnePlace(r)' /\ (Located(r)' <=> Located(r))
             /\ Delivered(r)' <=> Delivered(r)
             /\ Once(OutReqs, Delivering, r) => Once(OutReqs, Delivering, r)'
  <2>1. ~HasIn(batch'[t], r) /\ OnceIn(batch'[t], r)
    BY <1>3, EmptyHasNone
  <2>2. /\ Batched(r)' <=> Batched(r)
        /\ Once(batch, Gathering, r) => Once(batch, Gathering, r)'
    <3>1. Joins(batch, batch', Gathering, Gathering', t)
      BY <1>3 DEF Joins
    <3> QED
      BY <2>1, <3>1, HasJoin DEF Batched
  <2>3. /\ Queued(r)' <=> Queued(r)
        /\ Once(reqQueue, Models, r)' <=> Once(reqQueue, Models, r)
        /\ Announces(r)' <=> Announces(r)
        /\ AnnouncedOnce(r)' <=> AnnouncedOnce(r)
        /\ Executed(r)' <=> Executed(r)
        /\ Once(OutReqs, Holding, r)' <=> Once(OutReqs, Holding, r)
        /\ Delivered(r)' <=> Delivered(r)
        /\ Once(OutReqs, Delivering, r)' <=> Once(OutReqs, Delivering, r)
    BY <1>1, <1>3, Unmoved
  <2> QED
    BY <2>2, <2>3 DEF OnePlace, Located
<1> QED
  BY <1>1, <1>4, Relocation

\* An output thread takes the first announced batch of its proxy.
LEMMA TakeOutputMoves ==
    ASSUME IInv, RequestsInv, NEW o \in Outputs, TakeOutput(o)
    PROVE  RequestsInv'
<1> DEFINE q == ProxyOf[o]
           h == Head(outputQueue[q])
<1>1. /\ outputQueue[q] # <<>> /\ opc[o] = "idle" /\ opc' = [opc EXCEPT ![o] = "recv"]
      /\ obatch' = [obatch EXCEPT ![o] = h]
      /\ outputQueue' = [outputQueue EXCEPT ![q] = Tail(@)]
      /\ UNCHANGED <<batchVars, reqQueue, received, scoreBoard>>
  BY DEF TakeOutput, OGoTo, OutputRest, appVars
<1>2. /\ q \in Proxies /\ opc \in [Outputs -> OutputPC]
      /\ obatch \in [Outputs -> Batch \cup {NoBatch}]
  BY ConstantsAssumption DEF IInv, TypeOK, OutputTypeOK
<1>3. /\ batch' = batch /\ Gathering' = Gathering
      /\ o \notin Holding /\ Holding' = Holding \cup {o}
      /\ o \notin Delivering /\ Delivering' = Delivering
  BY <1>1, <1>2 DEF batchVars, Gathering, Holding, Delivering
<1>4. OutReqs'[o] = h.reqs /\ \A a \in Outputs \ {o} : OutReqs'[a] = OutReqs[a]
  BY <1>1, <1>2 DEF OutReqs
<1> HIDE DEF q, h
<1>5. ASSUME NEW r \in Req
      PROVE  /\ OnePlace(r) => OnePlace(r)' /\ (Located(r)' <=> Located(r))
             /\ Delivered(r)' <=> Delivered(r)
             /\ Once(OutReqs, Delivering, r) => Once(OutReqs, Delivering, r)'
  <2>1. /\ Announces(r) <=> Announces(r)' \/ HasIn(h.reqs, r)
        /\ AnnouncedOnce(r) => /\ AnnouncedOnce(r)' /\ OnceIn(h.reqs, r)
                               /\ HasIn(h.reqs, r) => ~Announces(r)'
    BY <1>1, <1>2, AnnouncePop DEF h
  <2>2. /\ Executed(r)' <=> Executed(r) \/ HasIn(h.reqs, r)
        /\ Once(OutReqs, Holding, r) /\ OnceIn(h.reqs, r)
           /\ (HasIn(h.reqs, r) => ~Executed(r)) => Once(OutReqs, Holding, r)'
    <3>1. Joins(OutReqs, OutReqs', Holding, Holding', o)
      BY <1>3, <1>4 DEF Holding, Joins
    <3> QED
      BY <1>4, <3>1, HasJoin DEF Executed
  <2>3. /\ Delivered(r)' <=> Delivered(r)
        /\ Once(OutReqs, Delivering, r)' <=> Once(OutReqs, Delivering, r)
    <3>1. \A a \in Delivering : OutReqs'[a] = OutReqs[a]
      BY <1>3, <1>4 DEF Delivering
    <3> QED
      BY <1>3, <3>1 DEF Delivered, Has, Once
  <2>4. /\ Queued(r)' <=> Queued(r)
        /\ Once(reqQueue, Models, r)' <=> Once(reqQueue, Models, r)
        /\ Batched(r)' <=> Batched(r)
        /\ Once(batch, Gathering, r)' <=> Once(batch, Gathering, r)
    BY <1>1, <1>3, Unmoved
  <2> QED
    BY <2>1, <2>2, <2>3, <2>4 DEF OnePlace, Located
<1> QED
  BY <1>1, <1>5, Relocation

\* The requests of a batch are marked finished: from now on they are nowhere.
LEMMA AllocateOutputMoves ==
    ASSUME IInv, RequestsInv, NEW o \in Outputs, AllocateOutput(o)
    PROVE  RequestsInv'
<1> DEFINE H(r) == HasIn(OutReqs[o], r)
<1>1. /\ opc[o] = "allocate" /\ opc' = [opc EXCEPT ![o] = "deliver"]
      /\ scoreBoard' = [k \in Tasks |-> scoreBoard[k] \cup
                           {n \in Nodes : \E i \in DOMAIN obatch[o].reqs :
                                              obatch[o].reqs[i] = <<k, n>>}]
      /\ UNCHANGED <<obatch, received, batchVars, reqQueue, outputQueue>>
  BY DEF AllocateOutput, OGoTo, OutputRest
<1>2. opc \in [Outputs -> OutputPC]
  BY DEF IInv, TypeOK, OutputTypeOK
<1>3. /\ batch' = batch /\ Gathering' = Gathering /\ OutReqs' = OutReqs
      /\ o \in Holding /\ Holding' = Holding \ {o}
      /\ o \notin Delivering /\ Delivering' = Delivering \cup {o}
  BY <1>1, <1>2 DEF batchVars, Gathering, OutReqs, Holding, Delivering
<1>4. \A k \in Tasks, n \in Nodes :
         n \in scoreBoard'[k] <=> n \in scoreBoard[k] \/ H(<<k, n>>)
  BY <1>1 DEF HasIn, OutReqs
<1> HIDE DEF H
<1>5. ASSUME NEW r
      PROVE  /\ Executed(r) <=> Executed(r)' \/ H(r)
             /\ Once(OutReqs, Holding, r) => /\ Once(OutReqs, Holding, r)'
                                             /\ OnceIn(OutReqs[o], r)
                                             /\ H(r) => ~Executed(r)'
  <2>1. Joins(OutReqs', OutReqs, Holding', Holding, o)
    BY <1>3 DEF Joins
  <2> QED
    BY <2>1, HasLeave DEF Executed, H
<1>6. ASSUME NEW r
      PROVE  /\ Delivered(r)' <=> Delivered(r) \/ H(r)
             /\ Once(OutReqs, Delivering, r) /\ OnceIn(OutReqs[o], r)
                /\ (H(r) => ~Delivered(r)) => Once(OutReqs, Delivering, r)'
  <2>1. Joins(OutReqs, OutReqs', Delivering, Delivering', o)
    BY <1>3 DEF Joins
  <2> QED
    BY <1>3, <2>1, HasJoin DEF Delivered, H
<1>7. ASSUME NEW k \in Tasks, NEW n \in Nodes PROVE RequestInv(k, n)'
  <2> DEFINE r == <<k, n>>
  <2>1. RequestInv(k, n) /\ \A m \in Nodes : RequestInv(k, m)
    BY DEF RequestsInv
  <2>2. /\ Queued(r)' <=> Queued(r)
        /\ Once(reqQueue, Models, r)' <=> Once(reqQueue, Models, r)
        /\ Batched(r)' <=> Batched(r)
        /\ Once(batch, Gathering, r)' <=> Once(batch, Gathering, r)
        /\ Announces(r)' <=> Announces(r)
        /\ AnnouncedOnce(r)' <=> AnnouncedOnce(r)
    BY <1>1, <1>3, Unmoved
  <2>3. /\ Executed(r) <=> Executed(r)' \/ H(r)
        /\ Once(OutReqs, Holding, r) => /\ Once(OutReqs, Holding, r)'
                                        /\ OnceIn(OutReqs[o], r)
                                        /\ H(r) => ~Executed(r)'
    BY <1>5
  <2>4. OnePlace(r)'
    BY <2>1, <2>2, <2>3 DEF OnePlace, RequestInv
  <2>5. H(r) => ~Located(r)'
    BY <2>1, <2>2, <2>3 DEF OnePlace, RequestInv, Located
  <2>6. Located(r) <=> Located(r)' \/ H(r)
    BY <2>2, <2>3 DEF Located
  <2>7. n \in scoreBoard'[k] <=> n \in scoreBoard[k] \/ H(r)
    BY <1>4
  <2>8. Issued(k, n)' <=> Issued(k, n)
    BY <2>6, <2>7 DEF Issued
  <2>9. Once(OutReqs, Delivering, r)'
    <3>1. H(r) => ~Delivered(r)
      BY <2>1, <2>6 DEF RequestInv
    <3>2. OnceIn(OutReqs[o], r)
      BY <2>1, <2>3 DEF OnePlace, RequestInv
    <3> QED
      BY <1>6, <2>1, <3>1, <3>2 DEF RequestInv
  <2>10. \A m \in Nodes : m \in scoreBoard[k] => ~H(<<k, m>>)
    BY <1>5, <2>1 DEF RequestInv, Located
  <2>11. \A m \in Nodes : n \in Succ[m] /\ Issued(k, n)'
             => m \in scoreBoard'[k] /\ ~Delivered(<<k, m>>)'
    <3> SUFFICES ASSUME NEW m \in Nodes, n \in Succ[m], Issued(k, n)'
                 PROVE  m \in scoreBoard'[k] /\ ~Delivered(<<k, m>>)'
      OBVIOUS
    <3>1. m \in scoreBoard[k] /\ ~Delivered(<<k, m>>)
      BY <2>1, <2>8 DEF RequestInv
    <3> QED
      BY <1>4, <1>6, <2>10, <3>1
  <2>12. Delivered(r)' => n \in scoreBoard'[k]
    BY <1>6, <2>1, <2>7 DEF RequestInv
  <2>13. n \in scoreBoard'[k] => ~Located(r)'
    BY <2>1, <2>5, <2>6, <2>7 DEF RequestInv
  <2>14. /\ n \in Entry => (n \in received'[k] <=> Issued(k, n)')
         /\ n \in received'[k] => n \in Entry
    BY <1>1, <2>1, <2>8 DEF RequestInv
  <2> QED
    BY <2>4, <2>9, <2>11, <2>12, <2>13, <2>14 DEF RequestInv
<1> QED
  BY <1>7 DEF RequestsInv

\* The result of the first request of the batch is delivered: its successors,
\* which were nowhere, are queued, or its task is complete.
LEMMA sendBatchedResultsMoves ==
    ASSUME TreeApplication, IInv, RequestsInv, NEW o \in Outputs, sendBatchedResults(o)
    PROVE  RequestsInv'
<1>1. obatch \in [Outputs -> Batch \cup {NoBatch}] /\ obatch[o] \in Batch
  BY DEF sendBatchedResults, IInv, TypeOK, OutputTypeOK
<1>2. obatch[o].reqs \in Seq(Req) /\ obatch[o].reqs # <<>>
  BY <1>1 DEF Batch, sendBatchedResults
<1>3. Head(obatch[o].reqs) \in Req
  BY <1>2, HeadTailProperties
<1>4. PICK l \in Tasks, c \in Nodes : Head(obatch[o].reqs) = <<l, c>>
  BY <1>3 DEF Req
<1> DEFINE new(r) == ~isFinished(l) /\ r \in {<<l, a>> : a \in Succ[c]}
<1>5. /\ opc[o] = "deliver"
      /\ isFinished(l) => UNCHANGED reqQueue
      /\ ~isFinished(l) => addtoModelQueue(l, Succ[c])
      /\ obatch' = [obatch EXCEPT ![o].reqs = Tail(@)]
      /\ UNCHANGED <<opc, received, scoreBoard, batchVars, outputQueue>>
      /\ Succ[c] \in SUBSET Nodes
  <2> DEFINE h == Head(obatch[o].reqs)
  <2>1. h[1] = l /\ h[2] = c
    BY <1>4
  <2>2. /\ isFinished(h[1]) => UNCHANGED reqQueue
        /\ ~isFinished(h[1]) => addtoModelQueue(h[1], Succ[h[2]])
    BY DEF sendBatchedResults
  <2>3. /\ isFinished(l) => UNCHANGED reqQueue
        /\ ~isFinished(l) => addtoModelQueue(l, Succ[c])
    BY <2>1, <2>2
  <2>4. /\ opc[o] = "deliver"
        /\ obatch' = [obatch EXCEPT ![o].reqs = Tail(@)]
        /\ UNCHANGED <<opc, received, scoreBoard, batchVars, outputQueue>>
    BY DEF sendBatchedResults, OutputRest
  <2> QED
    BY <2>3, <2>4, ConstantsAssumption
<1>6. /\ batch' = batch /\ Gathering' = Gathering /\ Holding' = Holding
      /\ Delivering' = Delivering /\ o \in Delivering /\ o \notin Holding
  BY <1>5 DEF batchVars, Gathering, Holding, Delivering
<1>7. /\ OutReqs'[o] = Tail(OutReqs[o]) /\ OutReqs[o] = obatch[o].reqs
      /\ \A a \in Outputs \ {o} : OutReqs'[a] = OutReqs[a]
  BY <1>1, <1>5 DEF OutReqs, Batch
<1>8. Drops(OutReqs, OutReqs', Delivering, o)
  BY <1>2, <1>6, <1>7 DEF Drops, Delivering
<1>9. ASSUME NEW r
      PROVE  /\ r = <<l, c>> => Delivered(r)
             /\ Delivered(r)' => Delivered(r)
             /\ Once(OutReqs, Delivering, r) => Once(OutReqs, Delivering, r)'
             /\ Once(OutReqs, Delivering, r) /\ r = <<l, c>> => ~Delivered(r)'
  <2>1. <<l, c>> = Head(OutReqs[o])
    BY <1>4, <1>7
  <2> QED
    BY <1>6, <1>8, <2>1, HasTail DEF Delivered
<1>10. ASSUME NEW r
       PROVE  /\ Executed(r)' <=> Executed(r)
              /\ Once(OutReqs, Holding, r)' <=> Once(OutReqs, Holding, r)
  <2>1. \A a \in Holding : OutReqs'[a] = OutReqs[a]
    BY <1>6, <1>7 DEF Holding
  <2> QED
    BY <1>6, <2>1 DEF Executed, Has, Once
<1>11. c \in scoreBoard[l] /\ Delivered(<<l, c>>) /\ ~Delivered(<<l, c>>)'
  <2>1. RequestInv(l, c)
    BY DEF RequestsInv
  <2> QED
    BY <1>9, <2>1 DEF RequestInv
<1>12. ASSUME NEW r \in Req
       PROVE  /\ Queued(r)' <=> Queued(r) \/ new(r)
              /\ Once(reqQueue, Models, r) /\ (new(r) => ~Queued(r))
                    => Once(reqQueue, Models, r)'
  <2>1. CASE isFinished(l)
    BY <1>5, <2>1, Unmoved
  <2>2. CASE ~isFinished(l)
    <3>1. \A a, b \in Succ[c] : ModelOf[a] = ModelOf[b] => a = b
      BY DEF TreeApplication
    <3> QED
      BY <1>5, <2>2, <3>1, QueueAdd
  <2> QED
    BY <2>1, <2>2
<1>13. ASSUME NEW n \in Nodes, n \in Succ[c]
       PROVE  /\ ~Issued(l, n) /\ n \notin Entry
              /\ \A m \in Nodes : n \in Succ[m] => m = c
  <2>1. RequestInv(l, n)
    BY DEF RequestsInv
  <2>2. ~Issued(l, n)
    BY <1>11, <1>13, <2>1 DEF RequestInv
  <2>3. n \notin Entry /\ \A m \in Nodes : n \in Succ[m] => m = c
    BY <1>13 DEF TreeApplication
  <2> QED
    BY <2>2, <2>3
<1>14. ASSUME NEW k \in Tasks, NEW n \in Nodes PROVE RequestInv(k, n)'
  <2> DEFINE r == <<k, n>>
  <2>1. RequestInv(k, n) /\ r \in Req
    BY DEF RequestsInv, Req
  <2>2. new(r) => k = l /\ n \in Succ[c]
    BY <2>1
  <2>3. /\ Queued(r)' <=> Queued(r) \/ new(r)
        /\ Once(reqQueue, Models, r) /\ (new(r) => ~Queued(r))
              => Once(reqQueue, Models, r)'
    BY <1>12, <2>1
  <2>4. /\ Batched(r)' <=> Batched(r)
        /\ Once(batch, Gathering, r)' <=> Once(batch, Gathering, r)
        /\ Announces(r)' <=> Announces(r)
        /\ AnnouncedOnce(r)' <=> AnnouncedOnce(r)
    BY <1>5, <1>6, Unmoved
  <2>5. /\ Executed(r)' <=> Executed(r)
        /\ Once(OutReqs, Holding, r)' <=> Once(OutReqs, Holding, r)
    BY <1>10
  <2>6. new(r) => /\ ~Issued(k, n) /\ n \notin Entry
                  /\ \A m \in Nodes : n \in Succ[m] => m = c
    BY <1>13, <2>2
  <2> HIDE DEF new, r
  <2>7. new(r) => ~Located(r) /\ n \notin scoreBoard[k]
    BY <2>6 DEF Issued, r
  <2>8. OnePlace(r)'
    BY <2>1, <2>3, <2>4, <2>5, <2>7 DEF OnePlace, Located, RequestInv, r
  <2>9. Located(r)' <=> Located(r) \/ new(r)
    BY <2>3, <2>4, <2>5 DEF Located
  <2>10. Issued(k, n)' <=> Issued(k, n) \/ new(r)
    BY <1>5, <2>9 DEF Issued, r
  <2>11. \A m \in Nodes : n \in Succ[m] /\ Issued(k, n)'
             => m \in scoreBoard'[k] /\ ~Delivered(<<k, m>>)'
    <3> SUFFICES ASSUME NEW m \in Nodes, n \in Succ[m], Issued(k, n)'
                 PROVE  m \in scoreBoard[k] /\ ~Delivered(<<k, m>>)'
      BY <1>5
    <3>1. CASE new(r)
      BY <1>11, <2>2, <2>6, <3>1
    <3>2. CASE Issued(k, n)
      <4>1. m \in scoreBoard[k] /\ ~Delivered(<<k, m>>)
        BY <2>1, <3>2 DEF RequestInv
      <4> QED
        BY <1>9, <4>1
    <3> QED
      BY <2>10, <3>1, <3>2
  <2>12. Once(OutReqs, Delivering, r)' /\ (Delivered(r)' => n \in scoreBoard'[k])
    BY <1>5, <1>9, <2>1 DEF RequestInv, r
  <2>13. n \in scoreBoard'[k] => ~Located(r)'
    BY <1>5, <2>1, <2>7, <2>9 DEF RequestInv, r
  <2>14. /\ n \in Entry => (n \in received'[k] <=> Issued(k, n)')
         /\ n \in received'[k] => n \in Entry
    BY <1>5, <2>1, <2>6, <2>10 DEF RequestInv
  <2> QED
    BY <2>8, <2>11, <2>12, <2>13, <2>14 DEF RequestInv, r
<1> QED
  BY <1>14 DEF RequestsInv

\* Every result was delivered: the thread holds no request any more.
LEMMA DeliverEndMoves ==
    ASSUME IInv, RequestsInv, NEW o \in Outputs, DeliverEnd(o)
    PROVE  RequestsInv'
<1>1. /\ opc[o] = "deliver" /\ opc' = [opc EXCEPT ![o] = "idle"]
      /\ obatch[o].reqs = <<>> /\ obatch' = [obatch EXCEPT ![o] = NoBatch]
      /\ UNCHANGED <<received, scoreBoard, batchVars, reqQueue, outputQueue>>
  BY DEF DeliverEnd, OGoTo, OutputRest, appVars
<1>2. /\ opc \in [Outputs -> OutputPC]
      /\ obatch \in [Outputs -> Batch \cup {NoBatch}]
  BY DEF IInv, TypeOK, OutputTypeOK
<1>3. /\ batch' = batch /\ Gathering' = Gathering /\ Holding' = Holding
      /\ o \in Delivering /\ Delivering' = Delivering \ {o}
  BY <1>1, <1>2 DEF batchVars, Gathering, Holding, Delivering
<1>4. OutReqs[o] = <<>> /\ OutReqs' = OutReqs
  BY <1>1, <1>2 DEF OutReqs, NoBatch
<1>5. ASSUME NEW r \in Req
      PROVE  /\ OnePlace(r) => OnePlace(r)' /\ (Located(r)' <=> Located(r))
             /\ Delivered(r)' <=> Delivered(r)
             /\ Once(OutReqs, Delivering, r) => Once(OutReqs, Delivering, r)'
  <2>1. /\ Delivered(r)' <=> Delivered(r)
        /\ Once(OutReqs, Delivering, r) => Once(OutReqs, Delivering, r)'
    <3>1. Joins(OutReqs', OutReqs, Delivering', Delivering, o)
      BY <1>3, <1>4 DEF Joins
    <3>2. ~HasIn(OutReqs[o], r)
      BY <1>4, EmptyHasNone
    <3> QED
      BY <3>1, <3>2, HasLeave DEF Delivered
  <2>2. /\ Queued(r)' <=> Queued(r)
        /\ Once(reqQueue, Models, r)' <=> Once(reqQueue, Models, r)
        /\ Batched(r)' <=> Batched(r)
        /\ Once(batch, Gathering, r)' <=> Once(batch, Gathering, r)
        /\ Announces(r)' <=> Announces(r)
        /\ AnnouncedOnce(r)' <=> AnnouncedOnce(r)
        /\ Executed(r)' <=> Executed(r)
        /\ Once(OutReqs, Holding, r)' <=> Once(OutReqs, Holding, r)
    BY <1>1, <1>3, <1>4, Unmoved
  <2> QED
    BY <2>1, <2>2 DEF OnePlace, Located
<1> QED
  BY <1>1, <1>5, Relocation

-----------------------------------------------------------------------------
(***************************************************************************)
(* The invariant.                                                          *)
(***************************************************************************)

\* At the start no request was issued.
LEMMA InitRequests == Init => RequestsInv
<1> SUFFICES ASSUME Init, NEW k \in Tasks, NEW n \in Nodes PROVE RequestInv(k, n)
  BY DEF RequestsInv
<1>1. \A m \in Models : reqQueue[m] = <<>>
  BY DEF Init
<1>2. \A t \in Batchers : batch[t] = <<>>
  BY DEF Init
<1>3. \A p \in Proxies : outputQueue[p] = <<>> /\ DOMAIN outputQueue[p] = {}
  BY DEF Init
<1>4. Holding = {} /\ Delivering = {}
  BY DEF Init, Holding, Delivering
<1>5. received[k] = {} /\ scoreBoard[k] = {}
  BY DEF Init
<1>6. ASSUME NEW r
      PROVE  /\ ~Queued(r) /\ Once(reqQueue, Models, r)
             /\ ~Batched(r) /\ Once(batch, Gathering, r)
             /\ ~Announces(r) /\ AnnouncedOnce(r)
             /\ ~Executed(r) /\ Once(OutReqs, Holding, r)
             /\ ~Delivered(r) /\ Once(OutReqs, Delivering, r)
  <2>1. ~Queued(r) /\ Once(reqQueue, Models, r)
    BY <1>1, EmptyHasNone DEF Queued, Has, Once
  <2>2. ~Batched(r) /\ Once(batch, Gathering, r)
    BY <1>2, EmptyHasNone DEF Batched, Has, Once, Gathering
  <2>3. ~Announces(r) /\ AnnouncedOnce(r)
    BY <1>3 DEF Announces, AnnouncedOnce
  <2>4. /\ ~Executed(r) /\ Once(OutReqs, Holding, r)
        /\ ~Delivered(r) /\ Once(OutReqs, Delivering, r)
    BY <1>4 DEF Executed, Delivered, Has, Once
  <2> QED
    BY <2>1, <2>2, <2>3, <2>4
<1> QED
  BY <1>5, <1>6 DEF RequestInv, OnePlace, Located, Issued

\* The client, the drop thread, the scheduler, the unloaders and the data path
\* behind the frontend leave the requests where they are.
LEMMA OthersStill ==
    ASSUME RequestsInv,
           UNCHANGED <<received, scoreBoard, reqQueue, batchVars, outVars, outputQueue>>
    PROVE  RequestsInv'
<1>1. Gathering' = Gathering /\ Holding' = Holding /\ Delivering' = Delivering
  BY DEF batchVars, outVars, Gathering, Holding, Delivering
<1> QED
  BY <1>1, RequestsQuiet DEF batchVars, outVars

\* A batching thread between two steps that move requests.
LEMMA BatcherStill ==
    ASSUME IInv, RequestsInv, NEW t \in Batchers,
           \/ TakeTask(t) \/ StartBatching(t) \/ CloseBatch(t) \/ StartExec(t)
           \/ EndBatching(t) \/ LockSend(t)
    PROVE  RequestsInv'
<1>1. /\ UNCHANGED <<received, scoreBoard, reqQueue, batch, outVars, outputQueue>>
      /\ bpc[t] # "sending"
      /\ \/ bpc' = bpc
         \/ \E x \in BatcherPC \ {"sending"} : bpc' = [bpc EXCEPT ![t] = x]
  BY DEF TakeTask, StartBatching, CloseBatch, StartExec, EndBatching, LockSend,
     GoTo, BatcherPC, batchVars, BatcherRest, appVars
<1>2. bpc \in [Batchers -> BatcherPC]
  BY DEF IInv, TypeOK, BatcherTypeOK
<1>3. Gathering' = Gathering /\ Holding' = Holding /\ Delivering' = Delivering
  BY <1>1, <1>2 DEF outVars, Gathering, Holding, Delivering
<1> QED
  BY <1>1, <1>3, RequestsQuiet DEF outVars

\* An output thread receives its result and ends the execution of its batch.
LEMMA OutputStill ==
    ASSUME IInv, RequestsInv, NEW o \in Outputs, RecvResult(o) \/ EndExec(o)
    PROVE  RequestsInv'
<1>1. /\ UNCHANGED <<received, scoreBoard, reqQueue, batchVars, obatch, outputQueue>>
      /\ opc[o] \in {"recv", "endexec"}
      /\ \E x \in {"endexec", "allocate"} : opc' = [opc EXCEPT ![o] = x]
  BY DEF RecvResult, EndExec, OGoTo, OutputRest, appVars
<1>2. opc \in [Outputs -> OutputPC]
  BY DEF IInv, TypeOK, OutputTypeOK
<1>3. Gathering' = Gathering /\ Holding' = Holding /\ Delivering' = Delivering
  BY <1>1, <1>2 DEF batchVars, Gathering, Holding, Delivering
<1> QED
  BY <1>1, <1>3, RequestsQuiet DEF batchVars

\* Every step keeps every request in its place.
LEMMA NextRequests ==
    ASSUME TreeApplication, IInv, RequestsInv, [Next]_vars
    PROVE  RequestsInv'
<1>1. CASE \E k \in Tasks, n \in Nodes : handleRequest(k, n)
  BY <1>1, handleRequestMoves
<1>2. CASE initApp
  BY <1>2, OthersStill DEF initApp
<1>3. CASE Dropper
  BY <1>3, OthersStill DEF Dropper, DropCopy, DropLock, DropExpired,
     DropScanEnd, DropRest
<1>4. CASE Scheduler
  BY <1>4, OthersStill DEF Scheduler, staticMPSScheduler, doMPSScheduling,
     applyRoutingFlush, applyRoutingInstall, appVars
<1>5. CASE Loader
  BY <1>5, OthersStill DEF Loader, loadModel_sync, appVars
<1>6. CASE \E p \in Proxies : Unloader(p)
  BY <1>6, OthersStill DEF Unloader, UnloadNext, UnloadCheckSize,
     UnloadCheckBatching, UnloadCheckExec, UnloadEnd, UnloadRest, appVars
<1>7. CASE \E t \in Batchers : Batcher(t)
  BY <1>7, BatcherStill, AddRequestMoves, PushOutputMoves, SendToBackendMoves
     DEF Batcher
<1>8. CASE \E p \in Proxies : \/ recvBatchedTensor(p) \/ enqueueForwarded(p)
                              \/ proxyCompute(p) \/ dequeueAwaited(p)
                              \/ receiveandsendOutput(p)
  BY <1>8, OthersStill DEF recvBatchedTensor, enqueueForwarded, proxyCompute,
     dequeueAwaited, receiveandsendOutput, WireRest, appVars
<1>9. CASE \E o \in Outputs : Output(o)
  BY <1>9, OutputStill, TakeOutputMoves, AllocateOutputMoves,
     sendBatchedResultsMoves, DeliverEndMoves DEF Output
<1>10. CASE UNCHANGED vars
  BY <1>10, OthersStill DEF vars, appVars
<1> QED
  BY <1>1, <1>2, <1>3, <1>4, <1>5, <1>6, <1>7, <1>8, <1>9, <1>10 DEF Next

\* In an application that is a tree, every request is issued once and is in
\* its place in every reachable state.
THEOREM RequestsInvariance ==
    ASSUME TreeApplication
    PROVE  Spec => [](IInv /\ RequestsInv)
<1>1. Init => IInv /\ RequestsInv
  BY InitIInv, InitRequests
<1>2. (IInv /\ RequestsInv) /\ [Next]_vars => (IInv /\ RequestsInv)'
  BY NextIInv, NextRequests
<1> QED
  BY <1>1, <1>2, PTL DEF Spec

\* The places of a request are those where it occurs.
LEMMA PlacesOf ==
    ASSUME NEW r, NEW x
    PROVE  x \in Places(r) <=>
        \/ \E m \in Models : \E i \in DOMAIN reqQueue[m] :
               reqQueue[m][i] = r /\ x = <<"queued", m, i>>
        \/ \E t \in Gathering : \E i \in DOMAIN batch[t] :
               batch[t][i] = r /\ x = <<"batched", t, i>>
        \/ \E p \in Proxies : \E j \in DOMAIN outputQueue[p] :
               \E i \in DOMAIN outputQueue[p][j].reqs :
                   outputQueue[p][j].reqs[i] = r /\ x = <<"announced", p, j, i>>
        \/ \E o \in Holding : \E i \in DOMAIN OutReqs[o] :
               OutReqs[o][i] = r /\ x = <<"executed", o, i>>
<1> DEFINE Q == UNION {{<<"queued", m, i>> : i \in Positions(reqQueue[m], r)} : m \in Models}
           B == UNION {{<<"batched", t, i>> : i \in Positions(batch[t], r)} :
                           t \in {u \in Batchers : bpc[u] # "sending"}}
           A == UNION {UNION {{<<"announced", p, j, i>> :
                                   i \in Positions(outputQueue[p][j].reqs, r)} :
                           j \in DOMAIN outputQueue[p]} : p \in Proxies}
           E == UNION {{<<"executed", o, i>> : i \in Positions(obatch[o].reqs, r)} :
                           o \in {u \in Outputs : opc[u] \in {"recv", "endexec", "allocate"}}}
<1>1. x \in Q <=> \E m \in Models : \E i \in DOMAIN reqQueue[m] :
                      reqQueue[m][i] = r /\ x = <<"queued", m, i>>
  BY DEF Positions
<1>2. x \in B <=> \E t \in Gathering : \E i \in DOMAIN batch[t] :
                      batch[t][i] = r /\ x = <<"batched", t, i>>
  BY DEF Positions, Gathering
<1>3. x \in A <=> \E p \in Proxies : \E j \in DOMAIN outputQueue[p] :
                      \E i \in DOMAIN outputQueue[p][j].reqs :
                          outputQueue[p][j].reqs[i] = r /\ x = <<"announced", p, j, i>>
  BY DEF Positions
<1>4. x \in E <=> \E o \in Holding : \E i \in DOMAIN OutReqs[o] :
                      OutReqs[o][i] = r /\ x = <<"executed", o, i>>
  BY DEF Positions, Holding, OutReqs
<1>5. Places(r) = ((Q \cup B) \cup A) \cup E
  BY DEF Places
<1> HIDE DEF Q, B, A, E
<1>6. x \in Places(r) <=> x \in Q \/ x \in B \/ x \in A \/ x \in E
  BY <1>5
<1> QED
  BY <1>1, <1>2, <1>3, <1>4, <1>6

\* A request that is in one place at most has at most one element in Places,
\* and one at least when it is somewhere.
LEMMA PlacesCount ==
    ASSUME NEW r, OnePlace(r)
    PROVE  /\ Cardinality(Places(r)) <= 1
           /\ Places(r) # {} <=> Located(r)
<1> DEFINE Q(x, m, i) == m \in Models /\ i \in DOMAIN reqQueue[m] /\ reqQueue[m][i] = r
                            /\ x = <<"queued", m, i>>
           B(x, t, i) == t \in Gathering /\ i \in DOMAIN batch[t] /\ batch[t][i] = r
                            /\ x = <<"batched", t, i>>
           A(x, p, j, i) == p \in Proxies /\ j \in DOMAIN outputQueue[p]
                            /\ i \in DOMAIN outputQueue[p][j].reqs
                            /\ outputQueue[p][j].reqs[i] = r
                            /\ x = <<"announced", p, j, i>>
           E(x, o, i) == o \in Holding /\ i \in DOMAIN OutReqs[o] /\ OutReqs[o][i] = r
                            /\ x = <<"executed", o, i>>
<1>1. \A x : x \in Places(r) <=> \/ \E m, i : Q(x, m, i)
                                 \/ \E t, i : B(x, t, i)
                                 \/ \E p, j, i : A(x, p, j, i)
                                 \/ \E o, i : E(x, o, i)
  BY PlacesOf
<1>2. /\ Queued(r) <=> \E x, m, i : Q(x, m, i)
      /\ Batched(r) <=> \E x, t, i : B(x, t, i)
      /\ Announces(r) <=> \E x, p, j, i : A(x, p, j, i)
      /\ Executed(r) <=> \E x, o, i : E(x, o, i)
  <2>1. Queued(r) <=> \E x, m, i : Q(x, m, i)
    BY DEF Queued, Has, HasIn
  <2>2. Batched(r) <=> \E x, t, i : B(x, t, i)
    BY DEF Batched, Has, HasIn
  <2>3. Announces(r) <=> \E x, p, j, i : A(x, p, j, i)
    BY DEF Announces, HasIn
  <2>4. Executed(r) <=> \E x, o, i : E(x, o, i)
    BY DEF Executed, Has, HasIn
  <2> QED
    BY <2>1, <2>2, <2>3, <2>4
<1>3. \A x, y, m, i, m2, i2 : Q(x, m, i) /\ Q(y, m2, i2) => x = y
  BY DEF OnePlace, Once, HasIn, OnceIn
<1>4. \A x, y, t, i, t2, i2 : B(x, t, i) /\ B(y, t2, i2) => x = y
  BY DEF OnePlace, Once, HasIn, OnceIn
<1>5. \A x, y, p, j, i, p2, j2, i2 : A(x, p, j, i) /\ A(y, p2, j2, i2) => x = y
  BY DEF OnePlace, AnnouncedOnce, HasIn, OnceIn
<1>6. \A x, y, o, i, o2, i2 : E(x, o, i) /\ E(y, o2, i2) => x = y
  BY DEF OnePlace, Once, HasIn, OnceIn
<1> HIDE DEF Q, B, A, E
<1>7. ASSUME NEW x \in Places(r), NEW y \in Places(r) PROVE x = y
  <2>1. CASE Queued(r)
    BY <1>1, <1>2, <1>3, <2>1 DEF OnePlace
  <2>2. CASE Batched(r)
    BY <1>1, <1>2, <1>4, <2>2 DEF OnePlace
  <2>3. CASE Announces(r)
    BY <1>1, <1>2, <1>5, <2>3 DEF OnePlace
  <2>4. CASE Executed(r)
    BY <1>1, <1>2, <1>6, <2>4 DEF OnePlace
  <2> QED
    BY <1>1, <1>2, <2>1, <2>2, <2>3, <2>4
<1>8. Places(r) # {} <=> Located(r)
  BY <1>1, <1>2 DEF Located
<1>9. Cardinality(Places(r)) <= 1
  <2>1. CASE Places(r) = {}
    BY <2>1, FS_EmptySet
  <2>2. CASE Places(r) # {}
    <3>1. PICK x : x \in Places(r)
      BY <2>2
    <3>2. Places(r) = {x}
      BY <1>7, <3>1
    <3> QED
      BY <3>2, FS_Singleton
  <2> QED
    BY <2>1, <2>2
<1> QED
  BY <1>8, <1>9

\* From its arrival (addtoModelQueue) to its completion (markFinished) a
\* request is in exactly one place of the pipeline and a finished request is
\* nowhere, for any number of threads, proxies and tasks, while the routing
\* changes and models are unloaded: initProxy and initOutput neither lose nor
\* duplicate a request.
THEOREM NoRequestIsLost ==
    ASSUME TreeApplication
    PROVE  Spec => []NoRequestLost
<1>1. RequestsInv => NoRequestLost
  <2> SUFFICES ASSUME RequestsInv, NEW k \in Tasks, NEW n \in Nodes
               PROVE  /\ Cardinality(Places(<<k, n>>)) <= 1
                      /\ n \in scoreBoard[k] => Places(<<k, n>>) = {}
                      /\ n \in received[k] => n \in scoreBoard[k] \/ Places(<<k, n>>) # {}
    BY DEF NoRequestLost
  <2>1. RequestInv(k, n)
    BY DEF RequestsInv
  <2>2. /\ Cardinality(Places(<<k, n>>)) <= 1
        /\ Places(<<k, n>>) # {} <=> Located(<<k, n>>)
    BY <2>1, PlacesCount DEF RequestInv
  <2> QED
    BY <2>1, <2>2 DEF RequestInv, Issued
<1> QED
  BY <1>1, RequestsInvariance, PTL

-----------------------------------------------------------------------------
(***************************************************************************)
(* Replies.                                                                *)
(***************************************************************************)

\* How often a task is in PerAppQueue is a number, ...
LEMMA CountType ==
    ASSUME NEW S, NEW s \in Seq(S), NEW r
    PROVE  IsFiniteSet(Positions(s, r)) /\ Cardinality(Positions(s, r)) \in Nat
<1>1. Len(s) \in Nat /\ Positions(s, r) \in SUBSET (1 .. Len(s))
  BY DEF Positions
<1>2. IsFiniteSet(1 .. Len(s))
  BY <1>1, FS_Interval
<1>3. IsFiniteSet(Positions(s, r))
  BY <1>1, <1>2, FS_Subset
<1> QED
  BY <1>3, FS_CardinalityType

\* ... which addtoAppQueue increments ...
LEMMA CountAppend ==
    ASSUME NEW S, NEW s \in Seq(S), NEW x \in S, NEW r
    PROVE  Cardinality(Positions(Append(s, x), r)) =
               IF x = r THEN Cardinality(Positions(s, r)) + 1
               ELSE Cardinality(Positions(s, r))
<1> DEFINE u == Append(s, x)
           L == Len(s)
<1>1. /\ L \in Nat /\ DOMAIN s = 1 .. L /\ DOMAIN u = 1 .. L + 1
      /\ \A i \in 1 .. L : u[i] = s[i]
      /\ u[L + 1] = x
  BY AppendProperties, LenProperties
<1> HIDE DEF u, L
<1>2. L + 1 \notin Positions(s, r)
  BY <1>1 DEF Positions
<1>3. Positions(u, r) = IF x = r THEN Positions(s, r) \cup {L + 1} ELSE Positions(s, r)
  BY <1>1 DEF Positions
<1>4. Cardinality(Positions(s, r) \cup {L + 1}) = Cardinality(Positions(s, r)) + 1
  BY <1>2, CountType, FS_AddElement
<1> QED
  BY <1>3, <1>4 DEF u

\* ... and initApp decrements.
LEMMA CountTail ==
    ASSUME NEW S, NEW s \in Seq(S), s # <<>>, NEW r
    PROVE  Cardinality(Positions(s, r)) =
               IF Head(s) = r THEN Cardinality(Positions(Tail(s), r)) + 1
               ELSE Cardinality(Positions(Tail(s), r))
<1> DEFINE u == Tail(s)
           L == Len(s)
           P == Positions(s, r)
           Q == Positions(u, r)
           f == [i \in Q |-> i + 1]
<1>1. /\ L \in Nat \ {0} /\ DOMAIN s = 1 .. L /\ DOMAIN u = 1 .. L - 1
      /\ \A i \in 1 .. L - 1 : u[i] = s[i + 1]
      /\ Head(s) = s[1] /\ u \in Seq(S)
  BY HeadTailProperties, LenProperties, EmptySeq
<1>2. /\ IsFiniteSet(P) /\ Cardinality(P) \in Nat
      /\ IsFiniteSet(Q) /\ Cardinality(Q) \in Nat
  BY <1>1, CountType
<1> HIDE DEF u, L
<1>3. \A i \in Q : i \in Nat /\ i + 1 \in P \ {1}
  BY <1>1 DEF Positions
<1>4. \A j \in P \ {1} : j - 1 \in Q /\ (j - 1) + 1 = j
  BY <1>1 DEF Positions
<1>5. 1 \in P <=> Head(s) = r
  BY <1>1 DEF Positions
<1> HIDE DEF P, Q
<1>6. f \in Bijection(Q, P \ {1})
  <2>1. f \in [Q -> P \ {1}]
    BY <1>3
  <2>2. \A i, j \in Q : f[i] = f[j] => i = j
    BY <1>3
  <2>3. \A j \in P \ {1} : \E i \in Q : f[i] = j
    BY <1>4
  <2> HIDE DEF f
  <2> QED
    BY <2>1, <2>2, <2>3 DEF Bijection, Injection, Surjection, IsInjective
<1>7. Cardinality(P \ {1}) = Cardinality(Q)
  BY <1>2, <1>6, FS_Bijection DEF ExistsBijection
<1>8. Cardinality(P \ {1}) = IF 1 \in P THEN Cardinality(P) - 1 ELSE Cardinality(P)
  BY <1>2, FS_RemoveElement
<1> QED
  BY <1>2, <1>5, <1>7, <1>8 DEF P, Q, u

\* The replies task k got or is waiting for, and what is said of them.
Sent(k) == replies[k] + Cardinality(Positions(appQueue, k))
Undropped(k) == \A n \in Nodes : <<k, n>> \notin reqDropped
ReplyInv(k) ==
    /\ reported[k] => Sent(k) >= 1 /\ OutputCheck \subseteq scoreBoard[k]
    /\ Undropped(k) => Sent(k) = IF reported[k] THEN 1 ELSE 0

\* RepliesAccounted, task by task.
LEMMA RepliesByTask == RepliesAccounted <=> \A k \in Tasks : ReplyInv(k)
  BY DEF RepliesAccounted, ReplyInv, Sent, Undropped

\* A step that sends and promises no reply, finishes what it likes and drops
\* nothing.
LEMMA RepliesQuiet ==
    ASSUME RepliesAccounted,
           UNCHANGED <<reported, appQueue, replies, reqDropped>>,
           \A k \in Tasks : scoreBoard[k] \subseteq scoreBoard'[k]
    PROVE  RepliesAccounted'
<1> SUFFICES ASSUME NEW k \in Tasks PROVE ReplyInv(k)'
  BY DEF RepliesAccounted, ReplyInv, Sent, Undropped
<1>1. ReplyInv(k)
  BY RepliesByTask
<1>2. Sent(k)' = Sent(k) /\ (Undropped(k)' <=> Undropped(k))
  BY DEF Sent, Undropped
<1> QED
  BY <1>1, <1>2 DEF ReplyInv

\* At the start nothing was asked.
LEMMA InitReplies == Init => RepliesAccounted
<1> SUFFICES ASSUME Init, NEW k \in Tasks PROVE ReplyInv(k)
  BY RepliesByTask
<1>1. /\ reported[k] = FALSE /\ replies[k] = 0 /\ appQueue = <<>>
  BY DEF Init
<1>2. Positions(appQueue, k) = {}
  BY <1>1 DEF Positions
<1>3. Sent(k) = 0
  BY <1>1, <1>2, FS_EmptySet DEF Sent
<1> QED
  BY <1>1, <1>3 DEF ReplyInv

\* initApp: a reply that was waited for is sent.
LEMMA initAppReplies ==
    ASSUME IInv, RepliesAccounted, initApp
    PROVE  RepliesAccounted'
<1>1. /\ appQueue # <<>> /\ appQueue' = Tail(appQueue)
      /\ replies' = [replies EXCEPT ![Head(appQueue)] = @ + 1]
      /\ UNCHANGED <<scoreBoard, reported, reqDropped>>
  BY DEF initApp
<1>2. /\ appQueue \in Seq(Tasks) /\ replies \in [Tasks -> Nat]
      /\ appQueue' \in Seq(Tasks)
  BY <1>1, HeadTailProperties DEF IInv, TypeOK, AppTypeOK
<1> SUFFICES ASSUME NEW k \in Tasks PROVE ReplyInv(k)'
  BY DEF RepliesAccounted, ReplyInv, Sent, Undropped
<1>3. ReplyInv(k)
  BY RepliesByTask
<1>4. Cardinality(Positions(appQueue, k)) =
          IF Head(appQueue) = k THEN Cardinality(Positions(appQueue', k)) + 1
          ELSE Cardinality(Positions(appQueue', k))
  BY <1>1, <1>2, CountTail
<1>5. Cardinality(Positions(appQueue', k)) \in Nat
  BY <1>2, CountType
<1>6. replies'[k] = IF Head(appQueue) = k THEN replies[k] + 1 ELSE replies[k]
  BY <1>1, <1>2
<1>7. Sent(k)' = Sent(k)
  BY <1>2, <1>4, <1>5, <1>6 DEF Sent
<1>8. Undropped(k)' <=> Undropped(k)
  BY <1>1 DEF Undropped
<1> QED
  BY <1>1, <1>3, <1>7, <1>8 DEF ReplyInv

\* addtoAppQueue: task l waits for one reply more.
LEMMA AppQueueSent ==
    ASSUME IInv, NEW l \in Tasks, appQueue' = Append(appQueue, l),
           UNCHANGED replies, NEW k \in Tasks
    PROVE  /\ Sent(k) \in Nat
           /\ Sent(k)' = IF k = l THEN Sent(k) + 1 ELSE Sent(k)
<1>1. appQueue \in Seq(Tasks) /\ replies[k] \in Nat
  BY DEF IInv, TypeOK, AppTypeOK
<1>2. Cardinality(Positions(appQueue, k)) \in Nat
  BY <1>1, CountType
<1>3. Cardinality(Positions(appQueue', k)) =
          IF l = k THEN Cardinality(Positions(appQueue, k)) + 1
          ELSE Cardinality(Positions(appQueue, k))
  BY <1>1, CountAppend
<1> QED
  BY <1>1, <1>2, <1>3 DEF Sent

\* The drop thread: the task of a dropped request may get a reply more.
LEMMA DropExpiredReplies ==
    ASSUME IInv, RepliesAccounted, DropExpired
    PROVE  RepliesAccounted'
<1>1. dropScan \in Seq(Req) /\ dropScan # <<>>
  BY DEF DropExpired, IInv, TypeOK, AppTypeOK
<1>2. Head(dropScan) \in Req
  BY <1>1, HeadTailProperties
<1>3. PICK l \in Tasks, c \in Nodes : Head(dropScan) = <<l, c>>
  BY <1>2 DEF Req
<1>4. /\ reqDropped' = reqDropped \cup {<<l, c>>}
      /\ UNCHANGED <<scoreBoard, reported, replies>>
  BY <1>3 DEF DropExpired
<1>5. appQueue' = appQueue \/ appQueue' = Append(appQueue, l)
  BY <1>3 DEF DropExpired, addtoAppQueue
<1> SUFFICES ASSUME NEW k \in Tasks PROVE ReplyInv(k)'
  BY DEF RepliesAccounted, ReplyInv, Sent, Undropped
<1>6. ReplyInv(k)
  BY RepliesByTask
<1>7. /\ k = l => ~Undropped(k)'
      /\ k # l => (Undropped(k)' <=> Undropped(k))
  BY <1>4 DEF Undropped
<1>8. CASE appQueue' = appQueue
  <2>1. Sent(k)' = Sent(k)
    BY <1>4, <1>8 DEF Sent
  <2> QED
    BY <1>4, <1>6, <1>7, <2>1 DEF ReplyInv
<1>9. CASE appQueue' = Append(appQueue, l)
  <2>1. Sent(k) \in Nat /\ Sent(k)' = IF k = l THEN Sent(k) + 1 ELSE Sent(k)
    BY <1>4, <1>9, AppQueueSent
  <2> QED
    BY <1>4, <1>6, <1>7, <2>1 DEF ReplyInv
<1> QED
  BY <1>5, <1>8, <1>9

\* allocateOutput finishes requests, and never takes one back.
LEMMA AllocateOutputReplies ==
    ASSUME IInv, RepliesAccounted, NEW o \in Outputs, AllocateOutput(o)
    PROVE  RepliesAccounted'
<1>1. \A k \in Tasks : scoreBoard[k] \subseteq scoreBoard'[k]
  BY DEF AllocateOutput
<1> QED
  BY <1>1, RepliesQuiet DEF AllocateOutput

\* sendBatchedResults: the first thread that finds the task complete reports
\* it, and no other does.
LEMMA sendBatchedResultsReplies ==
    ASSUME IInv, RepliesAccounted, NEW o \in Outputs, sendBatchedResults(o)
    PROVE  RepliesAccounted'
<1>1. obatch[o].reqs \in Seq(Req) /\ obatch[o].reqs # <<>>
  BY DEF sendBatchedResults, IInv, TypeOK, OutputTypeOK, Batch
<1>2. Head(obatch[o].reqs) \in Req
  BY <1>1, HeadTailProperties
<1>3. PICK l \in Tasks : Head(obatch[o].reqs)[1] = l
  BY <1>2 DEF Req
<1>4. UNCHANGED <<scoreBoard, replies, reqDropped>>
  BY DEF sendBatchedResults
<1>5. CASE isFinished(l)
  <2>1. reported' = [reported EXCEPT ![l] = TRUE] /\ appQueue' = Append(appQueue, l)
    BY <1>3, <1>5 DEF sendBatchedResults, addtoAppQueue
  <2>2. ~reported[l] /\ OutputCheck \subseteq scoreBoard[l]
    BY <1>5 DEF isFinished
  <2> SUFFICES ASSUME NEW k \in Tasks PROVE ReplyInv(k)'
    BY DEF RepliesAccounted, ReplyInv, Sent, Undropped
  <2>3. ReplyInv(k)
    BY RepliesByTask
  <2>4. Sent(k) \in Nat /\ Sent(k)' = IF k = l THEN Sent(k) + 1 ELSE Sent(k)
    BY <1>4, <2>1, AppQueueSent
  <2>5. reported'[k] = IF k = l THEN TRUE ELSE reported[k]
    BY <2>1 DEF IInv, TypeOK, AppTypeOK
  <2>6. Undropped(k)' <=> Undropped(k)
    BY <1>4 DEF Undropped
  <2> QED
    BY <1>4, <2>2, <2>3, <2>4, <2>5, <2>6 DEF ReplyInv
<1>6. CASE ~isFinished(l)
  <2>1. UNCHANGED <<reported, appQueue>>
    BY <1>3, <1>6 DEF sendBatchedResults
  <2> QED
    BY <1>4, <2>1, RepliesQuiet
<1> QED
  BY <1>5, <1>6

\* Every step accounts for the replies.
LEMMA NextReplies ==
    ASSUME IInv, RepliesAccounted, [Next]_vars
    PROVE  RepliesAccounted'
<1>1. CASE \E k \in Tasks, n \in Nodes : handleRequest(k, n)
  BY <1>1, RepliesQuiet DEF handleRequest
<1>2. CASE initApp
  BY <1>2, initAppReplies
<1>3. CASE Dropper
  BY <1>3, RepliesQuiet, DropExpiredReplies DEF Dropper, DropCopy, DropLock, DropScanEnd
<1>4. CASE Scheduler
  BY <1>4, RepliesQuiet DEF Scheduler, staticMPSScheduler, doMPSScheduling,
     applyRoutingFlush, applyRoutingInstall, appVars
<1>5. CASE Loader
  BY <1>5, RepliesQuiet DEF Loader, loadModel_sync, appVars
<1>6. CASE \E p \in Proxies : Unloader(p)
  BY <1>6, RepliesQuiet DEF Unloader, UnloadNext, UnloadCheckSize,
     UnloadCheckBatching, UnloadCheckExec, UnloadEnd, UnloadRest, appVars
<1>7. CASE \E t \in Batchers : Batcher(t)
  BY <1>7, RepliesQuiet DEF Batcher, TakeTask, StartBatching, AddRequest,
     CloseBatch, StartExec, EndBatching, LockSend, PushOutput, SendToBackend,
     BatcherRest, appVars
<1>8. CASE \E p \in Proxies : \/ recvBatchedTensor(p) \/ enqueueForwarded(p)
                              \/ proxyCompute(p) \/ dequeueAwaited(p)
                              \/ receiveandsendOutput(p)
  BY <1>8, RepliesQuiet DEF recvBatchedTensor, enqueueForwarded, proxyCompute,
     dequeueAwaited, receiveandsendOutput, WireRest, appVars
<1>9. CASE \E o \in Outputs : Output(o)
  BY <1>9, RepliesQuiet, AllocateOutputReplies, sendBatchedResultsReplies
     DEF Output, TakeOutput, RecvResult, EndExec, DeliverEnd, appVars
<1>10. CASE UNCHANGED vars
  BY <1>10, RepliesQuiet DEF vars, appVars
<1> QED
  BY <1>1, <1>2, <1>3, <1>4, <1>5, <1>6, <1>7, <1>8, <1>9, <1>10 DEF Next

\* A task none of whose requests was dropped gets exactly one reply, and only
\* when every node that feeds an output is finished: AppInstance::isFinished
\* is true for one of the output threads that ask, for any application graph
\* and any number of threads.
THEOREM RepliesCounted == Spec => []RepliesAccounted
<1>1. Init => IInv /\ RepliesAccounted
  BY InitIInv, InitReplies
<1>2. (IInv /\ RepliesAccounted) /\ [Next]_vars => (IInv /\ RepliesAccounted)'
  BY NextIInv, NextReplies
<1> QED
  BY <1>1, <1>2, PTL DEF Spec
=============================================================================
