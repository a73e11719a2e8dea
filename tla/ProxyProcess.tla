---------------------------- MODULE ProxyProcess ----------------------------
(***************************************************************************)
(* The threads inside one process that serves a partition (proxy.cpp):     *)
(* recvInput, loadControl, compute, send_output, control and main, their   *)
(* three queues, the flags they read without a lock, and their condition   *)
(* variables.  GpuProxy has the life of the partition over many processes; *)
(* here one process is taken apart and fed with batches.                   *)
(*                                                                         *)
(* The frontend and the backend that relays its messages keep the          *)
(* discipline of loadModel_sync and unloadModel_async: one request to load *)
(* or unload at a time, each followed by a wait for RUNNING; a batch only  *)
(* for a routed model; no unload before the model's results are back; and  *)
(* a shutdown only without models.                                         *)
(*                                                                         *)
(* A condition variable is modelled with its window: a thread that has     *)
(* found its predicate false holds the mutex until it blocks, and a        *)
(* notification in between is lost.  Whoever pushes holds the mutex, and   *)
(* cannot fall into the window; control sets g_exitFlag without it.        *)
(*                                                                         *)
(* Left out: the tensors, profiling, messages with a malformed header      *)
(* (the backend writes none), and g_computingFlag, which is only printed.  *)
(* pthread_join of the detached input thread returns at once with EINVAL.  *)
(***************************************************************************)
EXTENDS Naturals, Sequences, FiniteSets

CONSTANTS
    Models,          \* the models
    MaxBatches,      \* bound: batches sent in all
    MaxOutstanding,  \* bound: batches sent and not yet answered
    MaxRequests,     \* bound: requests to load or unload
    SlowWaiters      \* the threads that may be suspended between the test of
                     \* their predicate and the block

ASSUME ProxyProcessAssumption ==
    /\ MaxBatches \in Nat /\ MaxOutstanding \in Nat /\ MaxRequests \in Nat
    /\ SlowWaiters \subseteq {"loadControl", "compute", "send_output"}

VARIABLES
    \* The frontend
    fpc, fmodel,     \* the loader or unloader, and the model it is about
    requests,        \* the requests it has made
    routed,          \* the models batches are sent for
    sent, received,  \* the batches sent, and the results received
    \* Between the two
    shm,             \* the state in shared memory
    inSock, outSock, \* what is on the two sockets
    connected,       \* the frontend has connected both
    \* The process
    ready,           \* the g_readyFlags that are set
    g_exitFlag, g_receivingFlag, g_input_closed,
    g_InputQueue, g_OutputQueue, g_ControlQueue,
    g_modelTable,    \* the models in memory
    pc,              \* where each thread is
    elem             \* the QueueElem each thread holds

frontVars == <<fpc, fmodel, requests, routed, sent, received>>
sockVars == <<inSock, outSock, connected>>
flagVars == <<ready, g_exitFlag, g_receivingFlag, g_input_closed>>
queueVars == <<g_InputQueue, g_OutputQueue, g_ControlQueue>>
procVars == <<flagVars, queueVars, g_modelTable, pc, elem>>
vars == <<frontVars, shm, sockVars, procVars>>

Threads == {"recvInput", "loadControl", "compute", "send_output", "control",
            "main"}

NoModel == "no model"
NoElem == [act |-> "none", model |-> NoModel, id |-> 0]
Close == [act |-> "CLOSE", model |-> NoModel, id |-> 0]
Elem(act, model, id) == [act |-> act, model |-> model, id |-> id]

At(t, place) == pc[t] = place
Go(t, place) == pc' = [pc EXCEPT ![t] = place]

Init ==
    /\ fpc = "boot" /\ fmodel = NoModel /\ requests = 0
    /\ routed = {} /\ sent = <<>> /\ received = <<>>
    /\ shm = "BOOTING"
    /\ inSock = <<>> /\ outSock = <<>> /\ connected = FALSE
    /\ ready = {} /\ g_exitFlag = FALSE /\ g_receivingFlag = FALSE
    /\ g_input_closed = TRUE
    /\ g_InputQueue = <<>> /\ g_OutputQueue = <<>> /\ g_ControlQueue = <<>>
    /\ g_modelTable = {}
    /\ pc = [t \in Threads |->
                CASE t \in {"recvInput", "send_output"} -> "listen"
                  [] t = "compute" -> "init"
                  [] t = "loadControl" -> "test"
                  [] t = "control" -> "poll"
                  [] t = "main" -> "join"]
    /\ elem = [t \in Threads |-> NoElem]

-----------------------------------------------------------------------------
(***************************************************************************)
(* The frontend                                                            *)
(***************************************************************************)

Outstanding == {i \in 1 .. Len(sent) : i > Len(received)}

\* bootProxy_sync: the process is RUNNING, and both sockets are connected.
Connect ==
    /\ fpc = "boot"
    /\ shm = "RUNNING"
    /\ fpc' = "idle"
    /\ connected' = TRUE
    /\ UNCHANGED <<fmodel, requests, routed, sent, received, shm, inSock,
                   outSock, procVars>>

\* makeProxyLoadModel, or makeProxyUnloadModel: LOADING, then the message.
Request(act, m) ==
    /\ requests' = requests + 1
    /\ fpc' = act
    /\ fmodel' = m
    /\ shm' = "LOADING"
    /\ inSock' = Append(inSock, Elem(act, m, 0))
    /\ UNCHANGED <<sent, received, outSock, connected, procVars>>

LoadModel(m) ==
    /\ fpc = "idle"
    /\ m \notin routed
    /\ requests < MaxRequests
    /\ Request("LOAD", m)
    /\ UNCHANGED routed

\* applyRouting_sync takes the model out of the routing ...
Unroute(m) ==
    /\ fpc = "idle"
    /\ m \in routed
    /\ requests < MaxRequests
    /\ fpc' = "unrouted"
    /\ fmodel' = m
    /\ routed' = routed \ {m}
    /\ UNCHANGED <<requests, sent, received, shm, sockVars, procVars>>

\* Mutant: does not wait for the model's results.
UnloadModelAtOnce ==
    /\ fpc = "unrouted"
    /\ Request("UNLOAD", fmodel)
    /\ UNCHANGED routed

\* ... and unloadModel_async waits until none of its batches is under way.
UnloadModel ==
    /\ fpc = "unrouted"
    /\ \A i \in Outstanding : sent[i].model # fmodel
    /\ Request("UNLOAD", fmodel)
    /\ UNCHANGED routed

\* waitProxy(RUNNING): a loaded model is routed to.
Requested ==
    /\ fpc \in {"LOAD", "UNLOAD"}
    /\ shm = "RUNNING"
    /\ fpc' = "idle"
    /\ routed' = IF fpc = "LOAD" THEN routed \cup {fmodel} ELSE routed
    /\ fmodel' = NoModel
    /\ UNCHANGED <<requests, sent, received, shm, sockVars, procVars>>

\* A batching thread sends a batch of a routed model.
SendBatch(m) ==
    /\ m \in routed
    /\ Len(sent) < MaxBatches
    /\ Cardinality(Outstanding) < MaxOutstanding
    /\ sent' = Append(sent, Elem("RUN", m, Len(sent) + 1))
    /\ inSock' = Append(inSock, Elem("RUN", m, Len(sent) + 1))
    /\ UNCHANGED <<fpc, fmodel, requests, routed, received, shm, outSock,
                   connected, procVars>>

\* An output thread reads a result.
ReceiveResult ==
    /\ outSock # <<>>
    /\ received' = Append(received, Head(outSock))
    /\ outSock' = Tail(outSock)
    /\ UNCHANGED <<fpc, fmodel, requests, routed, sent, shm, inSock,
                   connected, procVars>>

\* shutdownProxy_sync, once the last model is unloaded: EXITING ...
endProxy ==
    /\ fpc = "idle"
    /\ routed = {}
    /\ requests > 0
    /\ fpc' = "flush"
    /\ shm' = "EXITING"
    /\ UNCHANGED <<fmodel, requests, routed, sent, received, sockVars,
                   procVars>>

\* ... and, after FLUSHED, disconnectProxy.
disconnectProxy ==
    /\ fpc = "flush"
    /\ shm = "FLUSHED"
    /\ fpc' = "cold"
    /\ inSock' = Append(inSock, Close)
    /\ UNCHANGED <<fmodel, requests, routed, sent, received, shm, outSock,
                   connected, procVars>>

Frontend ==
    \/ Connect \/ UnloadModel \/ Requested \/ ReceiveResult
    \/ endProxy \/ disconnectProxy
    \/ \E m \in Models : LoadModel(m) \/ Unroute(m) \/ SendBatch(m)

-----------------------------------------------------------------------------
(***************************************************************************)
(* Condition variables: wait(lock, predicate) tests, and blocks when the   *)
(* predicate is false; notify sends the blocked threads back to the test.  *)
(***************************************************************************)

WaitOn(t, predicate) ==
    /\ ~predicate
    /\ Go(t, IF t \in SlowWaiters THEN "tested" ELSE "blocked")

Block(t) ==
    /\ At(t, "tested")
    /\ Go(t, "blocked")
    /\ UNCHANGED <<frontVars, shm, sockVars, flagVars, queueVars,
                   g_modelTable, elem>>

\* The places of the threads after ts were notified and t has gone on.
Notify(t, place, ts) ==
    pc' = [u \in Threads |->
              CASE u = t -> place
                [] u # t /\ u \in ts /\ pc[u] = "blocked" -> "test"
                [] OTHER -> pc[u]]

\* The mutex of a queue is free: its reader has not stopped between the
\* test and the block, nor does it, as loadControl, hold it for longer.
MutexFree(reader) ==
    pc[reader] \notin {"tested", "handle", "check", "mark"}

-----------------------------------------------------------------------------
(***************************************************************************)
(* recvInput                                                               *)
(***************************************************************************)

\* recvInput and send_output listen on their socket.
Listen(t) ==
    /\ At(t, "listen")
    /\ ready' = ready \cup {t}
    /\ Go(t, "accept")
    /\ UNCHANGED <<frontVars, shm, sockVars, g_exitFlag, g_receivingFlag,
                   g_input_closed, queueVars, g_modelTable, elem>>

AcceptInput ==
    /\ At("recvInput", "accept")
    /\ connected
    /\ Go("recvInput", "read")
    /\ g_input_closed' = FALSE
    /\ UNCHANGED <<frontVars, shm, sockVars, ready, g_exitFlag,
                   g_receivingFlag, queueVars, g_modelTable, elem>>

\* The header of a message.  From the header of a batch to its end,
\* g_receivingFlag is set.
ReadHeader ==
    /\ At("recvInput", "read")
    /\ inSock # <<>>
    /\ inSock' = Tail(inSock)
    /\ elem' = [elem EXCEPT !["recvInput"] = Head(inSock)]
    /\ g_receivingFlag' = (g_receivingFlag \/ Head(inSock).act = "RUN")
    /\ Go("recvInput", CASE Head(inSock).act = "RUN" -> "body"
                         [] Head(inSock).act = "CLOSE" -> "close"
                         [] OTHER -> "queue")
    /\ UNCHANGED <<frontVars, shm, outSock, connected, ready, g_exitFlag,
                   g_input_closed, queueVars, g_modelTable>>

ReadBody ==
    /\ At("recvInput", "body")
    /\ g_receivingFlag' = FALSE
    /\ Go("recvInput", "queue")
    /\ UNCHANGED <<frontVars, shm, sockVars, ready, g_exitFlag,
                   g_input_closed, queueVars, g_modelTable, elem>>

\* Mutant: pushes without a notification.
QueueInputSilent ==
    LET q == elem["recvInput"]
        reader == IF q.act = "RUN" THEN "compute" ELSE "loadControl"
    IN  /\ At("recvInput", "queue")
        /\ MutexFree(reader)
        /\ IF q.act = "RUN"
           THEN /\ g_InputQueue' = Append(g_InputQueue, q)
                /\ UNCHANGED g_ControlQueue
           ELSE /\ g_ControlQueue' = Append(g_ControlQueue, q)
                /\ UNCHANGED g_InputQueue
        /\ elem' = [elem EXCEPT !["recvInput"] = NoElem]
        /\ Notify("recvInput", "read", {})
        /\ UNCHANGED <<frontVars, shm, sockVars, flagVars, g_OutputQueue,
                       g_modelTable>>

\* pushToQueue, to the queue of compute or to that of loadControl
QueueInput ==
    LET q == elem["recvInput"]
        reader == IF q.act = "RUN" THEN "compute" ELSE "loadControl"
    IN  /\ At("recvInput", "queue")
        /\ MutexFree(reader)
        /\ IF q.act = "RUN"
           THEN /\ g_InputQueue' = Append(g_InputQueue, q)
                /\ UNCHANGED g_ControlQueue
           ELSE /\ g_ControlQueue' = Append(g_ControlQueue, q)
                /\ UNCHANGED g_InputQueue
        /\ elem' = [elem EXCEPT !["recvInput"] = NoElem]
        /\ Notify("recvInput", "read", {reader})
        /\ UNCHANGED <<frontVars, shm, sockVars, flagVars, g_OutputQueue,
                       g_modelTable>>

\* The client has closed the socket.
CloseInput ==
    /\ At("recvInput", "close")
    /\ g_input_closed' = TRUE
    /\ elem' = [elem EXCEPT !["recvInput"] = NoElem]
    /\ Notify("recvInput", IF g_exitFlag THEN "end" ELSE "accept",
              {"compute", "loadControl", "send_output"})
    /\ UNCHANGED <<frontVars, shm, sockVars, ready, g_exitFlag,
                   g_receivingFlag, queueVars, g_modelTable>>

recvInput == \/ Listen("recvInput") \/ AcceptInput \/ ReadHeader
             \/ ReadBody \/ QueueInput \/ CloseInput

-----------------------------------------------------------------------------
(***************************************************************************)
(* loadControl, which holds the mutex of its queue while it works          *)
(***************************************************************************)

ControlTest ==
    /\ At("loadControl", "test")
    /\ \/ /\ g_exitFlag
          /\ Go("loadControl", "end")
          /\ UNCHANGED <<g_ControlQueue, elem>>
       \/ /\ ~g_exitFlag
          /\ g_ControlQueue # <<>>
          /\ elem' = [elem EXCEPT !["loadControl"] = Head(g_ControlQueue)]
          /\ g_ControlQueue' = Tail(g_ControlQueue)
          /\ Go("loadControl", "handle")
       \/ /\ WaitOn("loadControl", g_ControlQueue # <<>> \/ g_exitFlag)
          /\ UNCHANGED <<g_ControlQueue, elem>>
    /\ UNCHANGED <<frontVars, shm, sockVars, flagVars, g_InputQueue,
                   g_OutputQueue, g_modelTable>>

\* loadModel and unloadModel, each of which skips what is done already
HandleRequest ==
    LET q == elem["loadControl"]
    IN  /\ At("loadControl", "handle")
        /\ g_modelTable' = IF q.act = "LOAD"
                           THEN g_modelTable \cup {q.model}
                           ELSE g_modelTable \ {q.model}
        /\ Go("loadControl", "check")
        /\ UNCHANGED <<frontVars, shm, sockVars, flagVars, queueVars, elem>>

\* The queue is empty and the state not EXITING: RUNNING it will be.
CheckState ==
    /\ At("loadControl", "check")
    /\ elem' = [elem EXCEPT !["loadControl"] = NoElem]
    /\ Go("loadControl", IF g_ControlQueue = <<>> /\ shm # "EXITING"
                         THEN "mark" ELSE "test")
    /\ UNCHANGED <<frontVars, shm, sockVars, flagVars, queueVars,
                   g_modelTable>>

MarkRunning ==
    /\ At("loadControl", "mark")
    /\ shm' = "RUNNING"
    /\ Go("loadControl", "test")
    /\ UNCHANGED <<frontVars, sockVars, flagVars, queueVars, g_modelTable,
                   elem>>

loadControl == \/ ControlTest \/ HandleRequest
               \/ CheckState \/ MarkRunning

-----------------------------------------------------------------------------
(***************************************************************************)
(* compute                                                                 *)
(***************************************************************************)

\* initPyTorch, and g_readyFlag_compute
ComputeInit ==
    /\ At("compute", "init")
    /\ ready' = ready \cup {"compute"}
    /\ Go("compute", "ready")
    /\ UNCHANGED <<frontVars, shm, sockVars, g_exitFlag, g_receivingFlag,
                   g_input_closed, queueVars, g_modelTable, elem>>

\* All threads are ready, and the process is RUNNING.
ComputeReady ==
    /\ At("compute", "ready")
    /\ {"recvInput", "send_output", "compute"} \subseteq ready
    /\ shm' = "RUNNING"
    /\ Go("compute", "test")
    /\ UNCHANGED <<frontVars, sockVars, flagVars, queueVars, g_modelTable,
                   elem>>

\* The loop ends only with an empty queue and nothing being received.
MayStopComputing ==
    g_InputQueue = <<>> /\ ~g_receivingFlag /\ g_exitFlag

\* The front of an empty std::queue is undefined: the thread is "lost".
ComputeTest ==
    /\ At("compute", "test")
    /\ \/ /\ MayStopComputing
          /\ Notify("compute", "end", {"send_output"})
          /\ UNCHANGED <<g_InputQueue, elem>>
       \/ /\ ~MayStopComputing
          /\ g_InputQueue # <<>> \/ g_exitFlag
          /\ IF g_InputQueue = <<>>
             THEN /\ Go("compute", "lost")
                  /\ UNCHANGED <<g_InputQueue, elem>>
             ELSE /\ elem' = [elem EXCEPT !["compute"] = Head(g_InputQueue)]
                  /\ g_InputQueue' = Tail(g_InputQueue)
                  /\ Go("compute", "forward")
       \/ /\ WaitOn("compute", g_InputQueue # <<>> \/ g_exitFlag)
          /\ UNCHANGED <<g_InputQueue, elem>>
    /\ UNCHANGED <<frontVars, shm, sockVars, flagVars, g_OutputQueue,
                   g_ControlQueue, g_modelTable>>

\* forward, on a null pointer if the model is not in the table
Forward ==
    /\ At("compute", "forward")
    /\ Go("compute", IF elem["compute"].model \in g_modelTable
                     THEN "push" ELSE "lost")
    /\ UNCHANGED <<frontVars, shm, sockVars, flagVars, queueVars,
                   g_modelTable, elem>>

\* Mutant: the queue is a stack.
PushOutputLifo ==
    /\ At("compute", "push")
    /\ MutexFree("send_output")
    /\ g_OutputQueue' = <<elem["compute"]>> \o g_OutputQueue
    /\ elem' = [elem EXCEPT !["compute"] = NoElem]
    /\ Notify("compute", "test", {"send_output"})
    /\ UNCHANGED <<frontVars, shm, sockVars, flagVars, g_InputQueue,
                   g_ControlQueue, g_modelTable>>

\* pushToQueue
PushOutput ==
    /\ At("compute", "push")
    /\ MutexFree("send_output")
    /\ g_OutputQueue' = Append(g_OutputQueue, elem["compute"])
    /\ elem' = [elem EXCEPT !["compute"] = NoElem]
    /\ Notify("compute", "test", {"send_output"})
    /\ UNCHANGED <<frontVars, shm, sockVars, flagVars, g_InputQueue,
                   g_ControlQueue, g_modelTable>>

compute == \/ ComputeInit \/ ComputeReady \/ ComputeTest
           \/ Forward \/ PushOutput

-----------------------------------------------------------------------------
(***************************************************************************)
(* send_output                                                             *)
(***************************************************************************)

AcceptOutput ==
    /\ At("send_output", "accept")
    /\ connected
    /\ Go("send_output", "test")
    /\ UNCHANGED <<frontVars, shm, sockVars, flagVars, queueVars,
                   g_modelTable, elem>>

\* The loop ends only with nothing received, queued or to be sent.  With an
\* empty queue and something still coming, the thread tests again.
MayStopSending ==
    /\ ~g_receivingFlag
    /\ g_InputQueue = <<>> /\ g_OutputQueue = <<>>
    /\ g_exitFlag

OutputTest ==
    /\ At("send_output", "test")
    /\ \/ /\ MayStopSending
          /\ Go("send_output", "end")
          /\ UNCHANGED <<g_OutputQueue, elem>>
       \/ /\ g_OutputQueue # <<>>
          /\ elem' = [elem EXCEPT !["send_output"] = Head(g_OutputQueue)]
          /\ g_OutputQueue' = Tail(g_OutputQueue)
          /\ Go("send_output", "write")
       \/ /\ WaitOn("send_output", g_OutputQueue # <<>> \/ g_exitFlag)
          /\ UNCHANGED <<g_OutputQueue, elem>>
    /\ UNCHANGED <<frontVars, shm, sockVars, flagVars, g_InputQueue,
                   g_ControlQueue, g_modelTable>>

WriteOutput ==
    /\ At("send_output", "write")
    /\ outSock' = Append(outSock, elem["send_output"])
    /\ elem' = [elem EXCEPT !["send_output"] = NoElem]
    /\ Go("send_output", "test")
    /\ UNCHANGED <<frontVars, shm, inSock, connected, flagVars, queueVars,
                   g_modelTable>>

send_output == \/ Listen("send_output") \/ AcceptOutput \/ OutputTest
               \/ WriteOutput

-----------------------------------------------------------------------------
(***************************************************************************)
(* control and main                                                        *)
(***************************************************************************)

\* Mutant: does not notify the threads.
controlNoNotify ==
    /\ At("control", "poll")
    /\ shm = "EXITING"
    /\ g_exitFlag' = TRUE
    /\ Go("control", "end")
    /\ UNCHANGED <<frontVars, shm, sockVars, ready, g_receivingFlag,
                   g_input_closed, queueVars, g_modelTable, elem>>

\* control polls the state, and sets g_exitFlag without a mutex.
control ==
    /\ At("control", "poll")
    /\ shm = "EXITING"
    /\ g_exitFlag' = TRUE
    /\ Notify("control", "end", {"compute", "send_output", "loadControl"})
    /\ UNCHANGED <<frontVars, shm, sockVars, ready, g_receivingFlag,
                   g_input_closed, queueVars, g_modelTable, elem>>

\* main joins control and compute, but not send_output.
MainFlushed ==
    /\ At("main", "join")
    /\ At("control", "end")
    /\ At("compute", "end")
    /\ shm' = "FLUSHED"
    /\ Go("main", "flushed")
    /\ UNCHANGED <<frontVars, sockVars, flagVars, queueVars, g_modelTable,
                   elem>>

MainCold ==
    /\ At("main", "flushed")
    /\ g_input_closed
    /\ shm' = "COLD"
    /\ Go("main", "return")
    /\ UNCHANGED <<frontVars, sockVars, flagVars, queueVars, g_modelTable,
                   elem>>

\* main returns, and every thread ends with it, wherever it is.
MainReturn ==
    /\ At("main", "return")
    /\ pc' = [t \in Threads |-> "gone"]
    /\ UNCHANGED <<frontVars, shm, sockVars, flagVars, queueVars,
                   g_modelTable, elem>>

main == MainFlushed \/ MainCold \/ MainReturn

-----------------------------------------------------------------------------
\* shutdownProxy_sync sees COLD.
ShutdownEnd ==
    /\ fpc = "cold"
    /\ shm = "COLD"
    /\ fpc' = "off"
    /\ UNCHANGED <<fmodel, requests, routed, sent, received, shm, sockVars,
                   procVars>>

\* Nothing is left to do: the process is gone, or the frontend is content
\* with the models it has.
Done ==
    /\ \/ fpc = "off" /\ At("main", "gone")
       \/ fpc = "idle" /\ routed # {} /\ requests = MaxRequests
    /\ UNCHANGED vars

Next == \/ Frontend \/ ShutdownEnd \/ Done
        \/ recvInput \/ loadControl \/ compute \/ send_output
        \/ control \/ main
        \/ \E t \in SlowWaiters : Block(t)

Spec == Init /\ [][Next]_vars

(***************************************************************************)
(* Fairness: every thread that can go on is run.  The frontend takes       *)
(* results and ends the requests and the shutdown it has begun; it need    *)
(* not begin one.                                                          *)
(***************************************************************************)
Fairness ==
    /\ WF_vars(recvInput) /\ WF_vars(loadControl) /\ WF_vars(compute)
    /\ WF_vars(send_output) /\ WF_vars(control) /\ WF_vars(main)
    /\ WF_vars(Connect) /\ WF_vars(ReceiveResult) /\ WF_vars(Requested)
    /\ WF_vars(UnloadModel)
    /\ \A t \in Threads : WF_vars(Block(t))
    /\ WF_vars(disconnectProxy) /\ WF_vars(ShutdownEnd)

FairSpec == Spec /\ Fairness

-----------------------------------------------------------------------------
(***************************************************************************)
(* What the process promises                                               *)
(***************************************************************************)

IsRun(e) == e.act = "RUN"
HeldBatch(t) == IF IsRun(elem[t]) THEN <<elem[t]>> ELSE <<>>

\* The batches among messages, in their order
Runs(messages) ==
    LET runs[n \in 0 .. Len(messages)] ==
          IF n = 0 THEN <<>>
          ELSE IF IsRun(messages[n]) THEN Append(runs[n - 1], messages[n])
          ELSE runs[n - 1]
    IN  runs[Len(messages)]

\* compute never takes from an empty queue, and never runs a model that is
\* not in the table: the flags that recvInput, control and send_output leave
\* for it are read without a lock (proxy.cpp, compute).
NeverLost == pc["compute"] # "lost"

\* Every batch is, in the order it was sent, in exactly one place between
\* the frontend's two sockets, through three threads and two queues, until
\* the process is gone; and then all results were received: FLUSHED, COLD
\* and the end of main leave no result behind, though main does not wait for
\* send_output.
BatchesKept ==
    IF At("main", "gone") THEN received = sent
    ELSE sent = received \o outSock \o HeldBatch("send_output")
                \o g_OutputQueue \o HeldBatch("compute") \o g_InputQueue
                \o HeldBatch("recvInput") \o Runs(inSock)

\* A shutdown ends: the process sees EXITING, every thread it waits for is
\* woken and ends, and the state becomes COLD (shutdownProxy_sync waits for
\* that with no time limit).
ShutdownCompletes == (fpc = "flush") ~> (fpc = "off")

\* Whoever sends a batch gets its result, also while models are loaded,
\* and while the thread that sends results is slow to fall asleep.
BatchAnswered == \A n \in 1 .. MaxBatches :
                    (Len(sent) = n) ~> (Len(received) >= n)
=============================================================================
