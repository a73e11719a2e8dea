--------------------------- MODULE ClientSession ---------------------------
(***************************************************************************)
(* A client and its session with the frontend (client.cpp, input.cpp,      *)
(* app_spec.cpp, app_instance.cpp, request_thread.cpp, app_thread.cpp).    *)
(*                                                                         *)
(* A client takes its options, reads its inputs, connects and runs two     *)
(* threads: one sends the name of an application, the number of its inputs *)
(* and then, for every request, the task id once per input; the other      *)
(* counts replies.  The frontend starts one handler thread per connection. *)
(* It makes one AppInstance per request, reads one task id per input of    *)
(* the application, and queues the models behind that input; a model that  *)
(* is finished queues its successors, and the one that completes the score *)
(* board hands the instance to the application's reply thread.             *)
(*                                                                         *)
(* The tensors themselves are not sent (the build defines NO_NET).  How a  *)
(* queued model is batched and executed is BatchPipeline's subject: here   *)
(* it finishes some time after it was queued, in any order.  A client that *)
(* stops before its replies may take the frontend with it (SIGPIPE); what  *)
(* the other clients see then is not followed.                             *)
(***************************************************************************)
EXTENDS Naturals, Sequences, FiniteSets, FiniteSetsExt, SequencesExt

CONSTANTS
    Jobs,       \* what the clients are told to do, each: its task, the
                \* number of its requests, the distribution of their
                \* intervals, the lines of its list of images, and the file of
                \* changing rates with how it was named
    g_batchSize, BATCH_BUFFER,
    Config      \* App_specs: the applications' files, in order

VARIABLES
    AppSpecVec, \* the applications of the frontend
    job,        \* the clients and their options
    sender,     \* main and sendRequest of a client: where it is, request, input
    s_count,    \* the rates of the file that getNextRandMean has returned
    killed,     \* the frontend has died of SIGPIPE
    gp_reqStartTime, gp_reqEndTime,  \* the entries that were written
    replies,    \* recvRequest: the ids it has read, in order
    closed,     \* the client has closed its socket
    toServer, toClient,              \* the two directions of a connection
    handler,    \* handleRequest: where it is, its application, next input
    instances,  \* the AppInstances of a connection, in order
    work,       \* the requests in the model queues and the batches
    PerAppQueue \* the instances that wait for their reply

vars == <<AppSpecVec, job, sender, s_count, killed, gp_reqStartTime, gp_reqEndTime, replies, closed,
          toServer, toClient, handler, instances, work, PerAppQueue>>

-----------------------------------------------------------------------------
(* Applications. *)

\* readAppJSONFile accepts two types of tensors.
readAppJSONFile(file) ==
    \A i \in DOMAIN file.Input : file.Input[i].InputType \in {"FP32", "INT64"}

\* setupModelDependency: the inputs, the models and the outputs, in the order
\* of the file.
setupModelDependency(file) ==
    [i \in DOMAIN file.Input |-> [type |-> "Input", input |-> <<>>,
                                  output |-> file.Input[i].output]]
    \o [i \in DOMAIN file.Models |-> [type |-> "Model", input |-> file.Models[i].input,
                                      output |-> file.Models[i].output]]
    \o [i \in DOMAIN file.Output |-> [type |-> "Output", input |-> file.Output[i].input,
                                      output |-> <<>>]]

\* configAppSpec: the files that cannot be read are skipped.
configAppSpec ==
    LET files == SelectSeq(Config, readAppJSONFile) IN
    [i \in DOMAIN files |->
        [name |-> files[i].name, ModelTable |-> setupModelDependency(files[i]),
         inputTensors |-> [k \in DOMAIN files[i].Input |-> files[i].Input[k].ID]]]

\* The table is indexed by position; the ids of a file are used as positions.
getNextDsts(spec, id) == Range(spec.ModelTable[id + 1].output)
isOutput(spec, id) == spec.ModelTable[id + 1].type = "Output"

getInputforOutput(spec) ==
    UNION {Range(n.input) : n \in {x \in Range(spec.ModelTable) : x.type = "Output"}}

Specs(name) == {i \in DOMAIN AppSpecVec : AppSpecVec[i].name = name}

-----------------------------------------------------------------------------
(* The client. *)

\* setupGlobalVars: the kinds of input a task uses.
useInputs(task) ==
    CASE task = "lenet1" -> {"MNIST"}
      [] task = "game" -> {"IMG", "MNIST"}
      [] task = "bert" -> {"NLP"}
      [] OTHER -> {"IMG"}

Clients == DOMAIN job
g_numReqs(c) == job[c].requests
num_input(c) == Cardinality(useInputs(job[c].task))

\* What the inputs of a request are drawn from.
Drawn == g_batchSize * BATCH_BUFFER

\* readInputData: as many images as the list has, up to a limit; the whole
\* data set of MNIST, which is larger than the limit; as many token ids as
\* the limit.
readInputData(c) ==
    [kind \in useInputs(job[c].task) |->
        IF kind = "IMG" THEN Min({job[c].images, Drawn}) ELSE Drawn]

Init ==
    /\ AppSpecVec = configAppSpec
    /\ job \in Jobs
    /\ sender = [c \in Clients |-> [pc |-> "off", i |-> 1, k |-> 1]]
    /\ s_count = [c \in Clients |-> 0]
    /\ killed = FALSE
    /\ gp_reqStartTime = [c \in Clients |-> {}]
    /\ gp_reqEndTime = [c \in Clients |-> {}]
    /\ replies = [c \in Clients |-> <<>>]
    /\ closed = [c \in Clients |-> FALSE]
    /\ toServer = [c \in Clients |-> <<>>]
    /\ toClient = [c \in Clients |-> <<>>]
    /\ handler = [c \in Clients |-> [pc |-> "none", spec |-> 0, input |-> 1]]
    /\ instances = [c \in Clients |-> <<>>]
    /\ work = {}
    /\ PerAppQueue = [i \in DOMAIN AppSpecVec |-> <<>>]

serverVars == <<killed, handler, instances, work, PerAppQueue>>
timeVars == <<gp_reqStartTime, gp_reqEndTime, replies>>

At(c, place) == sender[c].pc = place
Go(c, place) == sender' = [sender EXCEPT ![c].pc = place]

\* The process ends: with it its connection, if it has one.
Exit(c, place) == Go(c, place) /\ closed' = [closed EXCEPT ![c] = TRUE]
IsConnected(c) == sender[c].pc \in {"name", "loop", "form", "gone"}

\* setupGlobalVars: changing rates need a file.
setupGlobalVars(c) ==
    /\ At(c, "off")
    /\ IF job[c].flux = "no_file" THEN Exit(c, "exit") ELSE Go(c, "connect") /\ UNCHANGED closed
    /\ UNCHANGED <<AppSpecVec, job, s_count, timeVars, toServer, toClient, serverVars>>

\* main: client_init connects, then the two threads are started.
Connect(c) ==
    /\ At(c, "connect")
    /\ Go(c, "name")
    /\ UNCHANGED <<AppSpecVec, job, s_count, timeVars, closed, toServer, toClient, serverVars>>

\* sendRequest: the name of the application and the number of its inputs.
SendName(c) ==
    /\ At(c, "name")
    /\ toServer' = [toServer EXCEPT ![c] = @ \o <<[name |-> job[c].task], [size |-> num_input(c)]>>]
    /\ Go(c, "loop")
    /\ UNCHANGED <<AppSpecVec, job, s_count, timeVars, closed, toClient, serverVars>>

\* getNextRandMean goes round the rates of the file.
getNextRandMean(c) == s_count' = [s_count EXCEPT ![c] = (@ + 1) % Len(job[c].rates)]

\* sendRequest, before a request: a new rate when the last one is old enough,
\* and the interval to wait.
Interval(c) ==
    /\ At(c, "loop") /\ sender[c].i <= g_numReqs(c)
    /\ job[c].dist \in {"exp", "uni"}
    /\ \/ UNCHANGED s_count
       \/ job[c].flux = "file" /\ job[c].rates # <<>> /\ getNextRandMean(c)
    /\ Go(c, "form")
    /\ UNCHANGED <<AppSpecVec, job, timeVars, closed, toServer, toClient, serverVars>>

\* sendRequest: a distribution that is not known ends the client, and so does
\* a file without rates, when getNextRandMean divides by their number.
NoInterval(c) ==
    /\ At(c, "loop") /\ sender[c].i <= g_numReqs(c)
    /\ job[c].dist \notin {"exp", "uni"} \/ (job[c].flux = "file" /\ job[c].rates = <<>>)
    /\ Exit(c, "gone")
    /\ UNCHANGED <<AppSpecVec, job, s_count, timeVars, toServer, toClient, serverVars>>

\* sendRequest: the task id, once for every kind of input in use.
SendInput(c) ==
    /\ At(c, "form") /\ sender[c].k <= num_input(c)
    /\ toServer' = [toServer EXCEPT ![c] = Append(@, [size |-> sender[c].i])]
    /\ sender' = [sender EXCEPT ![c].k = @ + 1]
    /\ UNCHANGED <<AppSpecVec, job, s_count, timeVars, closed, toClient, serverVars>>

\* sendRequest: an input is drawn that was never read.  What the client copies
\* there may also pass for an input (SendInput).
DrawBeyond(c) ==
    /\ At(c, "form") /\ sender[c].k <= num_input(c)
    /\ \E kind \in useInputs(job[c].task) : readInputData(c)[kind] < Drawn
    /\ Exit(c, "gone")
    /\ UNCHANGED <<AppSpecVec, job, s_count, timeVars, toServer, toClient, serverVars>>

\* sendRequest: the time of the request is noted after its last input.
Stamp(c) ==
    /\ At(c, "form") /\ sender[c].k > num_input(c)
    /\ gp_reqStartTime' = [gp_reqStartTime EXCEPT ![c] = @ \cup {sender[c].i}]
    /\ sender' = [sender EXCEPT ![c] = [pc |-> "loop", i |-> @.i + 1, k |-> 1]]
    /\ UNCHANGED <<AppSpecVec, job, s_count, gp_reqEndTime, replies, closed, toServer, toClient,
                   serverVars>>

\* recvRequest counts replies, whichever task they name.
recvRequest(c) ==
    /\ sender[c].pc \in {"name", "loop", "form"}
    /\ Len(replies[c]) < g_numReqs(c)
    /\ toClient[c] # <<>>
    /\ replies' = [replies EXCEPT ![c] = Append(@, Head(toClient[c]))]
    /\ gp_reqEndTime' = [gp_reqEndTime EXCEPT ![c] = @ \cup {Head(toClient[c])}]
    /\ toClient' = [toClient EXCEPT ![c] = Tail(@)]
    /\ UNCHANGED <<AppSpecVec, job, sender, s_count, gp_reqStartTime, closed, toServer, serverVars>>

\* main: both threads are joined and the socket is closed.
CloseClient(c) ==
    /\ sender[c].pc = "loop"
    /\ sender[c].i > g_numReqs(c)
    /\ Len(replies[c]) = g_numReqs(c)
    /\ ~closed[c]
    /\ closed' = [closed EXCEPT ![c] = TRUE]
    /\ UNCHANGED <<AppSpecVec, job, sender, s_count, timeVars, toServer, toClient, serverVars>>

-----------------------------------------------------------------------------
(* The frontend. *)

clientVars == <<AppSpecVec, job, sender, s_count, timeVars, closed>>

\* receiveClients: accept, and a handler thread for the connection.
receiveClients(c) ==
    /\ IsConnected(c)
    /\ handler[c].pc = "none"
    /\ handler' = [handler EXCEPT ![c].pc = "name"]
    /\ UNCHANGED <<clientVars, killed, toServer, toClient, instances, work, PerAppQueue>>

NewInstance(spec) == [taskID |-> 0, scoreBoard |-> {}, reported |-> FALSE, spec |-> spec]

\* handleRequest: the name and the number are read; the last application of
\* that name is taken.  A handler that finds none returns, and leaves the
\* socket open.  The number is not used.
lookUp(c) ==
    LET name == toServer[c][1].name
        spec == CHOOSE i \in Specs(name) : \A j \in Specs(name) : j <= i
    IN  /\ handler[c].pc = "name"
        /\ Len(toServer[c]) >= 2
        /\ toServer' = [toServer EXCEPT ![c] = SubSeq(@, 3, Len(@))]
        /\ IF Specs(name) = {}
             THEN /\ handler' = [handler EXCEPT ![c].pc = "end"]
                  /\ UNCHANGED instances
             ELSE /\ handler' = [handler EXCEPT ![c] = [pc |-> "read", spec |-> spec, input |-> 1]]
                  /\ instances' = [instances EXCEPT ![c] = Append(@, NewInstance(spec))]
        /\ UNCHANGED <<clientVars, killed, toClient, work, PerAppQueue>>

Request(c, n, id) == [client |-> c, instance |-> n, node |-> id, marked |-> FALSE]

\* Mutant: a new instance for every input.
nextInputFresh(c) ==
    /\ handler' = [handler EXCEPT ![c].input =
                      IF @ = Len(AppSpecVec[handler[c].spec].inputTensors) THEN 1 ELSE @ + 1]
    /\ instances' = [instances EXCEPT ![c] =
                        Append([@ EXCEPT ![Len(@)].taskID = Head(toServer[c]).size],
                               NewInstance(handler[c].spec))]

\* handleRequest goes to the next input, or to the first one of a new instance.
nextInput(c) ==
    LET last == handler[c].input = Len(AppSpecVec[handler[c].spec].inputTensors)
        read == [instances[c] EXCEPT ![Len(instances[c])].taskID = Head(toServer[c]).size]
    IN  /\ handler' = [handler EXCEPT ![c].input = IF last THEN 1 ELSE @ + 1]
        /\ instances' = [instances EXCEPT ![c] =
                            IF last THEN Append(read, NewInstance(handler[c].spec)) ELSE read]

\* recvTensor: the task id of the next input; the models behind the input are
\* queued.  They go to queues of their own, so their order does not matter.
recvTensor(c) ==
    LET spec == AppSpecVec[handler[c].spec]
        id == spec.inputTensors[handler[c].input]
    IN  /\ handler[c].pc = "read"
        /\ toServer[c] # <<>>
        /\ toServer' = [toServer EXCEPT ![c] = Tail(@)]
        /\ work' = work \cup {Request(c, Len(instances[c]), d) : d \in getNextDsts(spec, id)}
        /\ nextInput(c)
        /\ UNCHANGED <<clientVars, killed, toClient, PerAppQueue>>

\* recvTensor: at the end of the stream socket_rxsize returns 0, and the
\* handler returns.
clientClosed(c) ==
    /\ handler[c].pc = "read"
    /\ closed[c]
    /\ toServer[c] = <<>>
    /\ handler' = [handler EXCEPT ![c].pc = "end"]
    /\ UNCHANGED <<clientVars, killed, toServer, toClient, instances, work, PerAppQueue>>

\* setOutputTensor and markFinished, when the batch of a request is back.
markFinished(r) ==
    /\ ~r.marked
    /\ instances' = [instances EXCEPT ![r.client][r.instance].scoreBoard = @ \cup {r.node}]
    /\ work' = (work \ {r}) \cup {[r EXCEPT !.marked = TRUE]}
    /\ UNCHANGED <<clientVars, killed, toServer, toClient, handler, PerAppQueue>>

\* Mutant: an instance is finished for everyone who asks.
isFinishedAgain(x) == getInputforOutput(AppSpecVec[x.spec]) \subseteq x.scoreBoard

\* AppInstance::isFinished is true once.
isFinished(x) ==
    /\ ~x.reported
    /\ getInputforOutput(AppSpecVec[x.spec]) \subseteq x.scoreBoard

\* sendBatchedResults, for one request of the batch: the instance is handed to
\* its reply thread, or the successors of the node are queued.
sendBatchedResults(r) ==
    LET x == instances[r.client][r.instance]
        spec == AppSpecVec[x.spec]
        next == {d \in getNextDsts(spec, r.node) : ~isOutput(spec, d)}
    IN  /\ r.marked
        /\ IF isFinished(x)
             THEN /\ instances' = [instances EXCEPT ![r.client][r.instance].reported = TRUE]
                  /\ PerAppQueue' = [PerAppQueue EXCEPT ![x.spec] =
                                        Append(@, <<r.client, r.instance>>)]
                  /\ work' = work \ {r}
             ELSE /\ work' = (work \ {r}) \cup {Request(r.client, r.instance, d) : d \in next}
                  /\ UNCHANGED <<instances, PerAppQueue>>
        /\ UNCHANGED <<clientVars, killed, toServer, toClient, handler>>

\* initApp: the reply thread of an application sends the task id back.  A
\* write to a client that has gone may raise SIGPIPE, which nobody handles.
initApp(i) ==
    LET x == Head(PerAppQueue[i]) IN
    /\ PerAppQueue[i] # <<>>
    /\ PerAppQueue' = [PerAppQueue EXCEPT ![i] = Tail(@)]
    /\ toClient' = [toClient EXCEPT ![x[1]] = Append(@, instances[x[1]][x[2]].taskID)]
    /\ killed' \in {FALSE, closed[x[1]]}
    /\ UNCHANGED <<clientVars, toServer, handler, instances, work>>

-----------------------------------------------------------------------------
SenderStep(c) ==
    /\ ~killed
    /\ \/ setupGlobalVars(c) \/ Connect(c) \/ SendName(c)
       \/ Interval(c) \/ NoInterval(c) \/ SendInput(c) \/ DrawBeyond(c) \/ Stamp(c)
       \/ CloseClient(c)
HandlerStep(c) == ~killed /\ (receiveClients(c) \/ lookUp(c) \/ recvTensor(c) \/ clientClosed(c))
ExecStep == ~killed /\ \E r \in work : markFinished(r) \/ sendBatchedResults(r)
ReplyStep(i) == ~killed /\ initApp(i)

Next ==
    \/ \E c \in Clients : SenderStep(c) \/ recvRequest(c) \/ HandlerStep(c)
    \/ ExecStep
    \/ \E i \in DOMAIN AppSpecVec : ReplyStep(i)

-----------------------------------------------------------------------------
\* Every model of the file that an instance was made from has run for it.
Finished(x) ==
    \A i \in DOMAIN Config : Config[i].name = AppSpecVec[x.spec].name
        => \A k \in DOMAIN Config[i].Models : Config[i].Models[k].ID \in x.scoreBoard

(* A client gets a reply only for a request all of whose models have run    *)
(* and all of whose inputs were read, never two for one request; a client   *)
(* that has ended in order holds both times of every request, and no reply  *)
(* to it is under way: only one that was cut short can raise SIGPIPE        *)
(* (recvRequest, isFinished, getInputforOutput, sendOutputtoClient).        *)
AnsweredOnce ==
    \A c \in Clients :
        /\ \A t \in Range(replies[c] \o toClient[c]) :
              \E n \in DOMAIN instances[c] :
                  instances[c][n].taskID = t /\ n = t /\ Finished(instances[c][n])
        /\ IsInjective(replies[c] \o toClient[c])
        /\ closed[c] /\ At(c, "loop") =>
              /\ gp_reqStartTime[c] = 1 .. g_numReqs(c) /\ gp_reqEndTime[c] = 1 .. g_numReqs(c)
              /\ toClient[c] = <<>> /\ \A q \in Range(PerAppQueue) : \A x \in Range(q) : x[1] # c

(* Every client of a known application ends, and so does the thread that    *)
(* handles it, whatever ends it (client.cpp main, handleRequest); unless a  *)
(* client that was cut short has taken the frontend with it.                *)
SessionEnds ==
    <>(\/ killed /\ \E c \in Clients : At(c, "gone")
       \/ \A c \in Clients : Specs(job[c].task) # {} =>
             closed[c] /\ (At(c, "exit") \/ handler[c].pc = "end"))
=============================================================================
