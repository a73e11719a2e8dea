------------------------------ MODULE DataWire ------------------------------
(***************************************************************************)
(* The words on the data path of one partition: the batching threads of    *)
(* the frontend, the backend that relays their batches to the process of   *)
(* the partition and its results back, and the control thread of the       *)
(* backend that writes commands to the same socket.                        *)
(*                                                                         *)
(* No message has a length or a mark at its end: a reader knows from the   *)
(* first word how many follow, and from the order of a queue which batch a *)
(* result is of.  One word too many, or two messages mixed, and every      *)
(* later message is misread.  Two sockets have several writers:            *)
(*                                                                         *)
(*   "request"  batching threads -> data thread of the backend             *)
(*   "input"    data thread, control thread -> recvInput of the process    *)
(*                                                                         *)
(* Writes to these are taken word by word.  "output" and "result", the way *)
(* back, have one writer each, and every socket has one reader: what it    *)
(* does there is one step, once the words it needs have arrived.           *)
(*                                                                         *)
(* The build defines NO_NET: the tensors themselves are not sent.  A word  *)
(* arrives whole, and within the 5 s a reader waits for it.                *)
(***************************************************************************)
EXTENDS Naturals, Sequences, SequencesExt

CONSTANTS
    Batchers,      \* the batching threads of the partition
    InputDims,     \* gInputDimMapping: the dimensions of a model's input, at
                   \* most three (input_config.json)
    OutputDims,    \* the dimensions of a model's output
    Kinds,         \* the models and sizes a batch may have
    MaxBatches,    \* bound: batches sent
    MaxCommands    \* bound: commands to load or unload

VARIABLES
    open,          \* the sockets to the process that are connected
    wire,          \* the words on each socket
    todo,          \* the words each writer has still to write
    sendMtx,       \* the holder of each of the two locks
    PerProxyOutputQueue,     \* the batches whose results the frontend awaits
    MapProxytoOutputQueue,   \* the batches whose results the backend awaits
    g_InputQueue,  \* the batches in the process
    awaited,       \* what each reader of results has popped
    relayed,       \* the batch the data thread is relaying
    given,         \* history: messages for the process, in the order of the lock
    decoded,       \* history: messages the process has understood
    batches,       \* history: the batches sent
    results        \* history: the results the frontend has received

vars == <<open, wire, todo, sendMtx, PerProxyOutputQueue, MapProxytoOutputQueue,
          g_InputQueue, awaited, relayed, given, decoded, batches, results>>

ModelIds == DOMAIN InputDims
Writers == Batchers \cup {"data", "control"}
NoBatch == [rid |-> 0, model |-> 0, dims |-> <<>>]

(* What the proofs assume of the constants.  A model's input has at most   *)
(* three dimensions, so that with the batch size a request has the one to  *)
(* four which recvInput tells from a command; and "nobody" and the threads *)
(* of the backend are no batching threads.                                 *)
Configured ==
    /\ ModelIds \subseteq Nat /\ ModelIds \subseteq DOMAIN OutputDims
    /\ \A m \in ModelIds : /\ InputDims[m] \in Seq(Nat) /\ Len(InputDims[m]) <= 3
                          /\ OutputDims[m] \in Seq(Nat)
    /\ Kinds \subseteq ModelIds \X Nat
    /\ Batchers \cap {"data", "control", "nobody"} = {}

CLOSE_SOCKET == 25301
LOAD_MODEL == 2251
UNLOAD_MODEL == 8297

Run(rid, model, dims) == <<"RUN", rid, model, dims>>
Load(model, batch) == <<"LOAD", model, batch>>
Unload(model) == <<"UNLOAD", model>>
Close == <<"CLOSE">>
Strange(dimlen) == <<"STRANGE", dimlen>>

Init ==
    /\ open = {}
    /\ wire = [s \in {"request", "input", "output", "result"} |-> <<>>]
    /\ todo = [w \in Writers |-> <<>>]
    /\ sendMtx = [side \in {"frontend", "backend"} |-> "nobody"]
    /\ PerProxyOutputQueue = <<>> /\ MapProxytoOutputQueue = <<>>
    /\ g_InputQueue = <<>>
    /\ awaited = [side \in {"frontend", "backend"} |-> NoBatch]
    /\ relayed = NoBatch
    /\ given = <<>> /\ decoded = <<>> /\ batches = <<>> /\ results = <<>>

-----------------------------------------------------------------------------
(* The formats: what is written, word after word. *)

sendRequestToBackend(rid, jobid, batch) == <<jobid, rid, batch>>
sendRequest(rid, jobid, dims) == <<Len(dims), jobid>> \o dims \o <<rid>>
LoadWords(model, batch) == <<LOAD_MODEL, model, batch>>
UnloadWords(model) == <<UNLOAD_MODEL, model>>
sendOutput(dims) == <<Len(dims)>> \o dims

(* recvInput: how many words the message at the front of w has, as far as  *)
(* its first word tells.                                                   *)
Length(w) ==
    CASE w[1] = CLOSE_SOCKET -> 1
      [] w[1] = LOAD_MODEL -> 3
      [] w[1] = UNLOAD_MODEL -> 2
      [] w[1] \in 0..4 -> w[1] + 3
      [] OTHER -> 1

(* recvInput: the message at the front of w. *)
Decode(w) ==
    CASE w[1] = CLOSE_SOCKET -> Close
      [] w[1] = LOAD_MODEL -> Load(w[2], w[3])
      [] w[1] = UNLOAD_MODEL -> Unload(w[2])
      [] w[1] \in 0..4 -> Run(w[w[1] + 3], w[2], SubSeq(w, 3, w[1] + 2))
      [] OTHER -> Strange(w[1])

Arrived(s, n) == Len(wire[s]) >= n
Rest(w, n) == SubSeq(w, n + 1, Len(w))

-----------------------------------------------------------------------------
(* Writing. *)

Closed == \E i \in DOMAIN given : given[i] = Close

(* connectProxy: the input socket, then the output socket. *)
connectGPUProxyIn ==
    /\ open = {} /\ ~Closed
    /\ open' = {"input"}
    /\ UNCHANGED <<wire, todo, sendMtx, PerProxyOutputQueue, MapProxytoOutputQueue,
                   g_InputQueue, awaited, relayed, given, decoded, batches, results>>

connectGPUProxyOut ==
    /\ open = {"input"}
    /\ open' = {"input", "output"}
    /\ UNCHANGED <<wire, todo, sendMtx, PerProxyOutputQueue, MapProxytoOutputQueue,
                   g_InputQueue, awaited, relayed, given, decoded, batches, results>>

Connected == open = {"input", "output"}

(* sendBatchedRequest, with its critical section: the lock, the place in the     *)
(* output queue, then the words.  The output queue's lock is held by the   *)
(* output thread while it awaits a result.  No batch is sent once the      *)
(* frontend has asked to disconnect: it has unloaded the models before.    *)
sendBatchedRequest(t, m, b) ==
    /\ Connected /\ ~Closed /\ Len(batches) < MaxBatches
    /\ sendMtx["frontend"] = "nobody" /\ awaited["frontend"] = NoBatch
    /\ LET rid == Len(batches) + 1
           batch == [rid |-> rid, model |-> m, dims |-> <<b>>]
       IN /\ PerProxyOutputQueue' = Append(PerProxyOutputQueue, batch)
          /\ batches' = Append(batches, batch)
          /\ todo' = [todo EXCEPT ![t] = sendRequestToBackend(rid, m, b)]
    /\ sendMtx' = [sendMtx EXCEPT !["frontend"] = t]
    /\ UNCHANGED <<open, wire, MapProxytoOutputQueue, g_InputQueue, awaited,
                   relayed, given, decoded, results>>

(* A writer's next word; with the last one it gives up the lock. *)
Socket(t) == IF t \in Batchers THEN "request" ELSE "input"
Unlocked(t, w) ==
    [side \in DOMAIN sendMtx |->
        IF sendMtx[side] = t /\ Len(w) = 1 THEN "nobody" ELSE sendMtx[side]]

Write(t) ==
    /\ todo[t] # <<>>
    /\ wire' = [wire EXCEPT ![Socket(t)] = Append(@, Head(todo[t]))]
    /\ todo' = [todo EXCEPT ![t] = Tail(@)]
    /\ sendMtx' = Unlocked(t, todo[t])
    /\ open' = IF todo[t] = <<CLOSE_SOCKET>> THEN {} ELSE open
    /\ UNCHANGED <<PerProxyOutputQueue, MapProxytoOutputQueue, g_InputQueue,
                   awaited, relayed, given, decoded, batches, results>>

(* What the data thread and the control thread do alike: take the lock and *)
(* write a message to the process.                                         *)
Give(t, message, words) ==
    /\ Connected /\ ~Closed /\ todo[t] = <<>>
    /\ todo' = [todo EXCEPT ![t] = words]
    /\ given' = Append(given, message)

\* Mutant: only the data thread takes the lock.
LockingData(t) ==
    /\ t = "data" => sendMtx["backend"] = "nobody"
    /\ sendMtx' = IF t = "data" THEN [sendMtx EXCEPT !["backend"] = t] ELSE sendMtx

Locking(t) ==
    /\ sendMtx["backend"] = "nobody"
    /\ sendMtx' = [sendMtx EXCEPT !["backend"] = t]

(* recvBatchedTensor: the three words of a batch are read, the dimensions  *)
(* of the input are put behind the batch size, the batch is passed on; and *)
(* after the unlock it is queued for the thread that awaits the result.    *)
recvBatchedTensor ==
    /\ relayed = NoBatch /\ Arrived("request", 3)
    /\ LET w == wire["request"]
           dims == <<w[3]>> \o InputDims[w[1]]
       IN /\ Give("data", Run(w[2], w[1], dims), sendRequest(w[2], w[1], dims))
          /\ wire' = [wire EXCEPT !["request"] = Rest(w, 3)]
          /\ relayed' = [rid |-> w[2], model |-> w[1], dims |-> <<w[3]>>]
    /\ Locking("data")
    /\ UNCHANGED <<open, PerProxyOutputQueue, MapProxytoOutputQueue, g_InputQueue,
                   awaited, decoded, batches, results>>

\* Mutant: the batch is queued at the front.
QueueOutputFront ==
    /\ relayed # NoBatch /\ todo["data"] = <<>>
    /\ MapProxytoOutputQueue' = <<relayed>> \o MapProxytoOutputQueue
    /\ relayed' = NoBatch
    /\ UNCHANGED <<open, wire, todo, sendMtx, PerProxyOutputQueue, g_InputQueue,
                   awaited, given, decoded, batches, results>>

QueueOutput ==
    /\ relayed # NoBatch /\ todo["data"] = <<>>
    /\ MapProxytoOutputQueue' = Append(MapProxytoOutputQueue, relayed)
    /\ relayed' = NoBatch
    /\ UNCHANGED <<open, wire, todo, sendMtx, PerProxyOutputQueue, g_InputQueue,
                   awaited, given, decoded, batches, results>>

Commands == Len(SelectSeq(given, LAMBDA c : c[1] \in {"LOAD", "UNLOAD"}))
ControlVars == <<PerProxyOutputQueue, MapProxytoOutputQueue, g_InputQueue, awaited,
                 relayed, decoded, batches, results>>

makeProxyLoadModel(m, b) ==
    /\ Commands < MaxCommands
    /\ Give("control", Load(m, b), LoadWords(m, b))
    /\ Locking("control")
    /\ UNCHANGED <<open, wire, ControlVars>>

makeProxyUnloadModel(m) ==
    /\ Commands < MaxCommands
    /\ Give("control", Unload(m), UnloadWords(m))
    /\ Locking("control")
    /\ UNCHANGED <<open, wire, ControlVars>>

(* disconnectProxy does not take the lock.  The frontend asks for it when  *)
(* the results of all batches are there.                                   *)
disconnectProxy ==
    /\ Len(results) = Len(batches)
    /\ Give("control", Close, <<CLOSE_SOCKET>>)
    /\ UNCHANGED <<open, wire, sendMtx, ControlVars>>

-----------------------------------------------------------------------------
(* Reading. *)

(* recvInput in the process: a batch is queued for compute, a command for  *)
(* loadControl; a first word that is neither is passed over.               *)
recvInput ==
    /\ Arrived("input", 1) /\ Arrived("input", Length(wire["input"]))
    /\ LET w == wire["input"]
           message == Decode(w)
       IN /\ wire' = [wire EXCEPT !["input"] = Rest(w, Length(w))]
          /\ decoded' = Append(decoded, message)
          /\ g_InputQueue' = IF message[1] = "RUN"
                             THEN Append(g_InputQueue, message) ELSE g_InputQueue
    /\ UNCHANGED <<open, todo, sendMtx, PerProxyOutputQueue, MapProxytoOutputQueue,
                   awaited, relayed, given, batches, results>>

(* compute and send_output: the output has as many rows as the input, which *)
(* compute asserts.                                                         *)
getRandInput(model, batch) == <<batch>> \o InputDims[model]
forward(model, input) == <<input[1]>> \o OutputDims[model]

send_output ==
    /\ g_InputQueue # <<>>
    /\ LET q == Head(g_InputQueue)
           output == forward(q[3], getRandInput(q[3], q[4][1]))
       IN wire' = [wire EXCEPT !["output"] = @ \o sendOutput(output)]
    /\ g_InputQueue' = Tail(g_InputQueue)
    /\ UNCHANGED <<open, todo, sendMtx, PerProxyOutputQueue, MapProxytoOutputQueue,
                   awaited, relayed, given, decoded, batches, results>>

(* The backend's output thread takes the next batch it owes a result for,  *)
(* and the frontend's output thread likewise.                              *)
initBackendData ==
    /\ awaited["backend"] = NoBatch /\ MapProxytoOutputQueue # <<>>
    /\ awaited' = [awaited EXCEPT !["backend"] = Head(MapProxytoOutputQueue)]
    /\ MapProxytoOutputQueue' = Tail(MapProxytoOutputQueue)
    /\ UNCHANGED <<open, wire, todo, sendMtx, PerProxyOutputQueue, g_InputQueue,
                   relayed, given, decoded, batches, results>>

initOutput ==
    /\ awaited["frontend"] = NoBatch /\ PerProxyOutputQueue # <<>>
    /\ awaited' = [awaited EXCEPT !["frontend"] = Head(PerProxyOutputQueue)]
    /\ PerProxyOutputQueue' = Tail(PerProxyOutputQueue)
    /\ UNCHANGED <<open, wire, todo, sendMtx, MapProxytoOutputQueue, g_InputQueue,
                   relayed, given, decoded, batches, results>>

(* receiveandsendOutput: the dimensions are read and passed on. *)
receiveandsendOutput ==
    /\ awaited["backend"] # NoBatch
    /\ Arrived("output", 1) /\ Arrived("output", 1 + wire["output"][1])
    /\ LET w == wire["output"]
           dims == SubSeq(w, 2, 1 + w[1])
       IN wire' = [wire EXCEPT !["output"] = Rest(w, 1 + w[1]),
                               !["result"] = @ \o sendOutput(dims)]
    /\ awaited' = [awaited EXCEPT !["backend"] = NoBatch]
    /\ UNCHANGED <<open, todo, sendMtx, PerProxyOutputQueue, MapProxytoOutputQueue,
                   g_InputQueue, relayed, given, decoded, batches, results>>

recvResult ==
    /\ awaited["frontend"] # NoBatch
    /\ Arrived("result", 1) /\ Arrived("result", 1 + wire["result"][1])
    /\ LET w == wire["result"]
       IN /\ wire' = [wire EXCEPT !["result"] = Rest(w, 1 + w[1])]
          /\ results' = Append(results, [batch |-> awaited["frontend"],
                                         dims |-> SubSeq(w, 2, 1 + w[1])])
    /\ awaited' = [awaited EXCEPT !["frontend"] = NoBatch]
    /\ UNCHANGED <<open, todo, sendMtx, PerProxyOutputQueue, MapProxytoOutputQueue,
                   g_InputQueue, relayed, given, decoded, batches>>

Next ==
    \/ connectGPUProxyIn \/ connectGPUProxyOut
    \/ \E t \in Batchers, k \in Kinds : sendBatchedRequest(t, k[1], k[2])
    \/ \E t \in Writers : Write(t)
    \/ recvBatchedTensor \/ QueueOutput
    \/ \E k \in Kinds : makeProxyLoadModel(k[1], k[2])
    \/ \E m \in ModelIds : makeProxyUnloadModel(m)
    \/ disconnectProxy
    \/ recvInput \/ send_output
    \/ initBackendData \/ initOutput \/ receiveandsendOutput \/ recvResult

Spec == Init /\ [][Next]_vars

-----------------------------------------------------------------------------
(* The process understands the messages that the backend's threads wrote,  *)
(* in the order in which they took the lock, whole and unmixed: recvInput  *)
(* never loses its place in the stream (proxy.cpp), although nothing marks *)
(* where a message begins.                                                 *)
FramesKept == IsPrefix(decoded, given)

(* The result the frontend takes for a batch, by its place in the queue    *)
(* alone, has the shape of that batch's output: as many rows as the batch  *)
(* (the asserts of receiveandsendOutput and recvResult), and its model's   *)
(* dimensions, whichever thread sent it and whatever was loaded meanwhile. *)
ResultsBelong ==
    /\ \A i \in DOMAIN results :
        LET r == results[i] IN
        /\ r.batch = batches[i]
        /\ r.dims = forward(r.batch.model, r.batch.dims)
    /\ awaited["backend"] # NoBatch /\ Arrived("output", 2)
       => wire["output"][2] = awaited["backend"].dims[1]

=============================================================================
