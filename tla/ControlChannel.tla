--------------------------- MODULE ControlChannel ---------------------------
(***************************************************************************)
(* How a call of the frontend on a GPU partition reaches it.  The frontend *)
(* (BackendProxyCtrl) has one control socket to every backend node and one *)
(* mutex for all of them: with the mutex it writes the words of a message  *)
(* and reads the reply.  The backend's control thread (BackendControl)     *)
(* reads the words, turns the GPU's number into that of the host, finds    *)
(* the partition and executes the command.  The first call that connects a *)
(* partition also opens its two data channels, each served by a new thread *)
(* of the backend.                                                         *)
(*                                                                         *)
(* A partition is named here by what it is: a node, the rank of its GPU on *)
(* that node, and its size.  Both sides compute from their own tables the  *)
(* numbers by which they speak of it; PartitionControl is implemented only *)
(* if the numbers agree.                                                   *)
(***************************************************************************)
EXTENDS Integers, Sequences, SequencesExt, FiniteSetsExt

CONSTANTS
    Nodes,       \* the number of nodes in BackendList.json
    Reachable,   \* those that could be connected; the others are skipped
    NGPUs,       \* the number of GPUs of each node
    FirstIdx,    \* and the host's number of the first of them (gpu_idxs)
    Sizes,       \* the "sizes" of each node in BackendList.json
    AVAIL_SIZES, \* the sizes the backend makes partitions for
    MAX_GPU, MAX_PROXY_PER_GPU,   \* the limits of the shared memory
    Managed,     \* the partitions that the frontend's threads work on
    MaxModels,   \* most models a partition holds
    IdleMem,     \* what the driver reports of a GPU nobody uses, in MB
    MemThread,   \* the scheduler thread, when it asks for used memory
    NoThread     \* nobody has the mutex, no GPU is asked about

NodeIds == 0 .. Nodes - 1

ASSUME ControlAssumption ==
    /\ Nodes \in Nat \ {0}
    /\ Reachable \subseteq NodeIds
    /\ \A n \in Reachable : NGPUs[n] \in Nat \ {0} /\ FirstIdx[n] \in Nat
    /\ Managed \subseteq [node : Reachable, gpu : Nat, cap : Nat, dedup : {0, 1}]
    /\ \A p \in Managed : p.gpu < NGPUs[p.node]
    /\ MaxModels \in Nat \ {0}
    /\ MAX_GPU \in Nat /\ MAX_PROXY_PER_GPU \in Nat
    /\ AVAIL_SIZES \in Seq(Nat)
    /\ MemThread # NoThread /\ {MemThread, NoThread} \cap Managed = {}

\* NVML counts what the driver itself uses.
ASSUME IdleMemAssumption == IdleMem \in Nat \ {0}

\* What the code does not check: the two lists of sizes are the same.
ASSUME SizesAgree == \A n \in Reachable : Sizes[n] = AVAIL_SIZES

VARIABLES
    \* The frontend
    at, loaded,   \* its threads, as in PartitionControl
    mtx,          \* _mtx: who holds it
    stage, todo,  \* where the holder is, and the words it has yet to write
    asked,        \* the GPU whose memory MemThread asks for
    isConnectedtoBackend,  \* the data channels of the partition are open
    \* The control sockets
    req, rep,
    \* The control thread of each node
    bpc, bbuf,
    \* Its partitions, by their index in shared memory
    word, spawned, attached, queue,
    \* The data channels of a partition, and its output queue
    inChan, outChan, hasQueue

callVars == <<mtx, stage, todo, asked>>
frontVars == <<at, loaded, callVars, isConnectedtoBackend>>
threadVars == <<bpc, bbuf>>
partVars == <<word, spawned, attached, queue>>
dataVars == <<inChan, outChan, hasQueue>>

vars == <<frontVars, req, rep, threadVars, partVars, dataVars>>

-----------------------------------------------------------------------------
(***************************************************************************)
(* The numbers of a partition                                              *)
(***************************************************************************)

\* createProxyInfos: one partition per size, and two of 50.
Parts(sizes) ==
    FlattenSeq([i \in DOMAIN sizes |->
                  IF sizes[i] = 50
                  THEN << <<50, 0>>, <<50, 1>> >>
                  ELSE << <<sizes[i], 0>> >>])

\* What the code asserts late or never: the shared memory has a word for
\* every partition, and the frontend works on partitions that exist.
ASSUME PartitionsFit ==
    /\ Len(Parts(AVAIL_SIZES)) \in 1 .. MAX_PROXY_PER_GPU
    /\ \A n \in Reachable : FirstIdx[n] + NGPUs[n] <= MAX_GPU
    /\ \A p \in Managed : \E i \in DOMAIN Parts(AVAIL_SIZES) :
          Parts(AVAIL_SIZES)[i] = <<p.cap, p.dedup>>

PartNum(sizes, p) ==
    (CHOOSE i \in DOMAIN Parts(sizes) : Parts(sizes)[i] = <<p.cap, p.dedup>>) - 1

\* The frontend numbers the GPUs of the nodes it could connect in a row.
PerBackendNodeDevNum(n) == IF n \in Reachable THEN NGPUs[n] ELSE 0
SumBefore(n) ==
    LET sum[i \in 0 .. n] ==
          IF i = 0 THEN 0 ELSE sum[i - 1] + PerBackendNodeDevNum(i - 1)
    IN  sum[n]
DevId(p) == SumBefore(p.node) + p.gpu

\* Mutant: the second partition of 50 gets the number of the first.
PartitionNumTwice(p) == PartNum(Sizes[p.node], [p EXCEPT !.dedup = 0])

PartitionNum(p) == PartNum(Sizes[p.node], p)

lookupFrontDevIDtoBackDevID(p) == DevId(p) - SumBefore(p.node)

\* parseGPUIdxs fills the table of the backend.
LocalIDToHostID(n) == [i \in 0 .. NGPUs[n] - 1 |-> FirstIdx[n] + i]

\* setShMem and getShMem: one word per partition of a host's GPU.
ShmIndex(dev, part) == dev * MAX_PROXY_PER_GPU + part
Slots == Reachable \X (0 .. MAX_GPU * MAX_PROXY_PER_GPU - 1)

\* findProxy finds a record, and the shared memory a word: what they assert.
ProxyExists(n, dev, part) ==
    /\ dev - LocalIDToHostID(n)[0] < NGPUs[n]
    /\ part \in 0 .. Len(Parts(AVAIL_SIZES)) - 1
    /\ part < MAX_PROXY_PER_GPU
    /\ ShmIndex(dev, part) < MAX_GPU * MAX_PROXY_PER_GPU

\* The numbers that name a partition in a message.
Numbers == [p \in Managed |-> <<lookupFrontDevIDtoBackDevID(p), PartitionNum(p)>>]

\* The word of the partition that the backend finds under the numbers.
NumberedSlot(n, local, part) == <<n, ShmIndex(LocalIDToHostID(n)[local], part)>>

\* Where the partition really is.
SlotOf == [p \in Managed |->
             <<p.node, ShmIndex(FirstIdx[p.node] + p.gpu,
                                PartNum(AVAIL_SIZES, p))>>]

-----------------------------------------------------------------------------
(***************************************************************************)
(* The frontend                                                            *)
(***************************************************************************)
\* What the threads call, as PartitionControl has it.
Script == INSTANCE PartitionControl

CmdAt(pos) ==
    CASE pos \in Script!Waiting \cup {"check"} -> "BACKEND_GET_STATE"
      [] pos \in {"mark", "umark"} -> "BACKEND_SET_STATE"
      [] pos = "start" -> "BACKEND_START_PROXY"
      [] pos = "connect" -> "BACKEND_CONNECT_PROXY"
      [] pos = "load" -> "BACKEND_LOAD_MODEL"
      [] pos = "unload" -> "BACKEND_UNLOAD_MODEL"
      [] pos = "end" -> "BACKEND_END_PROXY"
      [] pos = "disc" -> "BACKEND_DISCONNECT_PROXY"

\* The words after the partition: the model and the batch size, or the state.
Args(cmd) ==
    CASE cmd = "BACKEND_LOAD_MODEL" -> <<0, 0>>
      [] cmd = "BACKEND_UNLOAD_MODEL" -> <<0>>
      [] cmd = "BACKEND_SET_STATE" -> <<Script!LOADING>>
      [] OTHER -> <<>>

\* Mutant: announces one word less than it sends.
MessageShort(cmd, dev, part) ==
    <<IF Args(cmd) = <<>> THEN 3 ELSE 2 + Len(Args(cmd)), cmd, dev, part>>
    \o Args(cmd)

\* Mutant: announces one word more than it sends.
MessageLong(cmd, dev, part) ==
    <<4 + Len(Args(cmd)), cmd, dev, part>> \o Args(cmd)

\* The words of a message; the first is PARAM_NUM.
Message(cmd, dev, part) ==
    <<3 + Len(Args(cmd)), cmd, dev, part>> \o Args(cmd)

\* A thread takes the mutex.
Lock(p) ==
    /\ mtx = NoThread
    /\ at[p] \in Script!CallAt
    /\ mtx' = p
    /\ stage' = "write"
    /\ todo' = Message(CmdAt(at[p]), Numbers[p][1], Numbers[p][2])
    /\ UNCHANGED <<at, loaded, asked, isConnectedtoBackend, req, rep,
                   threadVars, partVars, dataVars>>

\* getUsedMem, which the scheduler thread calls for every GPU.
LockForMem(p) ==
    /\ mtx = NoThread
    /\ mtx' = MemThread
    /\ stage' = "write"
    /\ asked' = p
    /\ todo' = Message("BACKEND_GET_MEM", Numbers[p][1], 0)
    /\ UNCHANGED <<at, loaded, isConnectedtoBackend, req, rep, threadVars,
                   partVars, dataVars>>

\* The node that the holder of the mutex talks to.
Peer == IF mtx = MemThread THEN asked.node ELSE mtx.node

\* The words are written one by one; with the mutex held, and a reader that
\* needs them all, this is one step.
Write ==
    /\ mtx # NoThread
    /\ stage = "write"
    /\ req' = [req EXCEPT ![Peer] = @ \o todo]
    /\ todo' = <<>>
    /\ stage' = "reply"
    /\ UNCHANGED <<at, loaded, mtx, asked, isConnectedtoBackend, rep,
                   threadVars, partVars, dataVars>>

\* The call returns with the mutex.
Finish(p, reply) ==
    /\ mtx' = NoThread
    /\ stage' = "none"
    /\ at' = [at EXCEPT ![p] = Script!AfterCall(@, reply, loaded[p])]
    /\ loaded' = [loaded EXCEPT ![p] = Script!LoadedAfter(at[p], @)]

\* The first call of connectProxy goes on to open the data channels.
ReadReply ==
    /\ mtx # NoThread
    /\ stage = "reply"
    /\ rep[Peer] # <<>>
    /\ rep' = [rep EXCEPT ![Peer] = Tail(@)]
    /\ CASE mtx = MemThread ->
              /\ mtx' = NoThread
              /\ stage' = "none"
              /\ asked' = NoThread
              /\ UNCHANGED <<at, loaded>>
         [] mtx # MemThread /\ at[mtx] = "connect"
            /\ ~isConnectedtoBackend[mtx] ->
              /\ stage' = "open"
              /\ UNCHANGED <<at, loaded, mtx, asked>>
         [] OTHER ->
              /\ Finish(mtx, Head(rep[Peer]))
              /\ UNCHANGED asked
    /\ UNCHANGED <<todo, isConnectedtoBackend, req, threadVars, partVars,
                   dataVars>>

\* A data channel is opened with three words: the partition's numbers, and
\* whether it is for input or for output.
OpenIn ==
    /\ mtx # NoThread
    /\ stage = "open"
    /\ inChan' = [inChan EXCEPT ![mtx] = "opened"]
    /\ stage' = "ack"
    /\ UNCHANGED <<at, loaded, mtx, todo, asked, isConnectedtoBackend, req,
                   rep, threadVars, partVars, outChan, hasQueue>>

OpenOut ==
    /\ mtx # NoThread
    /\ stage = "ack"
    /\ inChan[mtx] = "acked"
    /\ outChan' = [outChan EXCEPT ![mtx] = "opened"]
    /\ isConnectedtoBackend' = [isConnectedtoBackend EXCEPT ![mtx] = TRUE]
    /\ Finish(mtx, Script!LOADING)
    /\ UNCHANGED <<todo, asked, req, rep, threadVars, partVars, inChan,
                   hasQueue>>

\* Between two calls a thread decides what to do next.
Decide(p) ==
    /\ at[p] \in Script!DecideAt
    /\ \E pos \in Script!Choices(at[p], loaded[p]) :
            at' = [at EXCEPT ![p] = pos]
    /\ UNCHANGED <<loaded, callVars, isConnectedtoBackend, req, rep,
                   threadVars, partVars, dataVars>>

Holder == Write \/ ReadReply \/ OpenIn \/ OpenOut

-----------------------------------------------------------------------------
(***************************************************************************)
(* The control thread of node n                                            *)
(***************************************************************************)

\* receiveControl reads the number of words, and then that many; here in
\* one step, once they are all there (nobody else reads the socket).  It
\* turns the number of the GPU into the host's, and executeControl looks the
\* partition up.
receiveControl(n) ==
    LET count == Head(req[n])
        body == SubSeq(req[n], 2, count + 1)
        dev == body[2]
        host == LocalIDToHostID(n)
    IN  /\ bpc[n] = "count"
        /\ req[n] # <<>>
        /\ count \in Nat /\ Len(req[n]) > count
        /\ req' = [req EXCEPT ![n] = SubSeq(@, count + 2, Len(@))]
        /\ IF /\ count >= 3
              /\ dev \in DOMAIN host
              /\ ProxyExists(n, host[dev], body[3])
           THEN /\ bpc' = [bpc EXCEPT ![n] = "exec"]
                /\ bbuf' = [bbuf EXCEPT ![n] = <<body[1], host[dev], body[3]>>]
           ELSE /\ bpc' = [bpc EXCEPT ![n] = "aborted"]
                /\ UNCHANGED bbuf
        /\ UNCHANGED <<frontVars, rep, partVars, dataVars>>

\* What executeControl was asked, and of which partition.
Cmd(n) == bbuf[n][1]
Target(n) == <<n, ShmIndex(bbuf[n][2], bbuf[n][3])>>

Reply(n, value) ==
    /\ rep' = [rep EXCEPT ![n] = Append(@, value)]
    /\ bpc' = [bpc EXCEPT ![n] = "count"]

\* The memory in use on a GPU: what the processes on it have taken.
UsedMemory(n, dev) ==
    IdleMem + Quantify(0 .. MAX_PROXY_PER_GPU - 1,
                       LAMBDA i : spawned[<<n, ShmIndex(dev, i)>>])

\* executeControl, for the commands that take one step.  The state that
\* BACKEND_SET_STATE sends is not read: it is LOADING whatever was sent.
Execute(n) ==
    LET s == Target(n)
    IN  /\ bpc[n] = "exec"
        /\ \/ /\ Cmd(n) = "BACKEND_GET_STATE"
              /\ Reply(n, word[s])
              /\ UNCHANGED partVars
           \/ /\ Cmd(n) = "BACKEND_SET_STATE"
              /\ word' = [word EXCEPT ![s] = Script!LOADING]
              /\ Reply(n, Script!LOADING)
              /\ UNCHANGED <<spawned, attached, queue>>
           \/ /\ Cmd(n) = "BACKEND_CONNECT_PROXY"
              /\ attached' = [attached EXCEPT ![s] = TRUE]
              /\ Reply(n, Script!LOADING)
              /\ UNCHANGED <<word, spawned, queue>>
           \/ /\ Cmd(n) = "BACKEND_DISCONNECT_PROXY"
              /\ attached' = [attached EXCEPT ![s] = FALSE]
              /\ Reply(n, Script!LOADING)
              /\ UNCHANGED <<word, spawned, queue>>
           \/ /\ Cmd(n) \in {"BACKEND_LOAD_MODEL", "BACKEND_UNLOAD_MODEL"}
              /\ word' = [word EXCEPT ![s] = Script!LOADING]
              /\ queue' = [queue EXCEPT ![s] = @ + 1]
              /\ Reply(n, 0)
              /\ UNCHANGED <<spawned, attached>>
           \/ /\ Cmd(n) = "BACKEND_END_PROXY"
              /\ word' = [word EXCEPT ![s] = Script!EXITING]
              /\ Reply(n, 0)
              /\ UNCHANGED <<spawned, attached, queue>>
        /\ UNCHANGED <<frontVars, req, bbuf, dataVars>>

\* BACKEND_GET_MEM: the host's number is turned back into the local one,
\* and it is that one which is given to NVML.  A reply of 0 is taken for an
\* error: the thread goes back to accept, and leaves the socket open.
GetMem(n) ==
    LET local == CHOOSE i \in DOMAIN LocalIDToHostID(n) :
                        LocalIDToHostID(n)[i] = bbuf[n][2]
        mem == UsedMemory(n, local)
    IN  /\ bpc[n] = "exec"
        /\ Cmd(n) = "BACKEND_GET_MEM"
        /\ rep' = [rep EXCEPT ![n] = Append(@, mem)]
        /\ bpc' = [bpc EXCEPT ![n] = IF mem = 0 THEN "accept" ELSE "count"]
        /\ UNCHANGED <<frontVars, req, bbuf, partVars, dataVars>>

\* startProxy: nothing to do for a partition that is booting; otherwise
\* wait until it is COLD, start the process ...
StartBegin(n) ==
    LET s == Target(n)
    IN  /\ bpc[n] = "exec"
        /\ Cmd(n) = "BACKEND_START_PROXY"
        /\ IF word[s] = Script!BOOTING
           THEN /\ Reply(n, 0)
                /\ UNCHANGED spawned
           ELSE /\ word[s] = Script!COLD
                /\ spawned' = [spawned EXCEPT ![s] = TRUE]
                /\ bpc' = [bpc EXCEPT ![n] = "boot"]
                /\ UNCHANGED rep
        /\ UNCHANGED <<frontVars, req, bbuf, word, attached, queue,
                       dataVars>>

\* ... and wait until it is BOOTING.
StartEnd(n) ==
    /\ bpc[n] = "boot"
    /\ word[Target(n)] = Script!BOOTING
    /\ Reply(n, 0)
    /\ UNCHANGED <<frontVars, req, bbuf, partVars, dataVars>>

ControlThread(n) ==
    \/ receiveControl(n) \/ Execute(n) \/ GetMem(n)
    \/ StartBegin(n) \/ StartEnd(n)

-----------------------------------------------------------------------------
(***************************************************************************)
(* The data threads of the backend, and the processes                      *)
(***************************************************************************)

\* The thread of the input channel makes the output queue and acknowledges.
InThread(p) ==
    /\ inChan[p] = "opened"
    /\ hasQueue' = [hasQueue EXCEPT
                      ![NumberedSlot(p.node, Numbers[p][1], Numbers[p][2])] = TRUE]
    /\ inChan' = [inChan EXCEPT ![p] = "acked"]
    /\ UNCHANGED <<frontVars, req, rep, threadVars, partVars, outChan>>

\* The thread of the output channel takes the queue as it finds it; if it
\* is not there, the map gives it a null pointer.
OutThread(p) ==
    /\ outChan[p] = "opened"
    /\ outChan' = [outChan EXCEPT ![p] =
                     IF hasQueue[NumberedSlot(p.node, Numbers[p][1], Numbers[p][2])]
                     THEN "serving" ELSE "null"]
    /\ UNCHANGED <<frontVars, req, rep, threadVars, partVars, inChan, hasQueue>>

\* The control thread still has to see the process of slot s BOOTING.
Awaited(s) == bpc[s[1]] = "boot" /\ Target(s[1]) = s

\* As PartitionControl has it.
Process(s) ==
    /\ spawned[s]
    /\ \/ /\ word[s] = Script!COLD
          /\ word' = [word EXCEPT ![s] = Script!BOOTING]
          /\ UNCHANGED <<queue, spawned>>
       \/ /\ word[s] = Script!BOOTING
          /\ ~Awaited(s)
          /\ word' = [word EXCEPT ![s] = Script!RUNNING]
          /\ UNCHANGED <<queue, spawned>>
       \/ /\ queue[s] > 0
          /\ queue' = [queue EXCEPT ![s] = @ - 1]
          /\ word' = [word EXCEPT ![s] =
                        IF queue[s] = 1 /\ @ # Script!EXITING
                        THEN Script!RUNNING ELSE @]
          /\ UNCHANGED spawned
       \/ /\ word[s] = Script!EXITING
          /\ word' = [word EXCEPT ![s] = Script!FLUSHED]
          /\ UNCHANGED <<queue, spawned>>
       \/ /\ word[s] = Script!FLUSHED
          /\ ~attached[s]
          /\ word' = [word EXCEPT ![s] = Script!COLD]
          /\ spawned' = [spawned EXCEPT ![s] = FALSE]
          /\ UNCHANGED queue
    /\ UNCHANGED <<frontVars, req, rep, threadVars, attached, dataVars>>

-----------------------------------------------------------------------------
Init ==
    /\ at = [p \in Managed |-> "idle"]
    /\ loaded = [p \in Managed |-> 0]
    /\ mtx = NoThread /\ stage = "none" /\ todo = <<>> /\ asked = NoThread
    /\ isConnectedtoBackend = [p \in Managed |-> FALSE]
    /\ req = [n \in Reachable |-> <<>>]
    /\ rep = [n \in Reachable |-> <<>>]
    /\ bpc = [n \in Reachable |-> "count"]
    /\ bbuf = [n \in Reachable |-> <<>>]
    /\ word = [s \in Slots |-> Script!COLD]
    /\ spawned = [s \in Slots |-> FALSE]
    /\ attached = [s \in Slots |-> FALSE]
    /\ queue = [s \in Slots |-> 0]
    /\ inChan = [p \in Managed |-> "none"]
    /\ outChan = [p \in Managed |-> "none"]
    /\ hasQueue = [s \in Slots |-> FALSE]

Next ==
    \/ \E p \in Managed : Lock(p) \/ LockForMem(p) \/ Decide(p)
                          \/ InThread(p) \/ OutThread(p)
    \/ Holder
    \/ \E n \in Reachable : ControlThread(n)
    \/ \E s \in Slots : Process(s)

Spec == Init /\ [][Next]_vars

\* The thread that has the mutex, the threads of the backend and the
\* processes do not stop.  Nothing is assumed of who gets the mutex.
LiveSpec ==
    /\ Spec
    /\ WF_vars(Holder)
    /\ \A n \in Reachable : WF_vars(ControlThread(n))
    /\ \A p \in Managed : WF_vars(InThread(p))
    /\ \A p \in Managed : WF_vars(Process(SlotOf[p]))
-----------------------------------------------------------------------------
(***************************************************************************)
(* Properties                                                              *)
(***************************************************************************)

\* The types of the variables; a process never has more requests queued
\* than models, because a thread waits for RUNNING before the next round.
TypeOK ==
    /\ at \in [Managed -> Script!CallAt \cup Script!DecideAt]
    /\ loaded \in [Managed -> 0 .. MaxModels]
    /\ mtx \in Managed \cup {MemThread, NoThread}
    /\ stage \in {"none", "write", "reply", "open", "ack"}
    /\ asked \in Managed \cup {NoThread}
    /\ isConnectedtoBackend \in [Managed -> BOOLEAN]
    /\ \A n \in Reachable :
          bpc[n] \in {"count", "exec", "boot", "accept", "aborted"}
    /\ word \in [Slots -> 0 .. 5]
    /\ spawned \in [Slots -> BOOLEAN]
    /\ attached \in [Slots -> BOOLEAN]
    /\ queue \in [Slots -> 0 .. MaxModels]
    /\ hasQueue \in [Slots -> BOOLEAN]

\* When no call is under way, nothing is left on a control socket and every
\* control thread is about to read the first word of a message: the two
\* sides never disagree on where a message begins, and no assert on the
\* numbers that the frontend sends has stopped a control thread.  The thread
\* of an output channel has found the queue that the thread of the input
\* channel makes (connectProxy waits for its acknowledgement).
ChannelQuiet ==
    /\ mtx = NoThread =>
          \A n \in Reachable : req[n] = <<>> /\ rep[n] = <<>> /\ bpc[n] = "count"
    /\ \A p \in Managed : outChan[p] # "null"

\* Every call returns: startProxy's waits in the control thread, which hold
\* up all the calls of the frontend, come to an end.
CallReturns ==
    \A c \in Managed \cup {MemThread} : mtx = c ~> mtx # c

\* A call takes effect when the backend replies.
Executed(p) ==
    /\ mtx = p
    /\ \/ stage = "reply" /\ rep[p.node] # <<>>
       \/ stage \in {"open", "ack"}

Returned(p) == IF rep[p.node] # <<>> THEN Head(rep[p.node]) ELSE Script!LOADING

\* Where the thread of p is, and the number of its models, once a call that
\* has taken effect is counted as returned.
AtNow(p) == IF Executed(p) THEN Script!AfterCall(at[p], Returned(p), loaded[p])
            ELSE at[p]
LoadedNow(p) == IF Executed(p) THEN Script!LoadedAfter(at[p], loaded[p])
                ELSE loaded[p]

Atomic == INSTANCE PartitionControl WITH
    at <- [p \in Managed |-> AtNow(p)],
    loaded <- [p \in Managed |-> LoadedNow(p)],
    word <- [p \in Managed |-> word[SlotOf[p]]],
    spawned <- [p \in Managed |-> spawned[SlotOf[p]]],
    attached <- [p \in Managed |-> attached[SlotOf[p]]],
    queue <- [p \in Managed |-> queue[SlotOf[p]]]

\* A call acts on the partition it is for, once, as if nothing else happened
\* meanwhile: the channel implements PartitionControl.
CallsAreAtomic == Atomic!Spec
=============================================================================
