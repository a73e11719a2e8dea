-------------------------- MODULE PartitionControl --------------------------
(***************************************************************************)
(* What the control channel promises the threads of the frontend: a call   *)
(* on a GPU partition (start, connect, load, ...) is one step that acts on *)
(* that partition and on no other.  ControlChannel, in which a call is a   *)
(* message of several words, a thread of the backend that reads it, and a  *)
(* reply, is shown to implement this.                                      *)
(*                                                                         *)
(* For each partition the module has the calls that loadModel_sync and     *)
(* unloadModel_async make (global_scheduler_proxy.cpp), as a position in   *)
(* their text, and the process of the partition, coarsely: GpuProxy has it *)
(* in detail.  Assumed here: a process marks RUNNING and looks at its      *)
(* queue in one step, and it does not leave BOOTING before the backend,    *)
(* which polls for it, has seen it there.                                  *)
(***************************************************************************)
EXTENDS Naturals

CONSTANTS
    Managed,     \* the partitions that the frontend's threads work on
    MaxModels    \* most models a partition holds

VARIABLES
    at,        \* where the loader or unloader of the partition is
    loaded,    \* the number of its LoadedModels
    word,      \* the state of the partition in shared memory
    spawned,   \* it has a process
    attached,  \* the backend is connected to the process
    queue      \* the requests to load and unload it has not handled yet

vars == <<at, loaded, word, spawned, attached, queue>>

\* enum proxy_state
COLD == 0
BOOTING == 1
RUNNING == 2
LOADING == 3
EXITING == 4
FLUSHED == 5

\* The places where a thread makes a call, and those where it decides.
CallAt == {"check", "start", "boot", "connect", "mark", "load", "loading",
           "umark", "unload", "unloading", "end", "flush", "disc", "cold"}
DecideAt == {"idle", "loads", "unloads"}

\* The state that waitProxy waits for, and where it goes then.
WaitFor == [boot |-> RUNNING, loading |-> RUNNING, unloading |-> RUNNING,
            flush |-> FLUSHED, cold |-> COLD]
Waiting == DOMAIN WaitFor

\* Where a thread that has no more to wait for goes on.  unloadModel_async
\* shuts the process down when no model is left.
GoOn(pos, n) ==
    CASE pos = "start" -> "boot"
      [] pos = "boot" -> "connect"
      [] pos = "connect" -> "loads"
      [] pos = "mark" -> "load"
      [] pos = "load" -> "loads"
      [] pos = "loading" -> "idle"
      [] pos = "umark" -> "unload"
      [] pos = "unload" -> "unloads"
      [] pos = "unloading" -> IF n = 0 THEN "end" ELSE "idle"
      [] pos = "end" -> "flush"
      [] pos = "flush" -> "disc"
      [] pos = "disc" -> "cold"
      [] pos = "cold" -> "idle"

\* Where a thread goes after the call at pos that returned state, with n
\* models loaded: loadModel_sync boots the process only if it is COLD.
AfterCall(pos, state, n) ==
    CASE pos = "check" -> IF state = COLD THEN "start" ELSE "loads"
      [] pos \in Waiting -> IF state = WaitFor[pos] THEN GoOn(pos, n)
                            ELSE pos
      [] OTHER -> GoOn(pos, n)

\* The number of loaded models after the call at pos.
LoadedAfter(pos, n) ==
    CASE pos = "load" -> n + 1
      [] pos = "unload" -> n - 1
      [] OTHER -> n

\* Where a thread may go when it makes no call: the scheduler starts a
\* loader or an unloader, which has some models to load or to unload.
Choices(pos, n) ==
    CASE pos = "idle" -> {"check"} \cup (IF n > 0 THEN {"umark"} ELSE {})
      [] pos = "loads" -> (IF n > 0 THEN {"loading"} ELSE {})
                          \cup (IF n < MaxModels THEN {"mark"} ELSE {})
      [] pos = "unloads" -> {"unloading"}
                            \cup (IF n > 0 THEN {"umark"} ELSE {})

Init ==
    /\ at = [p \in Managed |-> "idle"]
    /\ loaded = [p \in Managed |-> 0]
    /\ word = [p \in Managed |-> COLD]
    /\ spawned = [p \in Managed |-> FALSE]
    /\ attached = [p \in Managed |-> FALSE]
    /\ queue = [p \in Managed |-> 0]

Decide(p) ==
    /\ at[p] \in DecideAt
    /\ \E pos \in Choices(at[p], loaded[p]) : at' = [at EXCEPT ![p] = pos]
    /\ UNCHANGED <<loaded, word, spawned, attached, queue>>

\* The call at at[p] returns.
Return(p) ==
    /\ at' = [at EXCEPT ![p] = AfterCall(at[p], word[p], loaded[p])]
    /\ loaded' = [loaded EXCEPT ![p] = LoadedAfter(at[p], loaded[p])]

\* getProxyState: a look at the word.
GetState(p) ==
    /\ at[p] \in Waiting \cup {"check"}
    /\ Return(p)
    /\ UNCHANGED <<word, spawned, attached, queue>>

\* startProxy starts the process, and returns when it is booting.
StartBegin(p) ==
    /\ at[p] = "start"
    /\ word[p] = COLD
    /\ ~spawned[p]
    /\ spawned' = [spawned EXCEPT ![p] = TRUE]
    /\ UNCHANGED <<at, loaded, word, attached, queue>>

StartEnd(p) ==
    /\ at[p] = "start"
    /\ word[p] = BOOTING
    /\ Return(p)
    /\ UNCHANGED <<word, spawned, attached, queue>>

Connect(p) ==
    /\ at[p] = "connect"
    /\ attached' = [attached EXCEPT ![p] = TRUE]
    /\ Return(p)
    /\ UNCHANGED <<word, spawned, queue>>

Mark(p) ==
    /\ at[p] \in {"mark", "umark"}
    /\ word' = [word EXCEPT ![p] = LOADING]
    /\ Return(p)
    /\ UNCHANGED <<spawned, attached, queue>>

\* makeProxyLoadModel and makeProxyUnloadModel mark LOADING and send.
Send(p) ==
    /\ at[p] \in {"load", "unload"}
    /\ word' = [word EXCEPT ![p] = LOADING]
    /\ queue' = [queue EXCEPT ![p] = @ + 1]
    /\ Return(p)
    /\ UNCHANGED <<spawned, attached>>

End(p) ==
    /\ at[p] = "end"
    /\ word' = [word EXCEPT ![p] = EXITING]
    /\ Return(p)
    /\ UNCHANGED <<spawned, attached, queue>>

Disconnect(p) ==
    /\ at[p] = "disc"
    /\ attached' = [attached EXCEPT ![p] = FALSE]
    /\ Return(p)
    /\ UNCHANGED <<word, spawned, queue>>

Call(p) == \/ GetState(p) \/ StartBegin(p) \/ StartEnd(p) \/ Connect(p)
           \/ Mark(p) \/ Send(p) \/ End(p) \/ Disconnect(p)

\* The process: its life as the word tells it.
Process(p) ==
    /\ spawned[p]
    /\ \/ /\ word[p] = COLD
          /\ word' = [word EXCEPT ![p] = BOOTING]
          /\ UNCHANGED <<queue, spawned>>
       \/ /\ word[p] = BOOTING
          /\ at[p] # "start"
          /\ word' = [word EXCEPT ![p] = RUNNING]
          /\ UNCHANGED <<queue, spawned>>
       \/ /\ queue[p] > 0
          /\ queue' = [queue EXCEPT ![p] = @ - 1]
          /\ word' = [word EXCEPT ![p] =
                        IF queue[p] = 1 /\ @ # EXITING THEN RUNNING ELSE @]
          /\ UNCHANGED spawned
       \/ /\ word[p] = EXITING
          /\ word' = [word EXCEPT ![p] = FLUSHED]
          /\ UNCHANGED <<queue, spawned>>
       \/ /\ word[p] = FLUSHED
          /\ ~attached[p]
          /\ word' = [word EXCEPT ![p] = COLD]
          /\ spawned' = [spawned EXCEPT ![p] = FALSE]
          /\ UNCHANGED queue
    /\ UNCHANGED <<at, loaded, attached>>

Next == \E p \in Managed : Decide(p) \/ Call(p) \/ Process(p)

Spec == Init /\ [][Next]_vars
=============================================================================
