------------------------------- MODULE Planner -------------------------------
(***************************************************************************)
(* The stand-alone scheduler (standalone_scheduler.cpp) and the file it    *)
(* leaves to the frontend (config.cpp).                                    *)
(*                                                                         *)
(* It reads its configuration, describes the GPUs, and asks the scheduler  *)
(* for a plan: once, free to cut the GPUs, or for every way to cut them    *)
(* until one succeeds.  The plan is written as one row per model on a      *)
(* partition; the frontend reads the rows and looks their partitions up.   *)
(*                                                                         *)
(* What runScheduling does is ElasticPartitioning; here it fails, or puts  *)
(* every task somewhere, within the memory of the GPUs.  GPU types are     *)
(* numbered in the order of their names.  The duty cycle of a row, from    *)
(* which the frontend computes a throughput for LoadBalancer, is left out. *)
(***************************************************************************)
EXTENDS Integers, Sequences, FiniteSets, FiniteSetsExt, SequencesExt

CONSTANTS
    Options,      \* command lines with the files they name:
                  \* [full, unreadable, batchFiles, gpus, usePart, devices, mems, numTasks, tasks]
    IDtoModelName, \* the models the program knows, in order
    MAX_BATCH,
    Partitions    \* the partitions of the frontend: a set of [dev, cap, dedup]

VARIABLES
    opts, pc,
    typeToNum,    \* _typeToNumofTypeTable
    availParts,   \* _availParts, descending
    memSize,      \* _mapModelIDtoMemSize: of the ids that were read
    cases,        \* the cuts that are still to be tried
    sim,          \* the GPUs: [id, type, mem, nodes]
    tried,        \* the cuts that were given to the scheduler
    file,         \* what was written: [text |-> "none", "EMPTY" or "rows", rows]
    rows          \* what the frontend has read

vars == <<opts, pc, typeToNum, availParts, memSize, cases, sim, tried, file, rows>>

configVars == <<opts, typeToNum, availParts, memSize>>

Init ==
    /\ opts \in Options
    /\ pc = "initialize"
    /\ typeToNum = <<>> /\ availParts = <<>> /\ memSize = <<>>
    /\ cases = <<>> /\ sim = <<>> /\ tried = {}
    /\ file = [text |-> "none", rows |-> <<>>] /\ rows = <<>>

Goto(from, to) == pc = from /\ pc' = to

Descending(S) == SetToSortSeq(S, LAMBDA a, b : a > b)
Ascending(S) == SetToSortSeq(S, LAMBDA a, b : a < b)

Put(f, x, v) == [y \in DOMAIN f \cup {x} |-> IF y = x THEN v ELSE f[y]]

-----------------------------------------------------------------------------
(* Configuration. *)

\* getModelID: the first of that name, counted from 0; the last for a name
\* that is not known.
getModelID(name) ==
    LET found == {i \in DOMAIN IDtoModelName : IDtoModelName[i] = name}
    IN  IF found = {} THEN Len(IDtoModelName) - 1 ELSE Min(found) - 1

getModelName(id) == IDtoModelName[id + 1]

\* setupScheduler: a type that is listed twice has its last number.
setupScheduler(gpus) == FoldLeft(LAMBDA f, g : Put(f, g.type, g.num), <<>>, gpus)

setupPerModelMemConfig(mems) == FoldLeft(LAMBDA f, m : Put(f, getModelID(m.name), m.mem), <<>>, mems)

\* setupDevicePerfModel: the memory of a type of GPU.  (Its latency and
\* interference files are PerfModel's.)
setupDevicePerfModel(specs) == FoldLeft(LAMBDA f, d : Put(f, d.type, d.mem), <<>>, specs)

\* setupBatchLatencyTables knows three names of files.
setupBatchLatencyTables(files) ==
    Range(files) \subseteq {"1_28_28.txt", "3_300_300.txt", "3_224_224.txt"}

\* initializeScheduler: any file that cannot be read, or is not known, ends
\* the program.
initializeScheduler ==
    /\ pc = "initialize"
    /\ pc' = IF opts.unreadable = {} /\ setupBatchLatencyTables(opts.batchFiles)
             THEN "setup" ELSE "exit"
    /\ typeToNum' = setupScheduler(opts.gpus)
    /\ memSize' = setupPerModelMemConfig(opts.mems)
    /\ UNCHANGED <<opts, availParts, cases, sim, tried, file, rows>>

AVAIL_PARTS(usePart) == IF usePart THEN <<50, 60, 80, 100>> ELSE <<100>>

\* setupAvailParts: every size and what it leaves of the GPU.
setupAvailParts(input) ==
    Descending((Range(input) \cup {100 - p : p \in Range(input)}) \ {0})

getMaxGPUs(table) == FoldLeft(LAMBDA n, t : n + table[t], 0, Ascending(DOMAIN table))

\* The types of the GPUs, in order: what the loops over the type table visit.
TypeList(table) ==
    FlattenSeq([i \in 1 .. Cardinality(DOMAIN table) |->
                  [j \in 1 .. table[Ascending(DOMAIN table)[i]] |-> Ascending(DOMAIN table)[i]]])

makeEmptyNode(id, pntg, dedup) == [id |-> id, pntg |-> pntg, dedup |-> dedup, tasks |-> <<>>]

\* initiateDevs: whole GPUs, numbered through.
initiateDevs(types) ==
    [i \in DOMAIN types |-> [id |-> i - 1, type |-> types[i], mem |-> 0,
                             nodes |-> <<makeEmptyNode(i - 1, 100, 0)>>]]

\* initDevMems: the i-th GPU has the memory of the i-th type.
initDevMems(gpus, types) ==
    [i \in DOMAIN gpus |-> [gpus[i] EXCEPT !.mem = setupDevicePerfModel(opts.devices)[types[i]]]]

\* setupTasks reads as many lines as the first one says.
setupTasks == SubSeq(opts.tasks, 1, opts.numTasks)

-----------------------------------------------------------------------------
(* The cases of the full search. *)

\* ReturnNodeList, one GPU and one size.
Cut(p, gpuid) ==
    SelectSeq(<<[id |-> gpuid, pntg |-> p, dedup |-> 0],
                [id |-> gpuid, pntg |-> 100 - p, dedup |-> IF p = 100 - p THEN 1 ELSE 0]>>,
              LAMBDA n : n.pntg # 0)

\* ReturnNodeList: the recursion on the GPU extends every list by every cut.
ReturnNodeList(availpart, ngpu) ==
    LET Extend(lists, gpuid) ==
          FlattenSeq([i \in DOMAIN lists |->
                        [j \in DOMAIN availpart |-> lists[i] \o Cut(availpart[j], gpuid)]])
    IN  FoldLeft(LAMBDA lists, k : Extend(lists, ngpu + 1 - k), << <<>> >>,
                 [k \in 1 .. ngpu |-> k])

fillPossibleCases2(usePart, ngpu) == ReturnNodeList(AVAIL_PARTS(usePart), ngpu)

\* Mutant: the numbers of the list are not brought down to those of GPUs.
NodeOfKept(n) == makeEmptyNode(n.id, n.pntg, n.dedup)

\* resetScheduler: the list counts GPUs from 1.
NodeOf(n) == makeEmptyNode(n.id - 1, n.pntg, n.dedup)

\* resetScheduler: within its type, a GPU gets the nodes of its number.
resetScheduler(table, list) ==
    LET types == TypeList(table)
        Index(i) == Cardinality({j \in 1 .. (i - 1) : types[j] = types[i]})
        NodesOf(idx) == SelectSeq(list, LAMBDA n : n.id - 1 = idx)
        Empty(idx) == [k \in DOMAIN NodesOf(idx) |-> NodeOf(NodesOf(idx)[k])]
    IN  [i \in DOMAIN types |-> [id |-> Index(i), type |-> types[i], mem |-> 0,
                                 nodes |-> Empty(Index(i))]]

-----------------------------------------------------------------------------
(* runScheduling, as it is used here. *)

\* The ways to put the tasks on the nodes of the GPUs: one <<gpu, node>> per
\* task, within the memory of each GPU.
MemoryOf(task) == IF task \in DOMAIN memSize THEN memSize[task] ELSE 0

Places(gpus) == {<<g, n>> : g \in DOMAIN gpus, n \in {1, 2}} \cap
                UNION {{g} \X DOMAIN gpus[g].nodes : g \in DOMAIN gpus}

Fits(gpus, tasks, put) ==
    \A g \in DOMAIN gpus :
        gpus[g].mem >= FoldLeft(LAMBDA s, i : s + (IF put[i][1] = g THEN MemoryOf(tasks[i]) ELSE 0),
                                0, [i \in DOMAIN tasks |-> i])

Placed(gpus, tasks, put) ==
    LET Here(g, n) == SelectSeq([i \in DOMAIN tasks |-> i], LAMBDA i : put[i] = <<g, n>>)
        Row(i) == [id |-> tasks[i], batch |-> MAX_BATCH]
    IN  [g \in DOMAIN gpus |-> [gpus[g] EXCEPT !.nodes =
           [n \in DOMAIN @ |-> [@[n] EXCEPT !.tasks = [k \in DOMAIN Here(g, n) |-> Row(Here(g, n)[k])]]]]]

\* With allow_repart the GPUs may be cut in two available sizes.
Recut(gpus) ==
    {[g \in DOMAIN gpus |-> [gpus[g] EXCEPT !.nodes =
        [n \in DOMAIN Cut(ps[g], gpus[g].id + 1) |-> NodeOf(Cut(ps[g], gpus[g].id + 1)[n])]]] :
     ps \in [DOMAIN gpus -> Range(availParts)]}

Plans(gpus, tasks) ==
    {Placed(gpus, tasks, put) : put \in {p \in [DOMAIN tasks -> Places(gpus)] : Fits(gpus, tasks, p)}}

-----------------------------------------------------------------------------
(* main *)

Setup ==
    /\ Goto("setup", "schedule")
    /\ availParts' = setupAvailParts(AVAIL_PARTS(opts.usePart))
    /\ IF opts.full
         THEN cases' = fillPossibleCases2(opts.usePart, getMaxGPUs(typeToNum)) /\ UNCHANGED sim
         ELSE /\ sim' = initDevMems(initiateDevs(TypeList(typeToNum)), TypeList(typeToNum))
              /\ UNCHANGED cases
    /\ UNCHANGED <<opts, typeToNum, memSize, tried, file, rows>>

\* One call that may cut the GPUs.
ScheduleOnce ==
    /\ pc = "schedule" /\ ~opts.full
    /\ \/ /\ pc' = "write"
          /\ \E gpus \in Recut(sim) : sim' \in Plans(gpus, setupTasks)
          /\ UNCHANGED file
       \/ pc' = "exit" /\ file' = [text |-> "EMPTY", rows |-> <<>>] /\ UNCHANGED sim
    /\ UNCHANGED <<configVars, cases, tried, rows>>

\* One case of the full search: the next one if it fails.
ScheduleCase ==
    LET input == initDevMems(resetScheduler(typeToNum, Head(cases)), TypeList(typeToNum)) IN
    /\ pc = "schedule" /\ opts.full /\ cases # <<>>
    /\ \/ pc' = "write" /\ sim' \in Plans(input, setupTasks)
       \/ UNCHANGED <<pc, sim>>
    /\ cases' = Tail(cases)
    /\ tried' = tried \cup {input}
    /\ UNCHANGED <<configVars, file, rows>>

NoCaseLeft ==
    /\ Goto("schedule", "exit")
    /\ opts.full /\ cases = <<>>
    /\ file' = [text |-> "EMPTY", rows |-> <<>>]
    /\ UNCHANGED <<configVars, cases, sim, tried, rows>>

\* writeSchedulingResults: the rows of a node; a node without tasks is kept.
NodeRows(n) ==
    IF n.tasks = <<>>
      THEN <<[dev |-> n.id, cap |-> n.pntg, dedup |-> n.dedup, name |-> "reserved", batch |-> MAX_BATCH]>>
      ELSE [k \in DOMAIN n.tasks |-> [dev |-> n.id, cap |-> n.pntg, dedup |-> n.dedup,
                                      name |-> getModelName(n.tasks[k].id), batch |-> n.tasks[k].batch]]

\* addResults leaves a row out that it takes for wrong; its result is ignored.
addResults(row, ngpu) == row.dev \in 0 .. (ngpu - 1) /\ row.cap \in 1 .. 100 /\ row.batch # 0

writeSchedulingResults ==
    LET all == FlattenSeq([g \in DOMAIN sim |-> FlattenSeq([n \in DOMAIN sim[g].nodes |-> NodeRows(sim[g].nodes[n])])])
    IN  /\ Goto("write", "written")
        /\ file' = [text |-> "rows", rows |-> SelectSeq(all, LAMBDA r : addResults(r, Len(sim)))]
        /\ UNCHANGED <<configVars, cases, sim, tried, rows>>

\* ProxyPartitionReader, in the frontend: what is not a number is an exception.
ProxyPartitionReader ==
    /\ pc \in {"written", "exit"} /\ file.text # "none"
    /\ pc' = IF file.text = "EMPTY" THEN "thrown" ELSE "read"
    /\ rows' = file.rows
    /\ UNCHANGED <<configVars, cases, sim, tried, file>>

Next ==
    \/ initializeScheduler \/ Setup \/ ScheduleOnce \/ ScheduleCase \/ NoCaseLeft
    \/ writeSchedulingResults \/ ProxyPartitionReader

-----------------------------------------------------------------------------
(* A plan that the frontend has read can be carried out as it was made: it  *)
(* has a row for every task, every row names a partition that the backends  *)
(* offer, the rows of a GPU cut it into exactly 100 percent, and the models *)
(* on it fit, by the files, into the memory of its type.                    *)
PlanCarriedOut ==
    pc = "read" =>
        LET devs == {r.dev : r \in Range(rows)}
            caps(d) == {<<r.cap, r.dedup>> : r \in {x \in Range(rows) : x.dev = d}}
            names(d) == {r.name : r \in {x \in Range(rows) : x.dev = d}} \ {"reserved"}
            FileMem(name) == CHOOSE m \in {x.mem : x \in {y \in Range(opts.mems) : y.name = name}} : TRUE
        IN  /\ \A i \in 1 .. opts.numTasks :
                  \E r \in Range(rows) : r.name = IDtoModelName[opts.tasks[i] + 1] /\ r.batch > 0
            /\ \A r \in Range(rows) :
                  [dev |-> r.dev, cap |-> r.cap, dedup |-> r.dedup] \in Partitions
            /\ Cardinality(devs) = getMaxGPUs(typeToNum)
            /\ \A d \in devs : /\ MapThenSumSet(LAMBDA c : c[1], caps(d)) = 100
                               /\ MapThenSumSet(FileMem, names(d))
                                    <= setupDevicePerfModel(opts.devices)[TypeList(typeToNum)[d + 1]]

(* The full search gives up only after it has tried every way to cut every  *)
(* GPU into one of the sizes and the rest (ReturnNodeList: "returns all     *)
(* possible combinations").                                                 *)
SearchExhaustive ==
    (opts.full /\ file.text = "EMPTY") =>
        \A ps \in [1 .. getMaxGPUs(typeToNum) -> Range(AVAIL_PARTS(opts.usePart))] :
            \E t \in tried : \A g \in DOMAIN t :
                {<<n.pntg, n.dedup>> : n \in Range(t[g].nodes)} =
                    {c \in {<<ps[g], 0>>, <<100 - ps[g], IF ps[g] = 50 THEN 1 ELSE 0>>} : c[1] > 0}
=============================================================================
