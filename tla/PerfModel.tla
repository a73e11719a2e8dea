------------------------------ MODULE PerfModel ------------------------------
(***************************************************************************)
(* The performance model of a GPU type: a table of profiled latencies and  *)
(* the estimates between its entries (latency_model.cpp), and the slow-    *)
(* down that two models on one GPU cause each other                        *)
(* (interference_model.cpp).  GpuletSizing takes what is estimated here as *)
(* given.                                                                  *)
(*                                                                         *)
(* The code's floats are exact fractions [n, d].  A key of the table is    *)
(* the pair <<batch, part>>; the code's batch * 1000 + part orders keys as *)
(* the pairs are ordered.                                                  *)
(***************************************************************************)
EXTENDS Integers, Sequences, FiniteSets, FiniteSetsExt, SequencesExt

CONSTANTS
    MAX_BATCH,
    Profiles,     \* latency files: a sequence of [model, part, batch, latency]
    Utils,        \* of <<model, batch>>: [l2, dram], in percent
    IntModelConsts, \* [l2_my, l2_your, dram_my, dram_your, const], in percent
    Queried,      \* the [model, part] that are asked for
    Lenets        \* names that share the profile of the first lenet

VARIABLES
    lines,                  \* what is left of the file
    perModelLatencyTable,   \* [model -> [key -> latency]]
    perModelBatchVec,       \* [model -> [part -> the batches, in order]]
    answer                  \* the last estimate

vars == <<lines, perModelLatencyTable, perModelBatchVec, answer>>

MIN_BATCH == 1

NoAnswer == [of |-> "none"]

Frac(n, d) == [n |-> n, d |-> d]

\* a * w + b * (1 - w), for a weight w.
Mix(a, b, w) == Frac(a.n * b.d * w.n + b.n * a.d * (w.d - w.n), a.d * b.d * w.d)

Init ==
    /\ lines \in Profiles
    /\ perModelLatencyTable = <<>> /\ perModelBatchVec = <<>>
    /\ answer = NoAnswer

\* Extend f by g where f is not defined.
Default(f, g) == [x \in DOMAIN f \cup DOMAIN g |-> IF x \in DOMAIN f THEN f[x] ELSE g[x]]

One(x, v) == [y \in {x} |-> v]

\* setupTable, one line: the latency replaces an earlier one, the batch is
\* appended.
setupTable ==
    LET e == Head(lines)
        table == Default(perModelLatencyTable, One(e.model, <<>>))
        vec == Default(perModelBatchVec, One(e.model, <<>>))
        parts == Default(vec[e.model], One(e.part, <<>>))
    IN  /\ lines # <<>>
        /\ lines' = Tail(lines)
        /\ perModelLatencyTable' =
              [table EXCEPT ![e.model] = Default(One(<<e.batch, e.part>>, e.latency), @)]
        /\ perModelBatchVec' =
              [vec EXCEPT ![e.model] = [parts EXCEPT ![e.part] = Append(@, e.batch)]]
        /\ UNCHANGED answer

\* Questions start when the file is read.  One per behaviour is enough: since
\* it leaves the table alone (LatencySound), a later one finds the same state.
Asking == lines = <<>> /\ answer = NoAnswer

-----------------------------------------------------------------------------
(* getLatency *)

\* A look-up with operator[] of an entry that is not there is 0.
At(table, key) == IF key \in DOMAIN table THEN table[key] ELSE 0

\* Mutant: the batches next to the one asked for.
findBatchpairNext(batches, batch) == <<batch - 1, batch + 1>>

\* findBatchpair: the profiled batches around one, the lower inclusive.
findBatchpair(batches, batch) ==
    <<Max({b \in batches : b <= batch}), Min({b \in batches : b > batch})>>

\* The keys getBatchInterpolatedLatency looks up.
KeysFor(vec, batch, part) ==
    IF batch \in {MIN_BATCH, MAX_BATCH} THEN {<<batch, part>>}
    ELSE {<<b, part>> : b \in Range(findBatchpair(Range(vec[part]), batch))}

Line(table, part, batch, pair) ==
    LET l1 == At(table, <<pair[1], part>>)
        l2 == At(table, <<pair[2], part>>)
    IN  Frac((l2 - l1) * (batch - pair[1]) + l1 * (pair[2] - pair[1]), pair[2] - pair[1])

getBatchInterpolatedLatency(table, vec, batch, part) ==
    IF batch \in {MIN_BATCH, MAX_BATCH} THEN Frac(At(table, <<batch, part>>), 1)
    ELSE Line(table, part, batch, findBatchpair(Range(vec[part]), batch))

\* The parts of the smallest and of the largest key.
FirstPart(table) == LET b == Min({k[1] : k \in DOMAIN table})
                    IN  Min({k[2] : k \in {x \in DOMAIN table : x[1] = b}})
LastPart(table) == LET b == Max({k[1] : k \in DOMAIN table})
                   IN  Max({k[2] : k \in {x \in DOMAIN table : x[1] = b}})

\* getBatchPartInterpolatedLatency: where a partition lies between the two
\* outermost ones is taken from the largest batch.
PartWeight(table, part) ==
    Frac(At(table, <<MAX_BATCH, part>>) - At(table, <<MAX_BATCH, LastPart(table)>>),
         At(table, <<MAX_BATCH, FirstPart(table)>>) - At(table, <<MAX_BATCH, LastPart(table)>>))

getBatchPartInterpolatedLatency(table, vec, batch, part) ==
    Mix(getBatchInterpolatedLatency(table, vec, batch, FirstPart(table)),
        getBatchInterpolatedLatency(table, vec, batch, LastPart(table)),
        PartWeight(table, part))

\* getLatency, of a model with a table.
LatencyOf(table, vec, batch, part) ==
    IF <<batch, part>> \in DOMAIN table
      THEN getBatchInterpolatedLatency(table, vec, batch, part)
      ELSE getBatchPartInterpolatedLatency(table, vec, batch, part)

\* What a call of getLatency looks up: operator[] inserts what is missing.
LookedUp(table, vec, batch, part) ==
    IF <<batch, part>> \in DOMAIN table THEN KeysFor(vec, batch, part)
    ELSE {<<MAX_BATCH, p>> : p \in {FirstPart(table), part, LastPart(table)}}
           \cup KeysFor(vec, batch, FirstPart(table))
           \cup KeysFor(vec, batch, LastPart(table))

\* All lenets have one profile.
ProfileName(model) == IF model \in Lenets THEN "lenet1" ELSE model

\* A model that was not profiled takes no time.
getLatency(model, batch, part) ==
    LET m == ProfileName(model)
        table == perModelLatencyTable[m]
        keys == LookedUp(table, perModelBatchVec[m], batch, part)
    IN  /\ Asking
        /\ IF m \notin DOMAIN perModelLatencyTable
             THEN /\ answer' = [of |-> "latency", model |-> model, batch |-> batch, part |-> part,
                                value |-> Frac(0, 1)]
                  /\ UNCHANGED perModelLatencyTable
             ELSE /\ answer' = [of |-> "latency", model |-> model, batch |-> batch, part |-> part,
                                value |-> LatencyOf(table, perModelBatchVec[m], batch, part)]
                  /\ perModelLatencyTable' =
                        [perModelLatencyTable EXCEPT ![m] = Default(@, [k \in keys |-> 0])]
        /\ UNCHANGED <<lines, perModelBatchVec>>

-----------------------------------------------------------------------------
(* getInterference *)

\* exp2((int)log2(batch)): the largest power of two that is not larger.
BatchBelow(batch) == Max({b \in {1, 2, 4, 8, 16, 32} : b <= batch})

BatchTop(batch) == Min({MAX_BATCH, 2 * BatchBelow(batch)})

BatchRatio(batch) ==
    IF BatchTop(batch) = BatchBelow(batch) THEN Frac(1, 1)
    ELSE Frac(batch - BatchBelow(batch), BatchTop(batch) - BatchBelow(batch))

\* A missing entry is an empty vector, of which the code reads an element.
Util(model, batch) ==
    IF <<model, batch>> \in DOMAIN Utils THEN Utils[model, batch]
    ELSE [l2 |-> -1000, dram |-> -1000]

\* The share of a cache or memory that a model on a partition uses; in 1/10000.
Used(u, model, batch, part) ==
    LET v == Mix(Frac(Util(model, BatchTop(batch))[u], 1), Frac(Util(model, BatchBelow(batch))[u], 1),
                 BatchRatio(batch))
    IN  Frac(v.n * part, v.d)

Plus(a, b) == IF a.d = b.d THEN Frac(a.n + b.n, a.d) ELSE Frac(a.n * b.d + b.n * a.d, a.d * b.d)

Times(c, a) == Frac(c * a.n, a.d)

\* alpha, in 1/1000000; my and your are [model, batch, part].
getInterference(my, your) ==
    LET mine(u) == Used(u, ProfileName(my.model), my.batch, my.part)
        yours(u) == Used(u, ProfileName(your.model), your.batch, your.part)
    IN  Plus(Plus(Plus(Times(IntModelConsts.l2_my, mine("l2")), Times(IntModelConsts.dram_my, mine("dram"))),
                  Plus(Times(IntModelConsts.l2_your, yours("l2")),
                       Times(IntModelConsts.dram_your, yours("dram")))),
             Frac(10000 * IntModelConsts.const, 1))

askInterference(my, your) ==
    /\ Asking
    /\ answer' = [of |-> "interference", my |-> my, your |-> your,
                  value |-> getInterference(my, your)]
    /\ UNCHANGED <<lines, perModelLatencyTable, perModelBatchVec>>

Next ==
    \/ setupTable
    \/ \E q \in Queried, b \in 1 .. MAX_BATCH : getLatency(q.model, b, q.part)
    \/ \E q, r \in Queried : \E b, c \in 1 .. MAX_BATCH :
          /\ q.model # r.model /\ q.part + r.part <= 100
          /\ askInterference([q EXCEPT !.batch = b], [r EXCEPT !.batch = c])

-----------------------------------------------------------------------------
Leq(a, b) == a.n * b.d <= b.n * a.d

(* For a profile that has the smallest and the largest batch of every part  *)
(* (the code assumes so), and in which more resources never slow a batch    *)
(* down, an estimate is what was profiled if it was; in between it is not   *)
(* below the latency of the next smaller profiled batch on the whole GPU,   *)
(* nor above that of the next larger one on the smallest part; and to ask   *)
(* for it leaves the table as it was.                                       *)
LatencySound ==
    (answer.of = "latency" /\ ProfileName(answer.model) \in DOMAIN perModelLatencyTable) =>
        LET table == perModelLatencyTable[ProfileName(answer.model)]
            batches == Range(perModelBatchVec[ProfileName(answer.model)][answer.part])
            below == Max({b \in batches : b <= answer.batch})
            above == Min({b \in batches : b >= answer.batch})
        IN  /\ answer.value.d > 0
            /\ \A k \in DOMAIN table : table[k] > 0
            /\ answer.batch \in batches =>
                  answer.value.n = table[answer.batch, answer.part] * answer.value.d
            /\ Leq(Frac(table[below, LastPart(table)], 1), answer.value)
            /\ Leq(answer.value, Frac(table[above, FirstPart(table)], 1))

(* A larger part is never estimated slower than a smaller one for the same  *)
(* batch: getMinPart and getMaxEfficientPart of the scheduler walk the      *)
(* sizes on that ground.                                                    *)
LargerNotSlower ==
    lines = <<>> => \A m \in DOMAIN perModelLatencyTable : \A b \in 1 .. MAX_BATCH :
        \A p, q \in DOMAIN perModelBatchVec[m] :
            p <= q => Leq(LatencyOf(perModelLatencyTable[m], perModelBatchVec[m], b, q),
                          LatencyOf(perModelLatencyTable[m], perModelBatchVec[m], b, p))

(* The estimated interference lies between those of the profiled batches    *)
(* around the two that were asked for.                                      *)
InterferenceSound ==
    answer.of = "interference" =>
        LET Around(x) == {[x EXCEPT !.batch = BatchBelow(x.batch)],
                          [x EXCEPT !.batch = Min({MAX_BATCH, 2 * BatchBelow(x.batch)})]}
            Corners == {getInterference(m, y) : m \in Around(answer.my), y \in Around(answer.your)}
        IN  /\ \E c \in Corners : Leq(c, answer.value)
            /\ \E c \in Corners : Leq(answer.value, c)
            /\ answer.value.n >= 0
=============================================================================
